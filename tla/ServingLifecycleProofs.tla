----------------------- MODULE ServingLifecycleProofs -----------------------
(***************************************************************************)
(* Proofs about ServingLifecycle, for any number of shells, starts, faults *)
(* and foreign objects.                                                    *)
(*                                                                         *)
(* Nothing keeps two commands apart, so little is invariant at large: what *)
(* a volume can be once a start passed its check, that no object is        *)
(* foreign once a stop has surveyed the host, nor what a cleanup is about  *)
(* to remove.  What a command may count on beyond that it may count on     *)
(* only while it runs alone; the invariant says so step by step, for a     *)
(* start and for a stop.                                                   *)
(***************************************************************************)
EXTENDS ServingLifecycle, FiniteSetTheorems, TLAPS

Elements(s) == {s[i] : i \in DOMAIN s}

StopTails == {<<"backend", "ingress", "bridge">>, <<"ingress", "bridge">>, <<"bridge">>}
RemovalTails == {<<"ingress", "bridge", "backend">>, <<"bridge", "backend">>, <<"backend">>}

\* What a command still has to do is a tail of the order it follows.
TodoIsTail ==
  \A p \in Shells :
    /\ pc[p] = "stopping" => todo[p] \in StopTails
    /\ pc[p] = "removing" => todo[p] \in RemovalTails
    /\ pc[p] = "cleaning" => todo[p] \in RemovalTails \union {<<>>}
    /\ pc[p] = "cleanMade" => todo[p] \in RemovalTails
    /\ pc[p] \notin Guarded \union {"cleaning", "cleanMade"} => made[p] = {}

VolumeIsUsable ==
  /\ BackendHasItsVolume
  /\ \A p \in Shells : pc[p] \in Guarded => volume \in {"empty", "used"}

\* From its survey on, a stop has nothing foreign before it.
Surveyed == {"stopping", "removing", "removeSocket", "verify"}
NothingForeign == \A o \in Objects : maker[o] # Foreign
SurveyHolds == (\E p \in Shells : pc[p] \in Surveyed) => NothingForeign

\* What a cleanup is about to remove it made, and is nothing foreign.
CheckHolds ==
  \A p \in Shells :
    pc[p] = "cleanMade" => Head(todo[p]) \in made[p] /\ maker[Head(todo[p])] # Foreign

AloneIsAlone ==
  \A p \in Shells : alone[p] => Active(p) /\ \A q \in Shells \ {p} : ~Active(q)

\* What a stop that runs alone has done so far.
StopAlone(p) ==
  /\ pc[p] = "survey" => seen[p] \subseteq OwnedObjects /\ OwnedObjects \subseteq Found(p)
  /\ pc[p] = "stopping" => running \subseteq Elements(todo[p])
  /\ pc[p] \in {"removing", "removeSocket", "verify"} => running = {}
  /\ pc[p] = "removing" => OwnedObjects \subseteq Elements(todo[p]) \union {"socket"}
  /\ pc[p] = "removeSocket" => OwnedObjects \subseteq {"socket"}
  /\ pc[p] = "verify" => OwnedObjects = {}

\* What a start that runs alone has kept, and what it has made.
StartAlone(p) ==
  /\ pc[p] \in StartSteps => (\A o \in seen[p] : Present(o)) /\ made[p] \intersect seen[p] = {}
  /\ pc[p] \in StartSteps \ {"look", "socket"} => "socket" \notin seen[p]
  /\ pc[p] \in Unguarded => OwnedObjects \subseteq Found(p)
  /\ pc[p] \in Guarded => OwnedObjects \subseteq Found(p) \union made[p] \union {"socket"}
  /\ pc[p] \in {"cleaning", "cleanMade"} /\ trouble[p] = {} =>
        OwnedObjects \subseteq Found(p) \union (made[p] \intersect Elements(todo[p])) \union {"socket"}

AloneHolds == \A p \in Shells : alone[p] => StopAlone(p) /\ StartAlone(p)

IInv ==
  /\ TypeOK /\ running \subseteq Containers
  /\ TodoIsTail /\ VolumeIsUsable /\ SurveyHolds /\ CheckHolds /\ AloneIsAlone /\ AloneHolds

-----------------------------------------------------------------------------
(* The makers, and the tails of the orders.                                *)

LEMMA Makers ==
  /\ Nobody # Foreign /\ Nobody # Earlier /\ Foreign # Earlier
  /\ \A p \in Shells : p # Nobody /\ p # Foreign /\ p # Earlier
<1> DEFINE Pair(a, b) == {a} \union {b}
<1>1. ASSUME NEW a, NEW b PROVE Cardinality(Pair(a, b)) # 3
  <2>1. IsFiniteSet({a}) /\ Cardinality({a}) = 1
    BY FS_Singleton
  <2> QED  BY <2>1, FS_AddElement
<1>2. Nobody # Foreign
  <2> SUFFICES ASSUME Nobody = Foreign PROVE FALSE
    OBVIOUS
  <2>1. {Nobody, Foreign, Earlier} = Pair(Nobody, Earlier)
    OBVIOUS
  <2> HIDE DEF Pair
  <2> QED  BY <1>1, <2>1, MakersAssumption
<1>3. Nobody # Earlier
  <2> SUFFICES ASSUME Nobody = Earlier PROVE FALSE
    OBVIOUS
  <2>1. {Nobody, Foreign, Earlier} = Pair(Nobody, Foreign)
    OBVIOUS
  <2> HIDE DEF Pair
  <2> QED  BY <1>1, <2>1, MakersAssumption
<1>4. Foreign # Earlier
  <2> SUFFICES ASSUME Foreign = Earlier PROVE FALSE
    OBVIOUS
  <2>1. {Nobody, Foreign, Earlier} = Pair(Foreign, Nobody)
    OBVIOUS
  <2> HIDE DEF Pair
  <2> QED  BY <1>1, <2>1, MakersAssumption
<1>5. \A p \in Shells : p \notin {Nobody, Foreign, Earlier}
  BY MakersAssumption
<1> QED  BY <1>2, <1>3, <1>4, <1>5

LEMMA Orders ==
  /\ RemovalOrder \in Seq(Containers) /\ StopOrder \in Seq(Containers) /\ <<>> \in Seq(Containers)
  /\ Elements(RemovalOrder) = Containers /\ Elements(StopOrder) = Containers
  /\ Elements(<<>>) = {}
  /\ RemovalOrder \in RemovalTails /\ StopOrder \in StopTails
<1>1. Elements(RemovalOrder) = {RemovalOrder[1], RemovalOrder[2], RemovalOrder[3]}
  BY DEF Elements, RemovalOrder
<1>2. Elements(StopOrder) = {StopOrder[1], StopOrder[2], StopOrder[3]}
  BY DEF Elements, StopOrder
<1> QED  BY <1>1, <1>2 DEF Elements, RemovalOrder, StopOrder, Containers, RemovalTails, StopTails

\* One step along the order in which the containers are removed: the bridge
\* goes before the backend.
LEMMA RemovalTail ==
  ASSUME NEW s \in RemovalTails
  PROVE  /\ s \in Seq(Containers) /\ Head(s) \in Containers /\ Tail(s) \in Seq(Containers)
         /\ Elements(Tail(s)) = Elements(s) \ {Head(s)}
         /\ Head(s) = "backend" => "bridge" \notin Elements(s)
         /\ Tail(s) \in RemovalTails \union {<<>>}
         /\ Len(s) > 1 => Tail(s) \in RemovalTails
         /\ Len(s) <= 1 => Elements(Tail(s)) = {}
<1> DEFINE Goal(t) ==
         /\ t \in Seq(Containers) /\ Head(t) \in Containers /\ Tail(t) \in Seq(Containers)
         /\ Elements(Tail(t)) = Elements(t) \ {Head(t)}
         /\ Head(t) = "backend" => "bridge" \notin Elements(t)
         /\ Tail(t) \in RemovalTails \union {<<>>}
         /\ Len(t) > 1 => Tail(t) \in RemovalTails
         /\ Len(t) <= 1 => Elements(Tail(t)) = {}
<1>1. Goal(<<"ingress", "bridge", "backend">>)
  <2> DEFINE t == <<"ingress", "bridge", "backend">>
             u == <<"bridge", "backend">>
  <2>1. Head(t) = "ingress" /\ Tail(t) = u /\ Len(t) = 3 /\ t \in Seq(Containers)
    BY DEF Containers
  <2>2. Elements(t) = {"ingress", "bridge", "backend"} /\ Elements(u) = {"bridge", "backend"}
    BY DEF Elements
  <2> QED  BY <2>1, <2>2 DEF Containers, RemovalTails
<1>2. Goal(<<"bridge", "backend">>)
  <2> DEFINE t == <<"bridge", "backend">>
             u == <<"backend">>
  <2>1. Head(t) = "bridge" /\ Tail(t) = u /\ Len(t) = 2 /\ t \in Seq(Containers)
    BY DEF Containers
  <2>2. Elements(t) = {"bridge", "backend"} /\ Elements(u) = {"backend"}
    BY DEF Elements
  <2> QED  BY <2>1, <2>2 DEF Containers, RemovalTails
<1>3. Goal(<<"backend">>)
  <2> DEFINE t == <<"backend">>
             u == <<>>
  <2>1. Head(t) = "backend" /\ Tail(t) = u /\ Len(t) = 1 /\ t \in Seq(Containers)
    BY DEF Containers
  <2>2. Elements(t) = {"backend"} /\ Elements(u) = {}
    BY DEF Elements
  <2> QED  BY <2>1, <2>2 DEF Containers, RemovalTails
<1> QED  BY <1>1, <1>2, <1>3 DEF RemovalTails

LEMMA StopTail ==
  ASSUME NEW s \in StopTails
  PROVE  /\ Head(s) \in Containers /\ Tail(s) \in Seq(Containers)
         /\ Elements(Tail(s)) = Elements(s) \ {Head(s)}
         /\ Len(s) > 1 => Tail(s) \in StopTails
         /\ ~(Len(s) > 1) => Elements(s) = {Head(s)}
<1> DEFINE Goal(t) ==
         /\ Head(t) \in Containers /\ Tail(t) \in Seq(Containers)
         /\ Elements(Tail(t)) = Elements(t) \ {Head(t)}
         /\ Len(t) > 1 => Tail(t) \in StopTails
         /\ ~(Len(t) > 1) => Elements(t) = {Head(t)}
<1>1. Goal(<<"backend", "ingress", "bridge">>)
  <2> DEFINE t == <<"backend", "ingress", "bridge">>
             u == <<"ingress", "bridge">>
  <2>1. Head(t) = "backend" /\ Tail(t) = u /\ Len(t) = 3 /\ u \in Seq(Containers)
    BY DEF Containers
  <2>2. Elements(t) = {"ingress", "bridge", "backend"} /\ Elements(u) = {"ingress", "bridge"}
    BY DEF Elements
  <2> QED  BY <2>1, <2>2 DEF Containers, StopTails
<1>2. Goal(<<"ingress", "bridge">>)
  <2> DEFINE t == <<"ingress", "bridge">>
             u == <<"bridge">>
  <2>1. Head(t) = "ingress" /\ Tail(t) = u /\ Len(t) = 2 /\ u \in Seq(Containers)
    BY DEF Containers
  <2>2. Elements(t) = {"ingress", "bridge"} /\ Elements(u) = {"bridge"}
    BY DEF Elements
  <2> QED  BY <2>1, <2>2 DEF Containers, StopTails
<1>3. Goal(<<"bridge">>)
  <2> DEFINE t == <<"bridge">>
             u == <<>>
  <2>1. Head(t) = "bridge" /\ Tail(t) = u /\ Len(t) = 1 /\ u \in Seq(Containers)
    BY DEF Containers
  <2>2. Elements(t) = {"bridge"} /\ Elements(u) = {}
    BY DEF Elements
  <2> QED  BY <2>1, <2>2 DEF Containers, StopTails
<1> QED  BY <1>1, <1>2, <1>3 DEF StopTails

-----------------------------------------------------------------------------
(* What a step must respect, and the kinds of step a command takes.        *)

ForeignKept == \A o \in Objects : maker[o] = Foreign => maker'[o] = Foreign
NoneArrives == \A o \in Objects : maker'[o] = Foreign => maker[o] = Foreign

LeavesForeign(p) ==
  /\ pc'[p] # pc[p] \/ todo'[p] # todo[p] => ForeignKept
  /\ (/\ Ends(p) /\ pc[p] \in StopSteps /\ alone[p]
      /\ \E o \in Objects : maker[o] = Foreign) => Unchanged(p)

KeepsToItsOwn(p) ==
  Ends(p) /\ pc[p] \in StartSteps /\ alone[p] =>
    /\ \A o \in seen[p] : maker'[o] # Nobody
    /\ pc'[p] = "failed" /\ pc[p] # "cleanMade" /\ trouble[p] = {} =>
          OwnedObjects' \subseteq Found(p)

Clears(p) ==
  (/\ Ends(p) /\ pc[p] \in StopSteps /\ alone[p] /\ faults' = faults
   /\ ~InTheWay) =>
  \/ pc'[p] = "stopped" /\ OwnedObjects' = {}
  \/ pc[p] = "survey" /\ "ingress" \in running \ ready /\ Unchanged(p)

Right == \A p \in Shells : LeavesForeign(p) /\ KeepsToItsOwn(p) /\ Clears(p)

\* Why a stop gives up, when no call failed and nobody interrupted it.
Reason(p, how) ==
  \/ pc[p] = "survey" /\ ~Recognised
  \/ /\ pc[p] = "removing"
     /\ LET n == Head(todo[p])
        IN  n \in running \/ (n = "backend" /\ Present("bridge"))
  \/ pc[p] = "removeSocket" /\ maker["socket"] = Foreign
  \/ /\ pc[p] = "verify"
     /\ how = IF Listener \/ \E n \in Containers : Present(n) THEN "failed" ELSE "stopped"

\* A command ends where it stands.
Leaves(p, how) ==
  /\ Active(p) /\ how \in Ended /\ faults' \in 0..MaxFaults /\ Exits(p, how)
  /\ how = "failed" => pc[p] \in Unguarded \union StopSteps \union {"cleanMade"}
  /\ pc[p] \in StopSteps /\ faults' = faults => Reason(p, how)

Edges ==
  {<<"look", "socket">>, <<"socket", "volume">>, <<"volume", "statVolume">>,
   <<"volume", "createVolume">>,
   <<"statVolume", "runBackend">>, <<"waitBackend", "runBridge">>,
   <<"waitBridge", "runIngress">>, <<"waitIngress", "assert">>}

\* A command goes on and changes nothing else.
Advances(p, step) ==
  /\ Moves(p, step) /\ <<pc[p], step>> \in Edges
  /\ pc[p] = "socket" => ~Present("socket")
  /\ pc[p] = "statVolume" => volume \in {"empty", "used"}

\* The trap takes over and nothing else changes.
Aborts(p) ==
  /\ pc[p] \in Guarded /\ EntersCleanup(p)
  /\ UNCHANGED <<world, made, history, starts>> /\ faults' \in 0..MaxFaults

\* The other commands stand still while p takes a step.
OthersStand(p) ==
  \A q \in Shells \ {p} :
    /\ pc'[q] = pc[q] /\ todo'[q] = todo[q] /\ made'[q] = made[q]
    /\ alone'[q] => alone[q]

-----------------------------------------------------------------------------
(* Lemmas for every step of a command.                                     *)

LEMMA OnlyOne ==
  ASSUME IInv, NEW p \in Shells, Active(p)
  PROVE  \A q \in Shells \ {p} : ~alone[q]
BY DEF IInv, AloneIsAlone

\* What holds of the commands that run alone need only be shown of the one that
\* takes the step.
LEMMA AloneStep ==
  ASSUME IInv, NEW p \in Shells, Active(p), OthersStand(p),
         alone'[p] => alone[p] /\ Active(p)' /\ StopAlone(p)' /\ StartAlone(p)'
  PROVE  AloneIsAlone' /\ AloneHolds'
<1>1. \A q \in Shells \ {p} : ~alone'[q]
  BY OnlyOne DEF OthersStand
<1>2. AloneHolds'
  BY <1>1 DEF AloneHolds
<1>3. alone'[p] => Active(p)' /\ \A q \in Shells \ {p} : ~Active(q)'
  BY DEF IInv, AloneIsAlone, OthersStand, Active
<1> QED  BY <1>1, <1>2, <1>3 DEF AloneIsAlone

\* What the others have surveyed or looked at stays so while nothing arrives.
LEMMA OthersHold ==
  ASSUME IInv, NEW p \in Shells, OthersStand(p), NoneArrives,
         pc'[p] \in Surveyed => NothingForeign',
         pc'[p] = "cleanMade" => Head(todo'[p]) \in made'[p] /\ maker'[Head(todo'[p])] # Foreign
  PROVE  SurveyHolds' /\ CheckHolds'
<1>1. SurveyHolds'
  BY DEF IInv, SurveyHolds, NothingForeign, NoneArrives, OthersStand
<1>2. ASSUME NEW q \in Shells \ {p}, pc'[q] = "cleanMade"
      PROVE  Head(todo'[q]) \in made'[q] /\ maker'[Head(todo'[q])] # Foreign
  <2>1. pc[q] = "cleanMade" /\ todo'[q] = todo[q] /\ made'[q] = made[q]
    BY <1>2 DEF OthersStand
  <2>2. Head(todo[q]) \in Objects
    BY <2>1, RemovalTail DEF IInv, TodoIsTail, Objects
  <2>3. Head(todo[q]) \in made[q] /\ maker[Head(todo[q])] # Foreign
    BY <2>1 DEF IInv, CheckHolds
  <2> QED  BY <2>1, <2>2, <2>3 DEF NoneArrives
<1> QED  BY <1>1, <1>2 DEF CheckHolds

\* A step on which nothing foreign is touched and nothing ends is right.
LEMMA QuietStep ==
  ASSUME IInv, NEW p \in Shells, Active(p), OthersStand(p), ForeignKept, pc'[p] \notin Ended
  PROVE  Right
<1> SUFFICES ASSUME NEW q \in Shells
             PROVE  LeavesForeign(q) /\ KeepsToItsOwn(q) /\ Clears(q)
  BY DEF Right
<1>1. ~Ends(q)
  BY DEF Ends, Active, OthersStand
<1> QED  BY <1>1 DEF LeavesForeign, KeepsToItsOwn, Clears

\* A step on which p ends is right when it is right of p.
LEMMA LastStep ==
  ASSUME NEW p \in Shells, Active(p), OthersStand(p), ForeignKept,
         alone[p] /\ pc[p] \in StopSteps /\ (\E o \in Objects : maker[o] = Foreign) => Unchanged(p),
         KeepsToItsOwn(p), Clears(p)
  PROVE  Right
<1> SUFFICES ASSUME NEW q \in Shells
             PROVE  LeavesForeign(q) /\ KeepsToItsOwn(q) /\ Clears(q)
  BY DEF Right
<1>1. CASE q = p
  BY <1>1 DEF LeavesForeign
<1>2. CASE q # p
  <2>1. ~Ends(q)
    BY <1>2 DEF Ends, Active, OthersStand
  <2> QED  BY <2>1 DEF LeavesForeign, KeepsToItsOwn, Clears
<1> QED  BY <1>1, <1>2

LEMMA EndStands ==
  ASSUME TypeOK, NEW p \in Shells, NEW how, NEW objects, End(p, how, objects)
  PROVE  /\ OthersStand(p) /\ pc'[p] = how /\ made'[p] = {} /\ ~alone'[p] /\ trouble'[p] = {}
BY DEF TypeOK, End, Goto, OthersStand

LEMMA ExitKeeps ==
  ASSUME TypeOK, NEW p \in Shells, NEW how, Exits(p, how)
  PROVE  /\ maker' \in [Objects -> Shells \union {Nobody, Foreign, Earlier}]
         /\ OwnedObjects' = OwnedObjects
         /\ \A o \in Objects : /\ maker'[o] = Foreign <=> maker[o] = Foreign
                               /\ maker'[o] = Nobody <=> maker[o] = Nobody
<1>1. \A o \in Objects : maker'[o] = IF maker[o] = p THEN Earlier ELSE maker[o]
  BY DEF Exits, End
<1>2. maker' \in [Objects -> Shells \union {Nobody, Foreign, Earlier}]
  BY DEF Exits, End, TypeOK
<1> QED  BY <1>1, <1>2, Makers DEF OwnedObjects, Owned

\* Types and the parts of the invariant that no command's being alone matters to.
LEMMA LeavesInv ==
  ASSUME IInv, NEW p \in Shells, NEW how, Leaves(p, how)
  PROVE  IInv'
<1>1. TypeOK /\ Exits(p, how) /\ how \in Ended /\ Active(p)
  BY DEF IInv, Leaves
<1>2. UNCHANGED <<running, ready, volume, foreignListener, starts>>
  BY <1>1 DEF Exits
<1>3. TypeOK'
  <2>1. maker' \in [Objects -> Shells \union {Nobody, Foreign, Earlier}]
        /\ ready' \subseteq running' /\ running' \subseteq OwnedObjects'
    BY <1>1, <1>2, ExitKeeps DEF TypeOK
  <2>2. /\ pc' \in [Shells -> Ended \union StartSteps \union StopSteps]
        /\ todo' \in [Shells -> Seq(Containers)]
        /\ made' \in [Shells -> SUBSET Containers]
        /\ alone' \in [Shells -> BOOLEAN] /\ seen' \in [Shells -> SUBSET Objects]
        /\ trouble' \in [Shells -> SUBSET {"left", "stuck"}]
    BY <1>1, Orders DEF TypeOK, Exits, End, Goto
  <2> QED  BY <1>1, <1>2, <2>1, <2>2 DEF TypeOK, Leaves
<1>4. OthersStand(p) /\ pc'[p] = how /\ made'[p] = {} /\ ~alone'[p]
  BY <1>1, EndStands DEF Exits
<1>5. TodoIsTail'
  BY <1>1, <1>4 DEF IInv, TodoIsTail, OthersStand, Ended, Guarded
<1>6. VolumeIsUsable'
  BY <1>1, <1>2, <1>4 DEF IInv, VolumeIsUsable, BackendHasItsVolume, OthersStand, Ended, Guarded
<1>7. SurveyHolds' /\ CheckHolds'
  <2>1. NoneArrives
    BY <1>1, ExitKeeps DEF NoneArrives
  <2> QED  BY <1>1, <1>4, <2>1, OthersHold DEF Ended, Surveyed
<1>8. AloneIsAlone' /\ AloneHolds'
  BY <1>1, <1>4, AloneStep
<1> QED  BY <1>2, <1>3, <1>5, <1>6, <1>7, <1>8 DEF IInv

LEMMA LeavesRight ==
  ASSUME IInv, NEW p \in Shells, NEW how, Leaves(p, how)
  PROVE  Right
<1>1. TypeOK /\ Exits(p, how) /\ how \in Ended /\ Active(p)
  BY DEF IInv, Leaves
<1>2. OthersStand(p) /\ pc'[p] = how
  BY <1>1, EndStands DEF Exits
<1>3. ForeignKept
  BY <1>1, ExitKeeps DEF ForeignKept
<1>4. OwnedObjects' = OwnedObjects /\ \A o \in Objects : maker'[o] = Nobody <=> maker[o] = Nobody
  BY <1>1, ExitKeeps
<1>5. ASSUME alone[p] PROVE StopAlone(p) /\ StartAlone(p)
  BY <1>5 DEF IInv, AloneHolds
<1>6. (pc[p] \in StopSteps /\ \E o \in Objects : maker[o] = Foreign) => pc[p] = "survey"
  BY DEF IInv, SurveyHolds, NothingForeign, StopSteps, Surveyed
<1>7. alone[p] /\ pc[p] = "survey" => Unchanged(p)
  BY <1>4, <1>5 DEF StopAlone, Unchanged
<1>8. KeepsToItsOwn(p)
  <2> SUFFICES ASSUME alone[p], pc[p] \in StartSteps
               PROVE  /\ \A o \in seen[p] : maker'[o] # Nobody
                      /\ pc'[p] = "failed" /\ pc[p] # "cleanMade" => OwnedObjects' \subseteq Found(p)
    BY DEF KeepsToItsOwn
  <2>1. seen[p] \subseteq Objects
    BY <1>1 DEF TypeOK
  <2>2. \A o \in seen[p] : maker'[o] # Nobody
    BY <1>4, <1>5, <2>1 DEF StartAlone, Present
  <2>3. how = "failed" /\ pc[p] # "cleanMade" => pc[p] \in Unguarded
    BY DEF Leaves, StartSteps, StopSteps, Unguarded, Guarded
  <2> QED  BY <1>2, <1>4, <1>5, <2>2, <2>3 DEF StartAlone
<1>9. Clears(p)
  <2> SUFFICES ASSUME alone[p], pc[p] \in StopSteps, faults' = faults, ~InTheWay
               PROVE  \/ pc'[p] = "stopped" /\ OwnedObjects' = {}
                      \/ pc[p] = "survey" /\ "ingress" \in running \ ready /\ Unchanged(p)
    BY DEF Clears
  <2>1. Reason(p, how) /\ StopAlone(p)
    BY <1>5 DEF Leaves
  <2>2. NothingForeign /\ ~foreignListener
    BY DEF InTheWay, NothingForeign
  <2>3. CASE pc[p] = "survey"
    BY <1>7, <2>1, <2>2, <2>3 DEF Reason, Recognised, NothingForeign, Listener
  <2>4. CASE pc[p] = "removing"
    <3>1. todo[p] \in RemovalTails
      BY <2>4 DEF IInv, TodoIsTail
    <3>2. running = {} /\ OwnedObjects \subseteq Elements(todo[p]) \union {"socket"}
      BY <2>1, <2>4 DEF StopAlone
    <3>3. Head(todo[p]) = "backend" /\ Present("bridge")
      BY <2>1, <2>4, <3>2 DEF Reason
    <3>4. "bridge" \in OwnedObjects
      BY <2>2, <3>3 DEF OwnedObjects, Owned, Present, NothingForeign, Objects, Containers
    <3> QED  BY <3>1, <3>2, <3>3, <3>4, RemovalTail
  <2>5. CASE pc[p] = "removeSocket"
    BY <2>1, <2>2, <2>5 DEF Reason, NothingForeign, Objects
  <2>6. CASE pc[p] = "verify"
    <3>1. running = {} /\ OwnedObjects = {} /\ ready = {}
      BY <1>1, <2>1, <2>6 DEF StopAlone, TypeOK
    <3>2. \A n \in Containers : ~Present(n)
      BY <2>2, <3>1 DEF OwnedObjects, Owned, Present, NothingForeign, Objects
    <3> QED  BY <1>2, <1>4, <2>1, <2>2, <2>6, <3>1, <3>2 DEF Reason, Listener
  <2> QED  BY <2>1, <2>3, <2>4, <2>5, <2>6 DEF Reason
<1> QED  BY <1>1, <1>2, <1>3, <1>6, <1>7, <1>8, <1>9, LastStep

LEMMA AdvancesHolds ==
  ASSUME IInv, NEW p \in Shells, NEW step, Advances(p, step)
  PROVE  IInv' /\ Right
<1>1. /\ TypeOK /\ UNCHANGED <<world, todo, made, history, bounds>>
      /\ pc' = [pc EXCEPT ![p] = step] /\ <<pc[p], step>> \in Edges
  BY DEF IInv, Advances, Moves, Goto
<1>2. pc \in [Shells -> Ended \union StartSteps \union StopSteps]
  BY <1>1 DEF TypeOK
<1>3. Active(p) /\ OthersStand(p) /\ pc'[p] = step /\ step \notin Ended
  BY <1>1, <1>2 DEF Active, OthersStand, Edges, Ended, history
<1>4. step \in StartSteps /\ pc[p] \in StartSteps
  BY <1>1 DEF Edges, StartSteps, Unguarded, Guarded
<1>5. TypeOK'
  BY <1>1, <1>4 DEF TypeOK, world, history, bounds, OwnedObjects, Owned
<1>6. TodoIsTail'
  BY <1>1, <1>2 DEF IInv, TodoIsTail, Edges, Guarded
<1>7. VolumeIsUsable'
  BY <1>1, <1>2 DEF IInv, VolumeIsUsable, BackendHasItsVolume, Edges, Guarded, world, Advances
<1>8. SurveyHolds' /\ CheckHolds'
  BY <1>1, <1>3, OthersHold DEF NoneArrives, Edges, Surveyed, world
<1>9. ASSUME alone[p] PROVE StopAlone(p)' /\ StartAlone(p)'
  <2>1. StartAlone(p)
    BY <1>9 DEF IInv, AloneHolds
  <2>2. StopAlone(p)'
    BY <1>1, <1>2 DEF StopAlone, Edges
  <2>3. UNCHANGED <<OwnedObjects, Found(p)>> /\ \A o \in Objects : Present(o)' = Present(o)
    BY <1>1 DEF world, history, OwnedObjects, Owned, Found, Present
  <2>4. seen[p] \subseteq Objects
    BY <1>1 DEF TypeOK
  <2>5. ASSUME pc[p] \in {"look", "socket", "volume", "statVolume"} PROVE StartAlone(p)'
    <3>1. made'[p] = {}
      BY <1>1, <2>5 DEF IInv, TodoIsTail, Guarded
    <3> QED
      BY <1>1, <1>2, <2>1, <2>3, <2>4, <2>5, <3>1
      DEF StartAlone, StartSteps, Unguarded, Guarded, Edges, Advances, history
  <2>6. ASSUME pc[p] \in {"waitBackend", "waitBridge", "waitIngress"} PROVE StartAlone(p)'
    BY <1>1, <1>2, <2>1, <2>3, <2>4, <2>6
    DEF StartAlone, StartSteps, Unguarded, Guarded, Edges, history
  <2> QED  BY <1>1, <2>2, <2>5, <2>6 DEF Edges
<1>10. AloneIsAlone' /\ AloneHolds'
  BY <1>1, <1>3, <1>9, AloneStep DEF history, Active
<1>11. Right
  BY <1>1, <1>3, QuietStep DEF ForeignKept, world
<1> QED  BY <1>1, <1>5, <1>6, <1>7, <1>8, <1>10, <1>11 DEF IInv, world

\* The trap takes over; the step may leave one more container in the world.
Trapped(p) ==
  /\ pc[p] \in Guarded /\ EntersCleanup(p) /\ made' = made
  /\ UNCHANGED <<alone, seen, ready, foreignListener, starts>> /\ faults' \in 0..MaxFaults

LEMMA TrappedHolds ==
  ASSUME IInv, NEW p \in Shells, Trapped(p), ForeignKept,
         maker' \in [Objects -> Shells \union {Nobody, Foreign, Earlier}],
         trouble' \in [Shells -> SUBSET {"left", "stuck"}],
         running \subseteq running', running' \subseteq Containers, running' \subseteq OwnedObjects',
         OwnedObjects \subseteq OwnedObjects',
         NoneArrives,
         volume' \in {"absent", "fresh", "empty", "used", "foreign"},
         volume \in {"empty", "used"} => volume' \in {"empty", "used"},
         BackendHasItsVolume',
         \A o \in Objects : Present(o) => maker'[o] # Nobody,
         trouble'[p] = {} => OwnedObjects' = OwnedObjects
  PROVE  IInv' /\ Right
<1>1. /\ TypeOK /\ pc' = [pc EXCEPT ![p] = "cleaning"] /\ todo' = [todo EXCEPT ![p] = RemovalOrder]
      /\ pc[p] \in Guarded
  BY DEF IInv, Trapped, EntersCleanup, Goto
<1>2. pc \in [Shells -> Ended \union StartSteps \union StopSteps] /\ DOMAIN todo = Shells
  BY <1>1 DEF TypeOK
<1>3. Active(p) /\ OthersStand(p) /\ pc'[p] = "cleaning"
  BY <1>1, <1>2 DEF Active, OthersStand, Ended, Guarded, Trapped
<1>4. TypeOK'
  <2>1. pc' \in [Shells -> Ended \union StartSteps \union StopSteps]
    BY <1>1, <1>2 DEF StartSteps
  <2>2. todo' \in [Shells -> Seq(Containers)]
    BY <1>1, Orders DEF TypeOK
  <2> QED  BY <1>1, <2>1, <2>2 DEF TypeOK, Trapped
<1>5. TodoIsTail'
  <2> SUFFICES ASSUME NEW q \in Shells
               PROVE  /\ pc'[q] = "stopping" => todo'[q] \in StopTails
                      /\ pc'[q] = "removing" => todo'[q] \in RemovalTails
                      /\ pc'[q] = "cleaning" => todo'[q] \in RemovalTails \union {<<>>}
                      /\ pc'[q] = "cleanMade" => todo'[q] \in RemovalTails
                      /\ pc'[q] \notin Guarded \union {"cleaning", "cleanMade"} => made'[q] = {}
    BY DEF TodoIsTail
  <2>1. CASE q = p
    BY <1>1, <1>2, <1>3, <2>1, Orders DEF Trapped
  <2>2. CASE q # p
    BY <1>3, <2>2 DEF OthersStand, IInv, TodoIsTail
  <2> QED  BY <2>1, <2>2
<1>6. VolumeIsUsable'
  BY <1>1, <1>2 DEF IInv, VolumeIsUsable, Guarded
<1>7. SurveyHolds' /\ CheckHolds'
  BY <1>3, OthersHold DEF Surveyed
<1>8. ASSUME alone[p] PROVE StopAlone(p)' /\ StartAlone(p)'
  <2>1. StartAlone(p) /\ made'[p] = made[p] /\ Found(p)' = Found(p) /\ seen'[p] = seen[p]
    BY <1>8 DEF IInv, AloneHolds, Trapped, Found
  <2>2. todo'[p] = RemovalOrder /\ Elements(todo'[p]) = Containers
    BY <1>1, <1>2, Orders
  <2>3. made[p] \subseteq Containers /\ seen[p] \subseteq Objects
    BY <1>1 DEF TypeOK
  <2>4. /\ \A o \in seen[p] : Present(o)
        /\ made[p] \intersect seen[p] = {} /\ "socket" \notin seen[p]
        /\ OwnedObjects \subseteq Found(p) \union made[p] \union {"socket"}
    BY <1>1, <2>1 DEF StartAlone, StartSteps, Guarded
  <2>5. \A o \in seen[p] : Present(o)'
    BY <2>3, <2>4 DEF Present
  <2>6. StopAlone(p)'
    BY <1>3 DEF StopAlone
  <2> QED  BY <1>3, <2>1, <2>2, <2>3, <2>4, <2>5, <2>6 DEF StartAlone, Guarded, Unguarded
<1>9. AloneIsAlone' /\ AloneHolds'
  BY <1>3, <1>8, AloneStep DEF Trapped, Active, Ended
<1>10. Right
  BY <1>3, QuietStep DEF Ended
<1> QED  BY <1>4, <1>5, <1>6, <1>7, <1>9, <1>10 DEF IInv

LEMMA AbortsHolds ==
  ASSUME IInv, NEW p \in Shells, Aborts(p)
  PROVE  IInv' /\ Right
<1>1. TypeOK /\ UNCHANGED <<maker, running, ready, volume, foreignListener, trouble>>
  BY DEF IInv, Aborts, world, history
<1>2. OwnedObjects' = OwnedObjects /\ NoneArrives /\ BackendHasItsVolume'
  BY <1>1 DEF OwnedObjects, Owned, NoneArrives, BackendHasItsVolume, IInv, VolumeIsUsable
<1>3. ForeignKept /\ Trapped(p)
  BY <1>1 DEF ForeignKept, Aborts, Trapped, world, history
<1> QED  BY <1>1, <1>2, <1>3, TrappedHolds DEF TypeOK, Present, IInv

-----------------------------------------------------------------------------
(* The steps of a start.                                                   *)

LEMMA FaultIn == ASSUME TypeOK, Fault PROVE faults' \in 0..MaxFaults
BY BoundsAssumption DEF TypeOK, Fault

LEMMA LookHolds == ASSUME IInv, NEW p \in Shells, Look(p) PROVE IInv' /\ Right
<1>1. TypeOK /\ pc[p] = "look" /\ Active(p)
  BY DEF IInv, Look, Active, Ended
<1>2. CASE \E how \in {"healthy", "failed"} : Exits(p, how) /\ UNCHANGED faults
  <2>1. PICK how \in {"healthy", "failed"} : Exits(p, how) /\ UNCHANGED faults
    BY <1>2
  <2>2. Leaves(p, how)
    BY <1>1, <2>1 DEF Leaves, TypeOK, Ended, Unguarded, StopSteps
  <2> QED  BY <2>2, LeavesInv, LeavesRight
<1>3. CASE Moves(p, "socket")
  <2>1. Advances(p, "socket")
    BY <1>1, <1>3 DEF Advances, Edges
  <2> QED  BY <2>1, AdvancesHolds
<1> QED  BY <1>2, <1>3 DEF Look

LEMMA CheckSocketHolds == ASSUME IInv, NEW p \in Shells, CheckSocket(p) PROVE IInv' /\ Right
<1>1. TypeOK /\ pc[p] = "socket" /\ Active(p)
  BY DEF IInv, CheckSocket, Active, Ended
<1>2. CASE Exits(p, "failed") /\ UNCHANGED faults
  <2>1. Leaves(p, "failed")
    BY <1>1, <1>2 DEF Leaves, TypeOK, Ended, Unguarded, StopSteps
  <2> QED  BY <2>1, LeavesInv, LeavesRight
<1>3. CASE ~Present("socket") /\ Moves(p, "volume")
  <2>1. Advances(p, "volume")
    BY <1>1, <1>3 DEF Advances, Edges
  <2> QED  BY <2>1, AdvancesHolds
<1> QED  BY <1>2, <1>3 DEF CheckSocket

\* A step of an unguarded start that does something to the volume: it is never
\* one that a guarded start relies on, or that a backend runs on.
VolumeStep(p, from, to, becomes) ==
  /\ pc[p] = from /\ Goto(p, to) /\ volume' = becomes
  /\ UNCHANGED <<maker, running, ready, foreignListener, todo, made, history, bounds>>

LEMMA VolumeStepHolds ==
  ASSUME IInv, NEW p \in Shells, NEW from, NEW to, NEW becomes, VolumeStep(p, from, to, becomes),
         \/ from = "createVolume" /\ to = "initVolume" /\ becomes = IF volume = "absent" THEN "fresh" ELSE volume
         \/ from = "initVolume" /\ to = "statVolume" /\ volume \in {"fresh", "empty"} /\ becomes = "empty"
  PROVE  IInv' /\ Right
<1>1. /\ TypeOK /\ pc' = [pc EXCEPT ![p] = to] /\ volume' = becomes
      /\ UNCHANGED <<maker, running, ready, foreignListener, todo, made, history, bounds>>
  BY DEF IInv, VolumeStep, Goto
<1>2. pc \in [Shells -> Ended \union StartSteps \union StopSteps] /\ pc[p] = from
  BY <1>1 DEF TypeOK, VolumeStep
<1>3. Active(p) /\ OthersStand(p) /\ pc'[p] = to /\ to \notin Ended
  BY <1>1, <1>2 DEF Active, OthersStand, Ended, history
<1>4. TypeOK'
  BY <1>1, <1>2 DEF TypeOK, history, bounds, OwnedObjects, Owned, StartSteps, Unguarded
<1>5. TodoIsTail'
  BY <1>1, <1>2 DEF IInv, TodoIsTail, Guarded
<1>6. VolumeIsUsable'
  BY <1>1, <1>2 DEF IInv, VolumeIsUsable, BackendHasItsVolume, Guarded
<1>7. SurveyHolds' /\ CheckHolds'
  BY <1>1, <1>3, OthersHold DEF NoneArrives, Surveyed
<1>8. ASSUME alone[p] PROVE StopAlone(p)' /\ StartAlone(p)'
  <2>1. StartAlone(p)
    BY <1>8 DEF IInv, AloneHolds
  <2>2. StopAlone(p)'
    BY <1>3 DEF StopAlone
  <2>3. UNCHANGED <<OwnedObjects, Found(p)>> /\ \A o \in Objects : Present(o)' = Present(o)
    BY <1>1 DEF history, OwnedObjects, Owned, Found, Present
  <2>4. seen[p] \subseteq Objects /\ seen'[p] = seen[p] /\ made'[p] = made[p]
    BY <1>1 DEF TypeOK, history
  <2>5. StartAlone(p)'
    BY <1>2, <1>3, <2>1, <2>3, <2>4 DEF StartAlone, StartSteps, Unguarded, Guarded
  <2> QED  BY <2>2, <2>5
<1>9. AloneIsAlone' /\ AloneHolds'
  BY <1>1, <1>3, <1>8, AloneStep DEF history, Active
<1>10. Right
  BY <1>1, <1>3, QuietStep DEF ForeignKept
<1> QED  BY <1>1, <1>4, <1>5, <1>6, <1>7, <1>9, <1>10 DEF IInv

LEMMA CheckVolumeHolds == ASSUME IInv, NEW p \in Shells, CheckVolume(p) PROVE IInv' /\ Right
<1>1. TypeOK /\ pc[p] = "volume" /\ Active(p)
  BY DEF IInv, CheckVolume, Active, Ended
<1>2. CASE \E step \in {"createVolume", "statVolume"} : Moves(p, step)
  <2>1. PICK step \in {"createVolume", "statVolume"} : Moves(p, step)
    BY <1>2
  <2>2. Advances(p, step)
    BY <1>1, <2>1 DEF Advances, Edges
  <2> QED  BY <2>2, AdvancesHolds
<1>3. CASE Exits(p, "failed") /\ UNCHANGED faults
  <2>1. Leaves(p, "failed")
    BY <1>1, <1>3 DEF Leaves, TypeOK, Ended, Unguarded, StopSteps
  <2> QED  BY <2>1, LeavesInv, LeavesRight
<1> QED  BY <1>2, <1>3 DEF CheckVolume

LEMMA CreateVolumeHolds == ASSUME IInv, NEW p \in Shells, CreateVolume(p) PROVE IInv' /\ Right
<1>1. TypeOK /\ pc[p] = "createVolume" /\ Active(p)
  BY DEF IInv, CreateVolume, Active, Ended
<1>2. CASE VolumeStep(p, "createVolume", "initVolume", IF volume = "absent" THEN "fresh" ELSE volume)
  BY <1>2, VolumeStepHolds
<1>3. CASE Fault /\ Exits(p, "failed")
  <2>1. Leaves(p, "failed")
    BY <1>1, <1>3, FaultIn DEF Leaves, TypeOK, Ended, Unguarded, StopSteps
  <2> QED  BY <2>1, LeavesInv, LeavesRight
<1> QED  BY <1>2, <1>3 DEF CreateVolume, VolumeStep

LEMMA InitVolumeHolds == ASSUME IInv, NEW p \in Shells, InitVolume(p) PROVE IInv' /\ Right
<1>1. TypeOK /\ pc[p] = "initVolume" /\ Active(p)
  BY DEF IInv, InitVolume, Active, Ended
<1>2. CASE volume \in {"fresh", "empty"} /\ VolumeStep(p, "initVolume", "statVolume", "empty")
  BY <1>2, VolumeStepHolds
<1>3. CASE Exits(p, "failed") /\ (UNCHANGED faults \/ Fault)
  <2>1. Leaves(p, "failed")
    BY <1>1, <1>3, FaultIn DEF Leaves, TypeOK, Ended, Unguarded, StopSteps
  <2> QED  BY <2>1, LeavesInv, LeavesRight
<1> QED  BY <1>2, <1>3 DEF InitVolume, VolumeStep

LEMMA StatVolumeHolds == ASSUME IInv, NEW p \in Shells, StatVolume(p) PROVE IInv' /\ Right
<1>1. TypeOK /\ pc[p] = "statVolume" /\ Active(p)
  BY DEF IInv, StatVolume, Active, Ended
<1>2. CASE volume \in {"empty", "used"} /\ Moves(p, "runBackend")
  <2>1. Advances(p, "runBackend")
    BY <1>1, <1>2 DEF Advances, Edges
  <2> QED  BY <2>1, AdvancesHolds
<1>3. CASE Exits(p, "failed") /\ (UNCHANGED faults \/ Fault)
  <2>1. Leaves(p, "failed")
    BY <1>1, <1>3, FaultIn DEF Leaves, TypeOK, Ended, Unguarded, StopSteps
  <2> QED  BY <2>1, LeavesInv, LeavesRight
<1> QED  BY <1>2, <1>3 DEF StatVolume

\* docker run has made n and started it, and its flag is set.
Runs(p, n, next) ==
  /\ ~Present(n)
  /\ maker' = [maker EXCEPT ![n] = p]
  /\ running' = running \union {n}
  /\ volume' = IF "backend" \in running' /\ volume = "empty" THEN "used" ELSE volume
  /\ made' = [made EXCEPT ![p] = @ \union {n}]
  /\ Goto(p, next)
  /\ UNCHANGED <<ready, foreignListener, todo, history, bounds>>

\* docker run has made n, and no flag says so.
LeavesBehind(p, n) ==
  /\ ~Present(n)
  /\ maker' = [maker EXCEPT ![n] = p]
  /\ running' \in {running, running \union {n}}
  /\ volume' = IF "backend" \in running' /\ volume = "empty" THEN "used" ELSE volume
  /\ trouble' = [trouble EXCEPT ![p] = @ \union {"left"}]

\* What a container that p has made leaves of the rest.
LEMMA NewContainer ==
  ASSUME IInv, NEW p \in Shells, NEW n \in Containers, ~Present(n), pc[p] \in Guarded,
         maker' = [maker EXCEPT ![n] = p], running' \in {running, running \union {n}},
         volume' = IF "backend" \in running' /\ volume = "empty" THEN "used" ELSE volume
  PROVE  /\ maker' \in [Objects -> Shells \union {Nobody, Foreign, Earlier}]
         /\ OwnedObjects' = OwnedObjects \union {n}
         /\ running' \subseteq Containers /\ running' \subseteq OwnedObjects'
         /\ ForeignKept /\ NoneArrives
         /\ volume \in {"empty", "used"} /\ volume' \in {"empty", "used"} /\ BackendHasItsVolume'
         /\ \A o \in Objects : Present(o) => maker'[o] # Nobody
<1>1. TypeOK /\ n \in Objects /\ running \subseteq Containers
  BY DEF IInv, Objects
<1>2. \A o \in Objects : maker'[o] = IF o = n THEN p ELSE maker[o]
  BY <1>1 DEF TypeOK
<1>3. maker' \in [Objects -> Shells \union {Nobody, Foreign, Earlier}]
  BY <1>1 DEF TypeOK
<1>4. OwnedObjects' = OwnedObjects \union {n}
  BY <1>1, <1>2, Makers DEF OwnedObjects, Owned
<1>5. running' \subseteq Containers /\ running' \subseteq OwnedObjects'
  BY <1>1, <1>4 DEF TypeOK
<1>6. maker[n] = Nobody
  BY DEF Present
<1>7. ForeignKept /\ NoneArrives
  BY <1>2, <1>6, Makers DEF ForeignKept, NoneArrives
<1>8. volume \in {"empty", "used"} /\ volume' \in {"empty", "used"} /\ BackendHasItsVolume'
  BY DEF IInv, VolumeIsUsable, BackendHasItsVolume
<1> QED  BY <1>2, <1>3, <1>4, <1>5, <1>7, <1>8, Makers DEF Present

LEMMA RunsHolds ==
  ASSUME IInv, NEW p \in Shells, NEW n \in Containers, NEW next \in Guarded,
         pc[p] \in Guarded, Runs(p, n, next)
  PROVE  IInv' /\ Right
<1>1. /\ TypeOK /\ pc' = [pc EXCEPT ![p] = next] /\ ~Present(n)
      /\ made' = [made EXCEPT ![p] = made[p] \union {n}]
      /\ UNCHANGED <<ready, foreignListener, todo, history, bounds>>
  BY DEF IInv, Runs, Goto
<1>2. /\ maker' \in [Objects -> Shells \union {Nobody, Foreign, Earlier}]
      /\ OwnedObjects' = OwnedObjects \union {n}
      /\ running' \subseteq Containers /\ running' \subseteq OwnedObjects'
      /\ ForeignKept /\ NoneArrives
      /\ volume \in {"empty", "used"} /\ volume' \in {"empty", "used"} /\ BackendHasItsVolume'
      /\ \A o \in Objects : Present(o) => maker'[o] # Nobody
  BY NewContainer DEF Runs
<1>3. pc \in [Shells -> Ended \union StartSteps \union StopSteps] /\ made \in [Shells -> SUBSET Containers]
  BY <1>1 DEF TypeOK
<1>4. Active(p) /\ OthersStand(p) /\ pc'[p] = next /\ next \notin Ended
  BY <1>1, <1>3 DEF Active, OthersStand, Ended, Guarded, history
<1>5. TypeOK'
  <2>1. pc' \in [Shells -> Ended \union StartSteps \union StopSteps]
    BY <1>1, <1>3 DEF StartSteps
  <2>2. made' \in [Shells -> SUBSET Containers]
    BY <1>1, <1>3
  <2>3. ready' \subseteq running'
    BY <1>1 DEF TypeOK, Runs
  <2> QED  BY <1>1, <1>2, <2>1, <2>2, <2>3 DEF TypeOK, history, bounds
<1>6. TodoIsTail'
  BY <1>1, <1>3, <1>4 DEF IInv, TodoIsTail, Guarded, OthersStand
<1>7. VolumeIsUsable'
  BY <1>2 DEF VolumeIsUsable
<1>8. SurveyHolds' /\ CheckHolds'
  BY <1>2, <1>4, OthersHold DEF Surveyed, Guarded
<1>9. ASSUME alone[p] PROVE StopAlone(p)' /\ StartAlone(p)'
  <2>1. StartAlone(p)
    BY <1>9 DEF IInv, AloneHolds
  <2>2. StopAlone(p)'
    BY <1>4 DEF StopAlone, Guarded
  <2>3. Found(p)' = Found(p) /\ seen'[p] = seen[p] /\ made'[p] = made[p] \union {n}
    BY <1>1, <1>3 DEF history, Found
  <2>4. seen[p] \subseteq Objects
    BY <1>1 DEF TypeOK
  <2>5. /\ \A o \in seen[p] : Present(o)
        /\ made[p] \intersect seen[p] = {} /\ "socket" \notin seen[p]
        /\ OwnedObjects \subseteq Found(p) \union made[p] \union {"socket"}
    BY <2>1 DEF StartAlone, StartSteps, Guarded
  <2>6. \A o \in seen[p] : Present(o)'
    BY <1>2, <2>4, <2>5 DEF Present
  <2>7. StartAlone(p)'
    BY <1>1, <1>2, <1>4, <2>3, <2>5, <2>6 DEF StartAlone, Unguarded, Guarded
  <2> QED  BY <2>2, <2>7
<1>10. AloneIsAlone' /\ AloneHolds'
  BY <1>1, <1>4, <1>9, AloneStep DEF history, Active
<1>11. Right
  BY <1>2, <1>4, QuietStep
<1> QED  BY <1>2, <1>5, <1>6, <1>7, <1>8, <1>10, <1>11 DEF IInv

LEMMA LeavesBehindHolds ==
  ASSUME IInv, NEW p \in Shells, NEW n \in Containers, LeavesBehind(p, n), Trapped(p)
  PROVE  IInv' /\ Right
<1>1. /\ maker' \in [Objects -> Shells \union {Nobody, Foreign, Earlier}]
      /\ OwnedObjects' = OwnedObjects \union {n}
      /\ running' \subseteq Containers /\ running' \subseteq OwnedObjects'
      /\ ForeignKept /\ NoneArrives
      /\ volume \in {"empty", "used"} /\ volume' \in {"empty", "used"} /\ BackendHasItsVolume'
      /\ \A o \in Objects : Present(o) => maker'[o] # Nobody
  BY NewContainer DEF LeavesBehind, Trapped
<1>2. trouble' \in [Shells -> SUBSET {"left", "stuck"}] /\ trouble'[p] # {}
  BY DEF LeavesBehind, IInv, TypeOK
<1>3. running \subseteq running'
  BY DEF LeavesBehind
<1> QED  BY <1>1, <1>2, <1>3, TrappedHolds

LEMMA RunContainerHolds ==
  ASSUME IInv, NEW p \in Shells, NEW n \in Containers, NEW step \in Guarded, NEW next \in Guarded,
         RunContainer(p, n, step, next)
  PROVE  IInv' /\ Right
<1>1. TypeOK /\ pc[p] \in Guarded
  BY DEF IInv, RunContainer
<1>2. faults' = faults => faults' \in 0..MaxFaults
  BY <1>1 DEF TypeOK
<1>3. CASE Fails(p)
  <2>1. Aborts(p)
    BY <1>1, <1>2, <1>3 DEF Fails, Aborts, bounds
  <2> QED  BY <2>1, AbortsHolds
<1>4. CASE Runs(p, n, next)
  BY <1>1, <1>4, RunsHolds
<1>5. CASE LeavesBehind(p, n) /\ (UNCHANGED faults \/ Fault) /\ EntersCleanup(p)
           /\ UNCHANGED <<ready, foreignListener, made, alone, seen, starts>>
  <2>1. Trapped(p)
    BY <1>1, <1>2, <1>5, FaultIn DEF Trapped
  <2> QED  BY <1>5, <2>1, LeavesBehindHolds
<1>6. CASE Fault /\ EntersCleanup(p) /\ UNCHANGED <<world, made, history, starts>>
  <2>1. Aborts(p)
    BY <1>1, <1>6, FaultIn DEF Aborts
  <2> QED  BY <2>1, AbortsHolds
<1> QED  BY <1>3, <1>4, <1>5, <1>6 DEF RunContainer, Runs, LeavesBehind

LEMMA WaitForHolds ==
  ASSUME IInv, NEW p \in Shells, NEW n, NEW step, NEW next, WaitFor(p, n, step, next),
         <<step, next>> \in {<<"waitBackend", "runBridge">>, <<"waitBridge", "runIngress">>,
                             <<"waitIngress", "assert">>}
  PROVE  IInv' /\ Right
<1>1. TypeOK /\ pc[p] = step /\ pc[p] \in Guarded
  BY DEF IInv, WaitFor, Guarded
<1>2. CASE Moves(p, next)
  <2>1. Advances(p, next)
    BY <1>1, <1>2 DEF Advances, Edges
  <2> QED  BY <2>1, AdvancesHolds
<1>3. CASE Fails(p)
  <2>1. Aborts(p)
    BY <1>1, <1>3 DEF Fails, Aborts, bounds, TypeOK
  <2> QED  BY <2>1, AbortsHolds
<1> QED  BY <1>2, <1>3 DEF WaitFor

LEMMA AssertHolds == ASSUME IInv, NEW p \in Shells, AssertProfile(p) PROVE IInv' /\ Right
<1>1. TypeOK /\ pc[p] = "assert" /\ pc[p] \in Guarded /\ Active(p)
  BY DEF IInv, AssertProfile, Guarded, Active, Ended
<1>2. CASE Exits(p, "healthy") /\ UNCHANGED faults
  <2>1. Leaves(p, "healthy")
    BY <1>1, <1>2 DEF Leaves, TypeOK, Ended, StopSteps
  <2> QED  BY <2>1, LeavesInv, LeavesRight
<1>3. CASE Fails(p)
  <2>1. Aborts(p)
    BY <1>1, <1>3 DEF Fails, Aborts, bounds, TypeOK
  <2> QED  BY <2>1, AbortsHolds
<1> QED  BY <1>2, <1>3 DEF AssertProfile

LEMMA CheckMadeHolds == ASSUME IInv, NEW p \in Shells, CheckMade(p) PROVE IInv' /\ Right
<1> DEFINE n == Head(todo[p])
<1>1. /\ TypeOK /\ pc[p] = "cleaning" /\ todo[p] \in RemovalTails
      /\ UNCHANGED <<world, made, history, bounds>>
  BY DEF IInv, TodoIsTail, CheckMade
<1> DEFINE Takes == /\ n \in made[p] /\ maker[n] # Foreign
                    /\ pc' = [pc EXCEPT ![p] = "cleanMade"] /\ todo' = todo
           Skips == /\ ~(n \in made[p] /\ maker[n] # Foreign)
                    /\ pc' = pc /\ todo' = [todo EXCEPT ![p] = Tail(todo[p])]
<1>2. Takes \/ Skips
  BY DEF CheckMade, Goto, Drops
<1>3. n \in Containers /\ Tail(todo[p]) \in Seq(Containers) /\ Tail(todo[p]) \in RemovalTails \union {<<>>}
      /\ Elements(Tail(todo[p])) = Elements(todo[p]) \ {n}
  BY <1>1, RemovalTail
<1> HIDE DEF n
<1>4. pc \in [Shells -> Ended \union StartSteps \union StopSteps] /\ todo \in [Shells -> Seq(Containers)]
  BY <1>1 DEF TypeOK
<1>5. /\ Takes => pc'[p] = "cleanMade" /\ todo'[p] = todo[p]
      /\ Skips => pc'[p] = "cleaning" /\ todo'[p] = Tail(todo[p])
  BY <1>1, <1>4
<1>6. Active(p) /\ OthersStand(p) /\ pc'[p] \notin Ended
  BY <1>1, <1>2, <1>4, <1>5 DEF Active, OthersStand, Ended, history
<1>7. OwnedObjects' = OwnedObjects /\ \A o \in Objects : Present(o)' = Present(o)
  BY <1>1 DEF world, OwnedObjects, Owned, Present
<1>8. TypeOK'
  <2>1. pc' \in [Shells -> Ended \union StartSteps \union StopSteps]
    BY <1>2, <1>4 DEF StartSteps
  <2>2. todo' \in [Shells -> Seq(Containers)]
    BY <1>2, <1>3, <1>4
  <2> QED  BY <1>1, <1>7, <2>1, <2>2 DEF TypeOK, world, history, bounds
<1>9. TodoIsTail'
  <2> SUFFICES ASSUME NEW q \in Shells
               PROVE  /\ pc'[q] = "stopping" => todo'[q] \in StopTails
                      /\ pc'[q] = "removing" => todo'[q] \in RemovalTails
                      /\ pc'[q] = "cleaning" => todo'[q] \in RemovalTails \union {<<>>}
                      /\ pc'[q] = "cleanMade" => todo'[q] \in RemovalTails
                      /\ pc'[q] \notin Guarded \union {"cleaning", "cleanMade"} => made'[q] = {}
    BY DEF TodoIsTail
  <2>1. CASE q = p
    BY <1>1, <1>2, <1>3, <1>5, <2>1
  <2>2. CASE q # p
    BY <1>6, <2>2 DEF OthersStand, IInv, TodoIsTail
  <2> QED  BY <2>1, <2>2
<1>10. VolumeIsUsable'
  BY <1>1, <1>2, <1>5, <1>6 DEF IInv, VolumeIsUsable, BackendHasItsVolume, OthersStand, Guarded, world
<1>11. SurveyHolds' /\ CheckHolds'
  <2>1. NoneArrives
    BY <1>1 DEF NoneArrives, world
  <2>2. pc'[p] = "cleanMade" => Head(todo'[p]) \in made'[p] /\ maker'[Head(todo'[p])] # Foreign
    BY <1>1, <1>2, <1>5 DEF n, world
  <2>3. pc'[p] \notin Surveyed
    BY <1>2, <1>5 DEF Surveyed
  <2> QED  BY <1>6, <2>1, <2>2, <2>3, OthersHold
<1>12. ASSUME alone[p] PROVE StopAlone(p)' /\ StartAlone(p)'
  <2>1. /\ StartAlone(p) /\ made'[p] = made[p] /\ Found(p)' = Found(p)
        /\ seen'[p] = seen[p] /\ trouble'[p] = trouble[p] /\ seen[p] \subseteq Objects
    BY <1>1, <1>12 DEF IInv, AloneHolds, Found, history, TypeOK
  <2>2. StopAlone(p)'
    BY <1>2, <1>5 DEF StopAlone
  <2>3. /\ \A o \in seen[p] : Present(o)
        /\ made[p] \intersect seen[p] = {} /\ "socket" \notin seen[p]
        /\ trouble[p] = {} => OwnedObjects \subseteq
              Found(p) \union (made[p] \intersect Elements(todo[p])) \union {"socket"}
    BY <1>1, <2>1 DEF StartAlone, StartSteps
  <2>4. Skips => n \notin made[p] \intersect OwnedObjects
    BY DEF OwnedObjects, Owned
  <2>5. trouble[p] = {} => OwnedObjects' \subseteq
              Found(p) \union (made[p] \intersect Elements(todo'[p])) \union {"socket"}
    BY <1>2, <1>3, <1>5, <1>7, <2>3, <2>4
  <2> QED
    BY <1>2, <1>5, <1>7, <2>1, <2>2, <2>3, <2>5 DEF StartAlone, Guarded, Unguarded
<1>13. AloneIsAlone' /\ AloneHolds'
  BY <1>1, <1>6, <1>12, AloneStep DEF Active, history
<1>14. Right
  BY <1>1, <1>6, QuietStep DEF ForeignKept, world
<1> QED  BY <1>1, <1>8, <1>9, <1>10, <1>11, <1>13, <1>14 DEF IInv, world

\* The container is removed, or it is left and counted; the cleanup goes on.
LEMMA CleansOn ==
  ASSUME IInv, NEW p \in Shells, NEW n, n = Head(todo[p]),
         pc[p] = "cleanMade", Goto(p, "cleaning"), todo' = [todo EXCEPT ![p] = Tail(todo[p])],
         UNCHANGED <<volume, foreignListener, made, alone, seen, starts>>, faults' \in 0..MaxFaults,
         \/ /\ maker' = Without(n) /\ trouble' = trouble
            /\ running' = running \ {n} /\ ready' = ready \ {n}
         \/ /\ maker' = maker /\ trouble' = [trouble EXCEPT ![p] = @ \union {"stuck"}]
            /\ \E stopped \in SUBSET {n} :
                  running' = running \ stopped /\ ready' = ready \ stopped
  PROVE  IInv' /\ Right
<1>1. TypeOK /\ todo[p] \in RemovalTails /\ n \in made[p] /\ maker[n] # Foreign
  BY DEF IInv, TodoIsTail, CheckHolds
<1>2. n \in Containers /\ n \in Objects
  BY <1>1, RemovalTail DEF Objects
<1> DEFINE Removes == /\ maker' = Without(n) /\ trouble' = trouble
                      /\ running' = running \ {n} /\ ready' = ready \ {n}
           Sticks == /\ maker' = maker /\ trouble' = [trouble EXCEPT ![p] = @ \union {"stuck"}]
                     /\ \E stopped \in SUBSET {n} :
                           running' = running \ stopped /\ ready' = ready \ stopped
<1>3. Removes \/ Sticks
  OBVIOUS
<1>4. Tail(todo[p]) \in Seq(Containers) /\ Tail(todo[p]) \in RemovalTails \union {<<>>}
      /\ Elements(Tail(todo[p])) = Elements(todo[p]) \ {n} /\ todo'[p] = Tail(todo[p])
  BY <1>1, RemovalTail DEF TypeOK
<1>5. \A o \in Objects : /\ Removes => maker'[o] = IF o = n THEN Nobody ELSE maker[o]
                         /\ Sticks => maker'[o] = maker[o]
  BY <1>1, <1>2 DEF Without, TypeOK
<1>6. /\ Removes => OwnedObjects' = OwnedObjects \ {n}
      /\ Sticks => OwnedObjects' = OwnedObjects
  BY <1>5 DEF OwnedObjects, Owned
<1>7. ForeignKept /\ NoneArrives
  BY <1>1, <1>3, <1>5, Makers DEF ForeignKept, NoneArrives
<1>8. running' \subseteq running /\ running' \subseteq OwnedObjects' /\ ready' \subseteq running'
  BY <1>1, <1>3, <1>6 DEF TypeOK
<1>9. pc' = [pc EXCEPT ![p] = "cleaning"] /\ pc \in [Shells -> Ended \union StartSteps \union StopSteps]
  BY <1>1 DEF TypeOK, Goto
<1>10. Active(p) /\ OthersStand(p) /\ pc'[p] = "cleaning"
  BY <1>1, <1>9 DEF Active, OthersStand, Ended, TypeOK
<1>11. TypeOK'
  <2>1. todo' \in [Shells -> Seq(Containers)] /\ pc' \in [Shells -> Ended \union StartSteps \union StopSteps]
    BY <1>1, <1>4, <1>9 DEF TypeOK, StartSteps
  <2>2. maker' \in [Objects -> Shells \union {Nobody, Foreign, Earlier}]
    BY <1>1, <1>3 DEF TypeOK, Without
  <2>3. trouble' \in [Shells -> SUBSET {"left", "stuck"}]
    <3>1. CASE Removes
      BY <1>1, <3>1 DEF TypeOK
    <3>2. CASE Sticks
      <4>1. trouble[p] \union {"stuck"} \in SUBSET {"left", "stuck"}
        BY <1>1 DEF TypeOK
      <4> QED  BY <1>1, <3>2, <4>1 DEF TypeOK
    <3> QED  BY <1>3, <3>1, <3>2
  <2> QED  BY <1>1, <1>8, <2>1, <2>2, <2>3 DEF TypeOK
<1>12. TodoIsTail'
  <2> SUFFICES ASSUME NEW q \in Shells
               PROVE  /\ pc'[q] = "stopping" => todo'[q] \in StopTails
                      /\ pc'[q] = "removing" => todo'[q] \in RemovalTails
                      /\ pc'[q] = "cleaning" => todo'[q] \in RemovalTails \union {<<>>}
                      /\ pc'[q] = "cleanMade" => todo'[q] \in RemovalTails
                      /\ pc'[q] \notin Guarded \union {"cleaning", "cleanMade"} => made'[q] = {}
    BY DEF TodoIsTail
  <2>1. CASE q = p
    BY <1>4, <1>10, <2>1
  <2>2. CASE q # p
    BY <1>10, <2>2 DEF OthersStand, IInv, TodoIsTail
  <2> QED  BY <2>1, <2>2
<1>13. VolumeIsUsable' /\ SurveyHolds' /\ CheckHolds'
  <2>1. VolumeIsUsable'
    BY <1>8, <1>10 DEF IInv, VolumeIsUsable, BackendHasItsVolume, OthersStand, Guarded
  <2> QED  BY <1>7, <1>10, <2>1, OthersHold DEF Surveyed
<1>14. ASSUME alone[p] PROVE StopAlone(p)' /\ StartAlone(p)'
  <2>1. StartAlone(p) /\ made'[p] = made[p] /\ Found(p)' = Found(p) /\ seen'[p] = seen[p]
    BY <1>1, <1>14 DEF IInv, AloneHolds, Found
  <2>2. StopAlone(p)'
    BY <1>10 DEF StopAlone
  <2>3. made[p] \subseteq Containers /\ seen[p] \subseteq Objects
    BY <1>1 DEF TypeOK
  <2>4. /\ \A o \in seen[p] : Present(o)
        /\ made[p] \intersect seen[p] = {} /\ "socket" \notin seen[p]
        /\ trouble[p] = {} => OwnedObjects \subseteq
              Found(p) \union (made[p] \intersect Elements(todo[p])) \union {"socket"}
    BY <2>1 DEF StartAlone, StartSteps
  <2>5. \A o \in seen[p] : Present(o)'
    BY <1>1, <1>3, <1>5, <2>3, <2>4 DEF Present
  <2>6. trouble'[p] = {} => OwnedObjects' \subseteq
              Found(p) \union (made[p] \intersect Elements(todo'[p])) \union {"socket"}
    <3>1. CASE Removes
      BY <1>4, <1>6, <2>4, <3>1
    <3>2. CASE Sticks
      BY <1>1, <3>2 DEF TypeOK
    <3> QED  BY <1>3, <3>1, <3>2
  <2> QED  BY <1>10, <2>1, <2>2, <2>4, <2>5, <2>6 DEF StartAlone, Guarded, Unguarded
<1>15. AloneIsAlone' /\ AloneHolds'
  BY <1>10, <1>14, AloneStep DEF Active, Ended
<1>16. Right
  BY <1>7, <1>10, QuietStep DEF Ended
<1> QED  BY <1>8, <1>11, <1>12, <1>13, <1>15, <1>16 DEF IInv

LEMMA CleanContainerHolds == ASSUME IInv, NEW p \in Shells, CleanContainer(p) PROVE IInv' /\ Right
<1>1. TypeOK /\ pc[p] = "cleanMade" /\ Active(p)
  BY DEF IInv, CleanContainer, Active, Ended
<1>2. faults' = faults => faults' \in 0..MaxFaults
  BY <1>1 DEF TypeOK
<1> DEFINE Ended1 == Exits(p, "failed") /\ (Fault \/ UNCHANGED faults)
           Removes1 == /\ maker' = Without(Head(todo[p])) /\ trouble' = trouble
                       /\ running' = running \ {Head(todo[p])} /\ ready' = ready \ {Head(todo[p])}
           Sticks1 == /\ maker' = maker /\ trouble' = [trouble EXCEPT ![p] = @ \union {"stuck"}]
                      /\ \E stopped \in SUBSET {Head(todo[p])} :
                            running' = running \ stopped /\ ready' = ready \ stopped
           GoesOn == /\ Goto(p, "cleaning") /\ todo' = [todo EXCEPT ![p] = Tail(todo[p])]
                     /\ UNCHANGED <<volume, foreignListener, made, alone, seen, starts>>
                     /\ Fault \/ UNCHANGED faults
                     /\ Removes1 \/ Sticks1
<1>3. Ended1 \/ GoesOn
  BY Zenon DEF CleanContainer, Drops, history, bounds
<1>4. CASE Ended1
  <2>1. Leaves(p, "failed")
    BY <1>1, <1>2, <1>4, FaultIn DEF Leaves, Ended, StopSteps
  <2> QED  BY <2>1, LeavesInv, LeavesRight
<1>5. CASE GoesOn
  <2>1. faults' \in 0..MaxFaults
    BY <1>1, <1>2, <1>5, FaultIn
  <2>2. \A n : n = Head(todo[p]) => IInv' /\ Right
    <3> SUFFICES ASSUME NEW n, n = Head(todo[p]) PROVE IInv' /\ Right
      OBVIOUS
    <3>1. \/ /\ maker' = Without(n) /\ trouble' = trouble
             /\ running' = running \ {n} /\ ready' = ready \ {n}
          \/ /\ maker' = maker /\ trouble' = [trouble EXCEPT ![p] = @ \union {"stuck"}]
             /\ \E stopped \in SUBSET {n} :
                   running' = running \ stopped /\ ready' = ready \ stopped
      BY <1>5
    <3> QED  BY <1>1, <1>5, <2>1, <3>1, CleansOn
  <2> QED  BY <2>2
<1> QED  BY <1>3, <1>4, <1>5

\* A command that ends and takes the socket, if it is ours.
EndsWithSocket(p, how) ==
  /\ End(p, how, IF Owned("socket") THEN Without("socket") ELSE maker)
  /\ UNCHANGED <<running, ready, volume, foreignListener, bounds>>

LEMMA EndsWithSocketHolds ==
  ASSUME IInv, NEW p \in Shells, Active(p), NEW how \in Ended, EndsWithSocket(p, how)
  PROVE  /\ IInv' /\ OthersStand(p) /\ ForeignKept /\ pc'[p] = how
         /\ OwnedObjects' = OwnedObjects \ {"socket"}
         /\ \A o \in Objects \ {"socket"} : maker'[o] = Nobody <=> maker[o] = Nobody
<1> DEFINE objects == IF Owned("socket") THEN Without("socket") ELSE maker
<1>1. TypeOK /\ End(p, how, objects) /\ UNCHANGED <<running, ready, volume, foreignListener, bounds>>
  BY DEF IInv, EndsWithSocket
<1>2. objects \in [Objects -> Shells \union {Nobody, Foreign, Earlier}]
      /\ \A o \in Objects : objects[o] = IF o = "socket" /\ Owned("socket") THEN Nobody ELSE maker[o]
  BY <1>1 DEF TypeOK, Without, Objects
<1> HIDE DEF objects
<1>3. maker' \in [Objects -> Shells \union {Nobody, Foreign, Earlier}]
      /\ \A o \in Objects : maker'[o] = IF objects[o] = p THEN Earlier ELSE objects[o]
  BY <1>1, <1>2 DEF End
<1>4. OwnedObjects' = OwnedObjects \ {"socket"}
  BY <1>2, <1>3, Makers DEF OwnedObjects, Owned
<1>5. ForeignKept /\ NoneArrives
  BY <1>2, <1>3, Makers DEF ForeignKept, NoneArrives, Owned, Objects
<1>6. \A o \in Objects \ {"socket"} : maker'[o] = Nobody <=> maker[o] = Nobody
  BY <1>2, <1>3, Makers
<1>7. OthersStand(p) /\ pc'[p] = how /\ made'[p] = {} /\ ~alone'[p]
  BY <1>1, EndStands
<1>8. TypeOK'
  <2>1. running \subseteq OwnedObjects' /\ ready \subseteq running
    BY <1>1, <1>4 DEF IInv, TypeOK, Containers
  <2>2. /\ pc' \in [Shells -> Ended \union StartSteps \union StopSteps]
        /\ todo' \in [Shells -> Seq(Containers)]
        /\ made' \in [Shells -> SUBSET Containers]
        /\ alone' \in [Shells -> BOOLEAN] /\ seen' \in [Shells -> SUBSET Objects]
        /\ trouble' \in [Shells -> SUBSET {"left", "stuck"}]
    BY <1>1, Orders DEF TypeOK, End, Goto
  <2> QED  BY <1>1, <1>3, <2>1, <2>2 DEF TypeOK, bounds
<1>9. TodoIsTail'
  BY <1>7 DEF IInv, TodoIsTail, OthersStand, Ended, Guarded
<1>10. VolumeIsUsable'
  BY <1>1, <1>7 DEF IInv, VolumeIsUsable, BackendHasItsVolume, OthersStand, Ended, Guarded
<1>11. SurveyHolds' /\ CheckHolds'
  BY <1>5, <1>7, OthersHold DEF Ended, Surveyed
<1>12. AloneIsAlone' /\ AloneHolds'
  BY <1>7, AloneStep
<1> QED  BY <1>1, <1>4, <1>5, <1>6, <1>7, <1>8, <1>9, <1>10, <1>11, <1>12 DEF IInv

LEMMA CleanSocketHolds == ASSUME IInv, NEW p \in Shells, CleanSocket(p) PROVE IInv' /\ Right
<1>1. /\ TypeOK /\ pc[p] = "cleaning" /\ todo[p] = <<>> /\ Active(p)
      /\ EndsWithSocket(p, "failed")
  BY DEF IInv, CleanSocket, EndsWithSocket, Active, Ended
<1>2. /\ IInv' /\ OthersStand(p) /\ ForeignKept /\ pc'[p] = "failed"
      /\ OwnedObjects' = OwnedObjects \ {"socket"}
      /\ \A o \in Objects \ {"socket"} : maker'[o] = Nobody <=> maker[o] = Nobody
  BY <1>1, EndsWithSocketHolds DEF Ended
<1>3. KeepsToItsOwn(p)
  <2> SUFFICES ASSUME alone[p]
               PROVE  /\ \A o \in seen[p] : maker'[o] # Nobody
                      /\ trouble[p] = {} => OwnedObjects' \subseteq Found(p)
    BY DEF KeepsToItsOwn
  <2>1. StartAlone(p) /\ seen[p] \subseteq Objects
    BY <1>1 DEF IInv, AloneHolds, TypeOK
  <2>2. \A o \in seen[p] : Present(o) /\ o # "socket"
    BY <1>1, <2>1 DEF StartAlone, StartSteps
  <2>3. trouble[p] = {} => OwnedObjects \subseteq Found(p) \union {"socket"}
    BY <1>1, <2>1, Orders DEF StartAlone
  <2> QED  BY <1>2, <2>1, <2>2, <2>3 DEF Present
<1>4. Clears(p) /\ pc[p] \notin StopSteps
  BY <1>1 DEF Clears, StopSteps
<1> QED  BY <1>1, <1>2, <1>3, <1>4, LastStep

-----------------------------------------------------------------------------
(* The steps of a stop.                                                    *)

\* A step of a stop on which it goes on: it takes containers down and removes
\* what is there, and of the others nothing changes.
StopGoesOn(p) ==
  /\ Active(p) /\ OthersStand(p) /\ pc'[p] \in Surveyed /\ NothingForeign
  /\ \A o \in Objects : maker'[o] \in {maker[o], Nobody}
  /\ running' \subseteq running /\ running' \subseteq OwnedObjects' /\ ready' \subseteq running'
  /\ UNCHANGED <<volume, foreignListener, made, history, bounds>>

LEMMA StopGoesOnHolds ==
  ASSUME IInv, NEW p \in Shells, pc[p] \in StopSteps, StopGoesOn(p),
         maker' \in [Objects -> Shells \union {Nobody, Foreign, Earlier}],
         pc' \in [Shells -> Ended \union StartSteps \union StopSteps],
         todo' \in [Shells -> Seq(Containers)],
         pc'[p] = "stopping" => todo'[p] \in StopTails,
         pc'[p] = "removing" => todo'[p] \in RemovalTails,
         alone[p] => StopAlone(p)'
  PROVE  IInv' /\ Right
<1>1. TypeOK
  BY DEF IInv
<1>2. TypeOK'
  BY <1>1 DEF TypeOK, StopGoesOn, history, bounds
<1>3. TodoIsTail'
  <2> SUFFICES ASSUME NEW q \in Shells
               PROVE  /\ pc'[q] = "stopping" => todo'[q] \in StopTails
                      /\ pc'[q] = "removing" => todo'[q] \in RemovalTails
                      /\ pc'[q] = "cleaning" => todo'[q] \in RemovalTails \union {<<>>}
                      /\ pc'[q] = "cleanMade" => todo'[q] \in RemovalTails
                      /\ pc'[q] \notin Guarded \union {"cleaning", "cleanMade"} => made'[q] = {}
    BY DEF TodoIsTail
  <2>1. CASE q = p
    BY <2>1 DEF IInv, TodoIsTail, StopGoesOn, Surveyed, StopSteps, Guarded
  <2>2. CASE q # p
    BY <2>2 DEF IInv, TodoIsTail, StopGoesOn, OthersStand
  <2> QED  BY <2>1, <2>2
<1>4. VolumeIsUsable'
  BY DEF IInv, VolumeIsUsable, BackendHasItsVolume, StopGoesOn, OthersStand, Surveyed, Guarded
<1>5. NothingForeign' /\ ForeignKept /\ NoneArrives
  BY Makers DEF StopGoesOn, NothingForeign, ForeignKept, NoneArrives
<1>6. SurveyHolds' /\ CheckHolds'
  BY <1>5, OthersHold DEF StopGoesOn, Surveyed
<1>7. pc'[p] \notin Ended /\ StartAlone(p)'
  BY DEF StopGoesOn, Surveyed, Ended, StartAlone, StartSteps, Guarded, Unguarded
<1>8. AloneIsAlone' /\ AloneHolds'
  BY <1>7, AloneStep DEF StopGoesOn, Active, history
<1>9. Right
  BY <1>5, <1>7, QuietStep DEF StopGoesOn
<1> QED  BY <1>2, <1>3, <1>4, <1>6, <1>8, <1>9 DEF IInv, StopGoesOn

LEMMA SurveyHoldsInv == ASSUME IInv, NEW p \in Shells, Survey(p) PROVE IInv' /\ Right
<1>1. TypeOK /\ pc[p] = "survey" /\ Active(p) /\ pc[p] \in StopSteps
  BY DEF IInv, Survey, Active, Ended, StopSteps
<1>2. CASE ~Recognised /\ Exits(p, "failed") /\ UNCHANGED faults
  <2>1. Leaves(p, "failed")
    BY <1>1, <1>2 DEF Leaves, TypeOK, Ended, StopSteps, Reason
  <2> QED  BY <2>1, LeavesInv, LeavesRight
<1>3. ASSUME Recognised, \A n \in Containers : ~Present(n),
             IF maker["socket"] = Foreign THEN End(p, "failed", maker)
                                          ELSE End(p, "stopped", Without("socket")),
             UNCHANGED <<running, ready, volume, foreignListener, bounds>>
      PROVE  IInv' /\ Right
  <2>1. NothingForeign /\ maker["socket"] # Foreign
    BY <1>3 DEF Recognised, NothingForeign, Objects
  <2>2. Without("socket") = IF Owned("socket") THEN Without("socket") ELSE maker
    BY <1>1, <2>1 DEF Owned, Without, TypeOK, Objects
  <2>3. EndsWithSocket(p, "stopped")
    BY <1>3, <2>1, <2>2 DEF EndsWithSocket
  <2>4. /\ IInv' /\ OthersStand(p) /\ ForeignKept /\ pc'[p] = "stopped"
        /\ OwnedObjects' = OwnedObjects \ {"socket"}
    BY <1>1, <2>3, EndsWithSocketHolds DEF Ended
  <2>5. OwnedObjects \subseteq {"socket"}
    BY <1>3 DEF OwnedObjects, Owned, Present, Objects
  <2>6. KeepsToItsOwn(p) /\ Clears(p)
    BY <1>1, <2>4, <2>5 DEF KeepsToItsOwn, Clears, StartSteps, Unguarded, Guarded
  <2> QED  BY <1>1, <2>1, <2>4, <2>6, LastStep DEF NothingForeign
<1>4. ASSUME Recognised, Goto(p, "stopping"), todo' = [todo EXCEPT ![p] = StopOrder],
             UNCHANGED <<world, made, history, bounds>>
      PROVE  IInv' /\ Right
  <2>1. /\ pc' \in [Shells -> Ended \union StartSteps \union StopSteps] /\ pc'[p] = "stopping"
        /\ todo' \in [Shells -> Seq(Containers)] /\ todo'[p] = StopOrder
    BY <1>1, <1>4, Orders DEF TypeOK, Goto, StopSteps
  <2>2. OthersStand(p)
    BY <1>1, <1>4 DEF OthersStand, TypeOK, Goto, history
  <2>3. StopGoesOn(p)
    BY <1>1, <1>4, <2>1, <2>2
    DEF StopGoesOn, Surveyed, Recognised, NothingForeign, world, TypeOK, OwnedObjects, Owned
  <2>4. running' \subseteq Containers
    BY <1>4 DEF IInv, world
  <2>5. StopAlone(p)'
    BY <2>1, <2>4, Orders DEF StopAlone
  <2> QED  BY <1>1, <1>4, <2>1, <2>3, <2>5, Orders, StopGoesOnHolds DEF world, TypeOK
<1> QED  BY <1>2, <1>3, <1>4 DEF Survey

LEMMA StopContainerHolds == ASSUME IInv, NEW p \in Shells, StopContainer(p) PROVE IInv' /\ Right
<1> DEFINE n == Head(todo[p])
<1>1. TypeOK /\ pc[p] = "stopping" /\ Active(p) /\ pc[p] \in StopSteps /\ todo[p] \in StopTails
  BY DEF IInv, StopContainer, Active, Ended, StopSteps, TodoIsTail
<1>2. NothingForeign
  BY <1>1 DEF IInv, SurveyHolds, Surveyed
<1>3. CASE Fault /\ Exits(p, "failed")
  <2>1. Leaves(p, "failed")
    BY <1>1, <1>3, FaultIn DEF Leaves, TypeOK, Ended, StopSteps, Fault
  <2> QED  BY <2>1, LeavesInv, LeavesRight
<1>4. ASSUME running' = running \ {n}, ready' = ready \ {n},
             IF Len(todo[p]) > 1
                 THEN pc' = pc /\ todo' = [todo EXCEPT ![p] = Tail(@)]
                 ELSE /\ Goto(p, "removing")
                      /\ todo' = [todo EXCEPT ![p] = RemovalOrder],
             UNCHANGED <<maker, volume, foreignListener, made, history, bounds>>
      PROVE  IInv' /\ Right
  <2>1. /\ n \in Containers /\ Tail(todo[p]) \in Seq(Containers)
        /\ Elements(Tail(todo[p])) = Elements(todo[p]) \ {n}
        /\ Len(todo[p]) > 1 => Tail(todo[p]) \in StopTails
        /\ ~(Len(todo[p]) > 1) => Elements(todo[p]) = {n}
    BY <1>1, StopTail
  <2> HIDE DEF n
  <2>2. \/ pc'[p] = "stopping" /\ todo'[p] = Tail(todo[p]) /\ Len(todo[p]) > 1
        \/ pc'[p] = "removing" /\ todo'[p] = RemovalOrder /\ ~(Len(todo[p]) > 1)
    BY <1>1, <1>4 DEF TypeOK, Goto
  <2>3. /\ pc' \in [Shells -> Ended \union StartSteps \union StopSteps]
        /\ todo' \in [Shells -> Seq(Containers)]
    <3>1. CASE Len(todo[p]) > 1
      BY <1>1, <1>4, <2>1, <3>1 DEF TypeOK
    <3>2. CASE ~(Len(todo[p]) > 1)
      <4>1. pc' = [pc EXCEPT ![p] = "removing"] /\ todo' = [todo EXCEPT ![p] = RemovalOrder]
        BY <1>4, <3>2 DEF Goto
      <4>2. pc' \in [Shells -> Ended \union StartSteps \union StopSteps]
        BY <1>1, <4>1 DEF TypeOK, StopSteps
      <4>3. todo' \in [Shells -> Seq(Containers)]
        BY <1>1, <4>1, Orders DEF TypeOK
      <4> QED  BY <4>2, <4>3
    <3> QED  BY <3>1, <3>2
  <2>4. OthersStand(p)
    BY <1>1, <1>4 DEF OthersStand, TypeOK, Goto, history
  <2>5. OwnedObjects' = OwnedObjects
    BY <1>4 DEF OwnedObjects, Owned
  <2>6. StopGoesOn(p)
    BY <1>1, <1>2, <1>4, <2>2, <2>4, <2>5 DEF StopGoesOn, Surveyed, TypeOK
  <2>7. alone[p] => running \subseteq Elements(todo[p])
    BY <1>1 DEF IInv, AloneHolds, StopAlone
  <2>8. OwnedObjects' \subseteq Containers \union {"socket"}
    BY <2>5 DEF OwnedObjects, Objects
  <2>9. alone[p] => StopAlone(p)'
    BY <1>4, <2>1, <2>2, <2>7, <2>8, Orders DEF StopAlone
  <2> QED  BY <1>1, <1>4, <2>1, <2>2, <2>3, <2>6, <2>9, Orders, StopGoesOnHolds DEF TypeOK
<1> QED  BY <1>3, <1>4 DEF StopContainer

LEMMA RemoveContainerHolds == ASSUME IInv, NEW p \in Shells, RemoveContainer(p) PROVE IInv' /\ Right
<1> DEFINE n == Head(todo[p])
           removable == n = "backend" => ~Present("bridge")
<1>1. TypeOK /\ pc[p] = "removing" /\ Active(p) /\ pc[p] \in StopSteps /\ todo[p] \in RemovalTails
  BY DEF IInv, RemoveContainer, Active, Ended, StopSteps, TodoIsTail
<1>2. NothingForeign
  BY <1>1 DEF IInv, SurveyHolds, Surveyed
<1>3. CASE Fault /\ Exits(p, "failed")
  <2>1. Leaves(p, "failed")
    BY <1>1, <1>3, FaultIn DEF Leaves, TypeOK, Ended, StopSteps, Fault
  <2> QED  BY <2>1, LeavesInv, LeavesRight
<1>4. CASE (n \in running \/ ~removable) /\ Exits(p, "failed") /\ UNCHANGED faults
  <2>1. Leaves(p, "failed")
    BY <1>1, <1>4 DEF Leaves, TypeOK, Ended, StopSteps, Reason
  <2> QED  BY <2>1, LeavesInv, LeavesRight
<1>5. ASSUME n \notin running, maker' = Without(n),
             Goto(p, IF Len(todo[p]) > 1 THEN "removing" ELSE "removeSocket"),
             todo' = [todo EXCEPT ![p] = Tail(@)],
             UNCHANGED <<running, ready, volume, foreignListener, made, history, bounds>>
      PROVE  IInv' /\ Right
  <2>1. /\ n \in Containers /\ n \in Objects /\ Tail(todo[p]) \in Seq(Containers)
        /\ Elements(Tail(todo[p])) = Elements(todo[p]) \ {n}
        /\ Len(todo[p]) > 1 => Tail(todo[p]) \in RemovalTails
        /\ Len(todo[p]) <= 1 => Elements(Tail(todo[p])) = {}
        /\ Len(todo[p]) \in Nat
    BY <1>1, RemovalTail DEF Objects, TypeOK
  <2> HIDE DEF n
  <2>2. /\ pc'[p] = IF Len(todo[p]) > 1 THEN "removing" ELSE "removeSocket"
        /\ todo'[p] = Tail(todo[p])
    BY <1>1, <1>5 DEF TypeOK, Goto
  <2>3. /\ pc' \in [Shells -> Ended \union StartSteps \union StopSteps]
        /\ todo' \in [Shells -> Seq(Containers)]
    <3>1. todo' = [todo EXCEPT ![p] = Tail(todo[p])]
      BY <1>5
    <3>2. todo' \in [Shells -> Seq(Containers)]
      BY <1>1, <2>1, <3>1 DEF TypeOK
    <3>3. pc' = [pc EXCEPT ![p] = "removing"] \/ pc' = [pc EXCEPT ![p] = "removeSocket"]
      BY <1>5 DEF Goto
    <3>4. pc' \in [Shells -> Ended \union StartSteps \union StopSteps]
      BY <1>1, <3>3 DEF TypeOK, StopSteps
    <3> QED  BY <3>2, <3>4
  <2>4. OthersStand(p)
    BY <1>1, <1>5 DEF OthersStand, TypeOK, Goto, history
  <2>5. maker' \in [Objects -> Shells \union {Nobody, Foreign, Earlier}]
        /\ \A o \in Objects : maker'[o] = IF o = n THEN Nobody ELSE maker[o]
    BY <1>1, <1>5 DEF TypeOK, Without
  <2>6. OwnedObjects' = OwnedObjects \ {n}
    BY <2>5 DEF OwnedObjects, Owned
  <2>7. StopGoesOn(p)
    BY <1>1, <1>2, <1>5, <2>2, <2>4, <2>5, <2>6 DEF StopGoesOn, Surveyed, TypeOK
  <2>8. alone[p] => running = {} /\ OwnedObjects \subseteq Elements(todo[p]) \union {"socket"}
    BY <1>1 DEF IInv, AloneHolds, StopAlone
  <2>9. alone[p] => StopAlone(p)'
    BY <1>5, <2>1, <2>2, <2>6, <2>8 DEF StopAlone
  <2> QED  BY <1>1, <2>1, <2>2, <2>3, <2>5, <2>7, <2>9, StopGoesOnHolds
<1> QED  BY <1>3, <1>4, <1>5 DEF RemoveContainer

LEMMA RemoveSocketHolds == ASSUME IInv, NEW p \in Shells, RemoveSocket(p) PROVE IInv' /\ Right
<1>1. TypeOK /\ pc[p] = "removeSocket" /\ Active(p) /\ pc[p] \in StopSteps
  BY DEF IInv, RemoveSocket, Active, Ended, StopSteps
<1>2. NothingForeign /\ maker["socket"] # Foreign
  BY <1>1 DEF IInv, SurveyHolds, Surveyed, NothingForeign, Objects
<1>3. /\ maker' = Without("socket") /\ Goto(p, "verify")
      /\ UNCHANGED <<running, ready, volume, foreignListener, todo, made, history, bounds>>
  BY <1>2 DEF RemoveSocket
<1>4. /\ pc' \in [Shells -> Ended \union StartSteps \union StopSteps] /\ pc'[p] = "verify"
      /\ todo' \in [Shells -> Seq(Containers)] /\ OthersStand(p)
  BY <1>1, <1>3 DEF TypeOK, Goto, StopSteps, OthersStand, history
<1>5. maker' \in [Objects -> Shells \union {Nobody, Foreign, Earlier}]
      /\ \A o \in Objects : maker'[o] = IF o = "socket" THEN Nobody ELSE maker[o]
  BY <1>1, <1>3 DEF TypeOK, Without
<1>6. OwnedObjects' = OwnedObjects \ {"socket"}
  BY <1>5 DEF OwnedObjects, Owned
<1>7. StopGoesOn(p)
  <2>1. running \subseteq OwnedObjects'
    BY <1>1, <1>6 DEF IInv, TypeOK, Containers
  <2> QED  BY <1>1, <1>2, <1>3, <1>4, <1>5, <2>1 DEF StopGoesOn, Surveyed, TypeOK
<1>8. alone[p] => StopAlone(p)'
  BY <1>1, <1>3, <1>4, <1>6 DEF IInv, AloneHolds, StopAlone
<1> QED  BY <1>1, <1>4, <1>5, <1>7, <1>8, StopGoesOnHolds

LEMMA VerifyHolds == ASSUME IInv, NEW p \in Shells, Verify(p) PROVE IInv' /\ Right
<1> DEFINE how == IF Listener \/ \E n \in Containers : Present(n) THEN "failed" ELSE "stopped"
<1>1. TypeOK /\ pc[p] = "verify" /\ Exits(p, how) /\ faults' = faults
  BY DEF IInv, Verify
<1>2. Leaves(p, how)
  BY <1>1 DEF Leaves, Active, TypeOK, Ended, StopSteps, Reason
<1> QED  BY <1>2, LeavesInv, LeavesRight

-----------------------------------------------------------------------------
(* What begins, what interrupts, and the host.                             *)

LEMMA KillHolds == ASSUME IInv, NEW p \in Shells, Kill(p) PROVE IInv' /\ Right
<1>1. TypeOK /\ faults' \in 0..MaxFaults /\ faults' # faults
  BY FaultIn DEF IInv, Kill, Fault, TypeOK
<1>2. Leaves(p, "killed")
  BY <1>1 DEF Leaves, Kill, Ended
<1> QED  BY <1>2, LeavesInv, LeavesRight

LEMMA InterruptHolds == ASSUME IInv, NEW p \in Shells, Interrupt(p) PROVE IInv' /\ Right
<1>1. TypeOK /\ faults' \in 0..MaxFaults /\ faults' # faults
  BY FaultIn DEF IInv, Interrupt, Fault, TypeOK
<1>2. CASE pc[p] \in (Unguarded \union StopSteps) /\ Exits(p, "failed")
  <2>1. Leaves(p, "failed")
    BY <1>1, <1>2 DEF Leaves, Active, Ended, Unguarded, StopSteps
  <2> QED  BY <2>1, LeavesInv, LeavesRight
<1>3. CASE pc[p] \in Guarded /\ EntersCleanup(p) /\ UNCHANGED <<world, made, history, starts>>
  <2>1. Aborts(p)
    BY <1>1, <1>3 DEF Aborts
  <2> QED  BY <2>1, AbortsHolds
<1> QED  BY <1>2, <1>3 DEF Interrupt

LEMMA BeginsHolds ==
  ASSUME IInv, NEW p \in Shells, NEW step \in {"look", "survey"}, Begins(p, step),
         starts' \in 0..MaxStarts
  PROVE  IInv' /\ Right
<1>1. /\ TypeOK /\ pc' = [pc EXCEPT ![p] = step] /\ ~Active(p)
      /\ alone' = [q \in Shells |-> q = p /\ \A r \in Shells : ~Active(r)]
      /\ seen' = [seen EXCEPT ![p] = OwnedObjects]
      /\ UNCHANGED <<world, todo, made, trouble, faults>>
  BY DEF IInv, Begins, Goto
<1>2. pc \in [Shells -> Ended \union StartSteps \union StopSteps] /\ pc'[p] = step
  BY <1>1 DEF TypeOK
<1>3. \A q \in Shells \ {p} : pc'[q] = pc[q]
  BY <1>1, <1>2
<1>4. OwnedObjects' = OwnedObjects
  BY <1>1 DEF OwnedObjects, Owned, world
<1>5. TypeOK'
  <2>1. pc' \in [Shells -> Ended \union StartSteps \union StopSteps]
    BY <1>1, <1>2 DEF StartSteps, StopSteps, Unguarded
  <2>2. OwnedObjects \in SUBSET Objects
    BY DEF OwnedObjects
  <2>3. seen' \in [Shells -> SUBSET Objects]
    BY <1>1, <2>2 DEF TypeOK
  <2>4. alone' \in [Shells -> BOOLEAN]
    BY <1>1
  <2> QED  BY <1>1, <1>4, <2>1, <2>3, <2>4 DEF TypeOK, world
<1>6. TodoIsTail'
  BY <1>1, <1>2, <1>3 DEF IInv, TodoIsTail, Active, Ended, Guarded
<1>7. VolumeIsUsable'
  BY <1>1, <1>2, <1>3 DEF IInv, VolumeIsUsable, BackendHasItsVolume, Guarded, world
<1>8. SurveyHolds' /\ CheckHolds'
  BY <1>1, <1>2, <1>3 DEF IInv, SurveyHolds, NothingForeign, Surveyed, CheckHolds, world
<1>9. \A q \in Shells : alone'[q] => q = p /\ \A r \in Shells : ~Active(r)
  BY <1>1
<1>10. AloneIsAlone'
  BY <1>2, <1>3, <1>9 DEF AloneIsAlone, Active, Ended
<1>11. StopAlone(p)' /\ StartAlone(p)'
  <2>1. seen'[p] = OwnedObjects /\ made'[p] = {}
    BY <1>1 DEF TypeOK, IInv, TodoIsTail, Active, Ended, Guarded
  <2>2. \A o \in OwnedObjects : Present(o)'
    BY <1>1 DEF OwnedObjects, Owned, Present, world
  <2>3. OwnedObjects' \subseteq Found(p)'
    BY <1>4, <2>1 DEF Found
  <2> QED  BY <1>2, <1>4, <2>1, <2>2, <2>3 DEF StopAlone, StartAlone, StartSteps, Unguarded, Guarded
<1>12. AloneHolds'
  BY <1>9, <1>11 DEF AloneHolds
<1>13. Right
  <2>1. ForeignKept
    BY <1>1 DEF ForeignKept, world
  <2>2. \A q \in Shells : ~Ends(q)
    BY <1>1, <1>3 DEF Ends, Active
  <2> QED  BY <2>1, <2>2 DEF Right, LeavesForeign, KeepsToItsOwn, Clears
<1> QED  BY <1>1, <1>5, <1>6, <1>7, <1>8, <1>10, <1>12, <1>13 DEF IInv, world

\* A step of the host, which no command takes.
LEMMA HostStep ==
  ASSUME IInv, UNCHANGED <<volume, pc, todo, made, history, bounds>>,
         TypeOK', running' \subseteq running,
         (\E p \in Shells : pc[p] \in Surveyed) => NothingForeign',
         (\E p \in Shells : pc[p] = "cleanMade") => NoneArrives,
         \A p \in Shells : alone[p] => StopAlone(p)' /\ StartAlone(p)'
  PROVE  IInv' /\ Right
<1>1. TodoIsTail'
  BY DEF IInv, TodoIsTail
<1>2. VolumeIsUsable' /\ SurveyHolds' /\ CheckHolds'
  <2>1. \A p \in Shells : pc[p] = "cleanMade" => Head(todo[p]) \in Objects
    BY RemovalTail DEF IInv, TodoIsTail, Objects
  <2> QED  BY <2>1 DEF IInv, VolumeIsUsable, BackendHasItsVolume, SurveyHolds, CheckHolds, NoneArrives
<1>3. AloneIsAlone' /\ AloneHolds'
  BY DEF IInv, AloneIsAlone, Active, AloneHolds, history
<1>4. \A q \in Shells : ~Ends(q)
  BY DEF Ends, Active
<1>5. Right
  BY <1>4 DEF Right, LeavesForeign, KeepsToItsOwn, Clears
<1> QED  BY <1>1, <1>2, <1>3, <1>5 DEF IInv

LEMMA BecomesHolds == ASSUME IInv, NEW n \in Containers, Becomes(n) PROVE IInv' /\ Right
<1>1. /\ TypeOK /\ n \in running /\ n \in OwnedObjects
      /\ UNCHANGED <<running, volume, foreignListener, pc, todo, made, history, bounds>>
  BY DEF IInv, Becomes, TypeOK
<1>2. /\ \A o \in Objects : maker'[o] = IF n = "bridge" /\ o = "socket" THEN maker["bridge"] ELSE maker[o]
      /\ maker' \in [Objects -> Shells \union {Nobody, Foreign, Earlier}]
  BY <1>1 DEF Becomes, TypeOK, Objects, Containers
<1>3. /\ n = "bridge" => OwnedObjects' = OwnedObjects \union {"socket"}
      /\ n # "bridge" => OwnedObjects' = OwnedObjects
  BY <1>1, <1>2 DEF OwnedObjects, Owned, Objects
<1>4. \A o \in Objects : Present(o) => Present(o)'
  BY <1>1, <1>2 DEF Present, OwnedObjects, Owned
<1>5. TypeOK'
  <2>1. ready' \subseteq running'
    BY <1>1 DEF Becomes, TypeOK
  <2> QED  BY <1>1, <1>2, <1>3, <2>1 DEF TypeOK, history, bounds
<1>6. NoneArrives
  BY <1>2, <1>1 DEF NoneArrives, OwnedObjects, Owned, Objects, Containers
<1>7. ASSUME NEW p \in Shells, alone[p] PROVE StopAlone(p)' /\ StartAlone(p)'
  <2>1. StopAlone(p) /\ StartAlone(p) /\ seen[p] \subseteq Objects
    BY <1>1, <1>7 DEF IInv, AloneHolds, TypeOK
  <2>2. Found(p)' = Found(p) /\ seen'[p] = seen[p] /\ trouble'[p] = trouble[p]
    BY <1>1 DEF Found, history
  <2>3. "bridge" \in Found(p) => "socket" \in Found(p)
    BY DEF Found
  <2>4. OwnedObjects \subseteq Found(p) => OwnedObjects' \subseteq Found(p)
    BY <1>1, <1>3, <2>3
  <2>5. StopAlone(p)'
    BY <1>1, <1>3, <2>1, <2>2, <2>4 DEF StopAlone
  <2>6. StartAlone(p)'
    BY <1>1, <1>3, <1>4, <2>1, <2>2, <2>4 DEF StartAlone
  <2> QED  BY <2>5, <2>6
<1>8. (\E p \in Shells : pc[p] \in Surveyed) => NothingForeign'
  BY <1>6 DEF IInv, SurveyHolds, NothingForeign, NoneArrives
<1> QED  BY <1>1, <1>5, <1>6, <1>7, <1>8, HostStep

LEMMA DiesHolds == ASSUME IInv, NEW n \in Containers, Dies(n) PROVE IInv' /\ Right
<1>1. /\ TypeOK /\ running' = running \ {n} /\ ready' = ready \ {n}
      /\ UNCHANGED <<maker, volume, foreignListener, pc, todo, made, history, bounds>>
  BY DEF IInv, Dies
<1>2. OwnedObjects' = OwnedObjects /\ \A o \in Objects : Present(o)' = Present(o)
  BY <1>1 DEF OwnedObjects, Owned, Present
<1>3. TypeOK'
  BY <1>1, <1>2 DEF TypeOK, history, bounds
<1>4. ASSUME NEW p \in Shells, alone[p] PROVE StopAlone(p)' /\ StartAlone(p)'
  <2>1. StopAlone(p) /\ StartAlone(p) /\ seen[p] \subseteq Objects
    BY <1>1, <1>4 DEF IInv, AloneHolds, TypeOK
  <2>2. Found(p)' = Found(p) /\ seen'[p] = seen[p] /\ trouble'[p] = trouble[p]
    BY <1>1 DEF Found, history
  <2> QED  BY <1>1, <1>2, <2>1, <2>2 DEF StopAlone, StartAlone
<1>5. ((\E p \in Shells : pc[p] \in Surveyed) => NothingForeign') /\ NoneArrives
  BY <1>1 DEF IInv, SurveyHolds, NothingForeign, NoneArrives
<1> QED  BY <1>1, <1>3, <1>4, <1>5, HostStep

LEMMA ForeignArrivesHolds == ASSUME IInv, NEW o, ForeignArrives(o) PROVE IInv' /\ Right
<1>1. /\ TypeOK /\ ~Stopping
      /\ UNCHANGED <<running, ready, volume, pc, todo, made, history, bounds>>
  BY DEF IInv, ForeignArrives
<1>2. \/ o \in Objects /\ o \notin running /\ maker' = [maker EXCEPT ![o] = Foreign]
         /\ UNCHANGED foreignListener
      \/ maker' = maker /\ foreignListener' = TRUE
  BY DEF ForeignArrives
<1>3. /\ maker' \in [Objects -> Shells \union {Nobody, Foreign, Earlier}]
      /\ \A x \in Objects : maker'[x] = maker[x] \/ (maker'[x] = Foreign /\ x \notin running)
      /\ foreignListener' \in BOOLEAN
  BY <1>1, <1>2 DEF TypeOK
<1>4. OwnedObjects' \subseteq OwnedObjects /\ running \subseteq OwnedObjects'
  BY <1>1, <1>3 DEF OwnedObjects, Owned, TypeOK
<1>5. \A x \in Objects : Present(x) => Present(x)'
  BY <1>3, Makers DEF Present
<1>6. TypeOK'
  BY <1>1, <1>3, <1>4 DEF TypeOK, history, bounds
<1>7. \A p \in Shells : pc[p] \notin StopSteps
  BY <1>1 DEF Stopping
<1>8. ASSUME NEW p \in Shells, alone[p] PROVE StopAlone(p)' /\ StartAlone(p)'
  <2>1. StartAlone(p) /\ seen[p] \subseteq Objects
    BY <1>1, <1>8 DEF IInv, AloneHolds, TypeOK
  <2>2. Found(p)' = Found(p) /\ seen'[p] = seen[p] /\ trouble'[p] = trouble[p]
    BY <1>1 DEF Found, history
  <2>3. StopAlone(p)'
    BY <1>1, <1>7 DEF StopAlone, StopSteps
  <2>4. StartAlone(p)'
    BY <1>1, <1>4, <1>5, <2>1, <2>2 DEF StartAlone
  <2> QED  BY <2>3, <2>4
<1>9. ~\E p \in Shells : pc[p] \in Surveyed \union {"cleanMade"}
  BY <1>7 DEF StopSteps, Surveyed, ForeignArrives
<1> QED  BY <1>1, <1>6, <1>8, <1>9, HostStep

LEMMA ForeignLeavesHolds == ASSUME IInv, ForeignLeaves PROVE IInv' /\ Right
<1>1. /\ TypeOK /\ foreignListener' = FALSE /\ \A p \in Shells : ~Active(p)
      /\ maker' = [o \in Objects |-> IF maker[o] = Foreign THEN Nobody ELSE maker[o]]
      /\ UNCHANGED <<running, ready, volume, pc, todo, made, history, bounds>>
  BY DEF IInv, ForeignLeaves
<1>2. maker' \in [Objects -> Shells \union {Nobody, Foreign, Earlier}] /\ OwnedObjects' = OwnedObjects
  BY <1>1 DEF TypeOK, OwnedObjects, Owned
<1>3. TypeOK'
  BY <1>1, <1>2 DEF TypeOK, history, bounds
<1>4. \A p \in Shells : ~alone[p]
  BY <1>1 DEF IInv, AloneIsAlone
<1>5. NothingForeign' /\ NoneArrives
  BY <1>1, Makers DEF NothingForeign, NoneArrives
<1> QED  BY <1>1, <1>3, <1>4, <1>5, HostStep

-----------------------------------------------------------------------------
(* The invariant.                                                          *)

LEMMA InitInv == ASSUME Init PROVE IInv
<1>1. OwnedObjects = {} /\ running = {} /\ ready = {}
  BY DEF Init, OwnedObjects, Owned
<1>2. TypeOK
  <2>1. todo \in [Shells -> Seq(Containers)] /\ pc \in [Shells -> Ended]
    BY Orders DEF Init, Ended
  <2>2. maker \in [Objects -> Shells \union {Nobody, Foreign, Earlier}]
    BY DEF Init
  <2>3. volume \in {"absent", "fresh", "empty", "used", "foreign"}
    BY DEF Init
  <2>4. /\ made \in [Shells -> SUBSET Containers]
        /\ alone \in [Shells -> BOOLEAN] /\ seen \in [Shells -> SUBSET Objects]
        /\ trouble \in [Shells -> SUBSET {"left", "stuck"}]
    BY DEF Init
  <2>5. starts \in 0..MaxStarts /\ faults \in 0..MaxFaults
    BY BoundsAssumption DEF Init
  <2>6. pc \in [Shells -> Ended \union StartSteps \union StopSteps]
    BY <2>1
  <2>7. foreignListener \in BOOLEAN
    BY DEF Init
  <2> QED  BY <1>1, <2>1, <2>2, <2>3, <2>4, <2>5, <2>6, <2>7 DEF TypeOK
<1>3. \A p \in Shells : pc[p] = "none" /\ ~alone[p] /\ made[p] = {}
  BY DEF Init
<1> QED
  BY <1>1, <1>2, <1>3
  DEF IInv, TodoIsTail, VolumeIsUsable, BackendHasItsVolume, SurveyHolds, Surveyed, CheckHolds,
      AloneIsAlone, AloneHolds, Guarded

LEMMA ProceedsHolds == ASSUME IInv, NEW p \in Shells, Proceeds(p) PROVE IInv' /\ Right
<1>1. CASE Look(p) \/ CheckSocket(p) \/ CheckVolume(p) \/ CreateVolume(p) \/ InitVolume(p) \/ StatVolume(p)
  BY <1>1, LookHolds, CheckSocketHolds, CheckVolumeHolds, CreateVolumeHolds, InitVolumeHolds, StatVolumeHolds
<1>2. CASE RunBackend(p)
  BY <1>2, RunContainerHolds DEF RunBackend, Containers, Guarded
<1>3. CASE RunBridge(p)
  BY <1>3, RunContainerHolds DEF RunBridge, Containers, Guarded
<1>4. CASE RunIngress(p)
  BY <1>4, RunContainerHolds DEF RunIngress, Containers, Guarded
<1>5. CASE WaitBackend(p)
  BY <1>5, WaitForHolds DEF WaitBackend
<1>6. CASE WaitBridge(p)
  BY <1>6, WaitForHolds DEF WaitBridge
<1>7. CASE WaitIngress(p)
  BY <1>7, WaitForHolds DEF WaitIngress
<1>8. CASE AssertProfile(p) \/ CheckMade(p) \/ CleanContainer(p) \/ CleanSocket(p)
  BY <1>8, AssertHolds, CheckMadeHolds, CleanContainerHolds, CleanSocketHolds
<1>9. CASE Survey(p) \/ StopContainer(p) \/ RemoveContainer(p) \/ RemoveSocket(p) \/ Verify(p)
  BY <1>9, SurveyHoldsInv, StopContainerHolds, RemoveContainerHolds, RemoveSocketHolds, VerifyHolds
<1> QED  BY <1>1, <1>2, <1>3, <1>4, <1>5, <1>6, <1>7, <1>8, <1>9 DEF Proceeds

LEMMA NextStep == ASSUME IInv, [Next]_vars PROVE IInv' /\ [Right]_vars
<1>1. ASSUME NEW p \in Shells, BeginStart(p) PROVE IInv' /\ Right
  <2>1. starts' \in 0..MaxStarts /\ Begins(p, "look")
    BY <1>1, BoundsAssumption DEF BeginStart, IInv, TypeOK
  <2> QED  BY <2>1, BeginsHolds
<1>2. ASSUME NEW p \in Shells, BeginStop(p) PROVE IInv' /\ Right
  <2>1. starts' \in 0..MaxStarts /\ Begins(p, "survey")
    BY <1>2 DEF BeginStop, IInv, TypeOK
  <2> QED  BY <2>1, BeginsHolds
<1>3. ASSUME NEW p \in Shells, Proceeds(p) \/ Kill(p) \/ Interrupt(p) PROVE IInv' /\ Right
  BY <1>3, ProceedsHolds, KillHolds, InterruptHolds
<1>4. CASE \E n \in Containers : Becomes(n) \/ Dies(n)
  BY <1>4, BecomesHolds, DiesHolds
<1>5. CASE (\E o \in Foreigners : ForeignArrives(o)) \/ ForeignLeaves
  BY <1>5, ForeignArrivesHolds, ForeignLeavesHolds
<1>6. CASE UNCHANGED vars
  <2>1. /\ UNCHANGED <<maker, running, ready, volume, foreignListener>>
        /\ UNCHANGED <<pc, todo, made, alone, seen, trouble, starts, faults>>
    BY <1>6 DEF vars, world, history, bounds
  <2>2. TypeOK' /\ (running \subseteq Containers)' /\ TodoIsTail' /\ VolumeIsUsable'
    BY <2>1 DEF IInv, TypeOK, TodoIsTail, VolumeIsUsable, BackendHasItsVolume, OwnedObjects, Owned
  <2>3. SurveyHolds' /\ CheckHolds' /\ AloneIsAlone'
    BY <2>1 DEF IInv, SurveyHolds, NothingForeign, CheckHolds, AloneIsAlone, Active
  <2>4. AloneHolds'
    BY <2>1 DEF IInv, AloneHolds, StopAlone, StartAlone, OwnedObjects, Owned, Present, Found
  <2>5. IInv'
    BY <2>2, <2>3, <2>4 DEF IInv
  <2> QED  BY <1>6, <2>5
<1> QED  BY <1>1, <1>2, <1>3, <1>4, <1>5, <1>6 DEF Next

-----------------------------------------------------------------------------
(* Theorems.                                                               *)

\* What a command may count on, alone or beside others, holds in every state.
THEOREM Invariance == Spec => []IInv
<1>1. Init => IInv
  BY InitInv
<1>2. IInv /\ [Next]_vars => IInv'
  BY NextStep
<1> QED  BY <1>1, <1>2, PTL DEF Spec

\* The scripts' state is well formed; in particular only containers that exist
\* run, and only running ones serve.
THEOREM TypeCorrect == Spec => []TypeOK
<1>1. IInv => TypeOK
  BY DEF IInv
<1> QED  BY <1>1, Invariance, PTL

\* No backend runs on a volume it cannot write, whoever made the volume.
THEOREM BackendsHaveTheirVolume == Spec => []BackendHasItsVolume
<1>1. IInv => BackendHasItsVolume
  BY DEF IInv, VolumeIsUsable
<1> QED  BY <1>1, Invariance, PTL

LEMMA EveryStepIsRight == Spec => [][Right]_vars
<1>1. IInv /\ [Next]_vars => [Right]_vars
  BY NextStep
<1> QED  BY <1>1, Invariance, PTL DEF Spec

\* No command stops or removes what is not the project's, and a lone stop that
\* meets such a thing changes nothing.
THEOREM ForeignIsUntouched == Spec => ForeignUntouched
<1>1. [Right]_vars =>
        [\A p \in Shells :
          /\ pc'[p] # pc[p] \/ todo'[p] # todo[p] =>
                \A o \in Objects : maker[o] = Foreign => maker'[o] = Foreign
          /\ (/\ Ends(p) /\ pc[p] \in StopSteps /\ alone[p]
              /\ \E o \in Objects : maker[o] = Foreign) => Unchanged(p)]_vars
  BY DEF Right, LeavesForeign, ForeignKept
<1> QED  BY <1>1, EveryStepIsRight, PTL DEF ForeignUntouched

\* A start that runs alone keeps what it found and, when it fails, leaves
\* nothing of its own.
THEOREM StartsKeepToTheirOwn == Spec => StartKeepsToItsOwn
<1>1. [Right]_vars =>
        [\A p \in Shells : Ends(p) /\ pc[p] \in StartSteps /\ alone[p] =>
          /\ \A o \in seen[p] : maker'[o] # Nobody
          /\ pc'[p] = "failed" /\ pc[p] # "cleanMade" /\ trouble[p] = {} =>
                OwnedObjects' \subseteq Found(p)]_vars
  BY DEF Right, KeepsToItsOwn
<1> QED  BY <1>1, EveryStepIsRight, PTL DEF StartKeepsToItsOwn

\* One undisturbed stop clears whatever earlier commands left behind.
THEOREM OneStopIsEnough == Spec => OneStopClears
<1>1. [Right]_vars =>
        [\A p \in Shells :
          (/\ Ends(p) /\ pc[p] \in StopSteps /\ alone[p] /\ faults' = faults
           /\ ~InTheWay) =>
          \/ pc'[p] = "stopped" /\ OwnedObjects' = {}
          \/ pc[p] = "survey" /\ "ingress" \in running \ ready /\ Unchanged(p)]_vars
  BY DEF Right, Clears
<1> QED  BY <1>1, EveryStepIsRight, PTL DEF OneStopClears

=============================================================================
