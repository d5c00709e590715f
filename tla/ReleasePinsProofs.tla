------------------------- MODULE ReleasePinsProofs -------------------------
(***************************************************************************)
(* Proofs about ReleasePins, for any number of commands that overlap, any  *)
(* releases and sources, and any bounds.                                   *)
(*                                                                         *)
(* The first invariant is about commands as such: the lock never pins what *)
(* was not reviewed, whatever overlaps.  The later ones are about what one *)
(* command may count on while it runs alone, or beside one other whose     *)
(* kind is known: what the pins, the tag and the files are at each of its  *)
(* steps.  They carry what a check, a pin and a save promise.              *)
(***************************************************************************)
EXTENDS ReleasePins, TLAPS

Environments == [lock : Locks, release : Releases]
Reviewed(l) == l.image.identity \in reviewed /\ l.image.identity.from = l.image.inputs

\* Which command is at which step, with what it sourced.
AtStep(p) ==
    /\ pc[p] # "idle" => env[p] \in Environments
    /\ pc[p] \in {"copy", "make", "units", "tag"} => kind[p] = "build"
    /\ pc[p] \in {"images", "present", "save", "observe", "keep"} => kind[p] = "save"
    /\ pc[p] \in {"settle", "write", "move"} => kind[p] \in {"build", "save"}
    /\ pc[p] = "source" => kind[p] = "check"
    /\ pc[p] = "verify" => kind[p] \in {"build", "check"}
    /\ pc[p] = "verify" /\ kind[p] = "check" => staged[p] \in LockFiles
    /\ pc[p] = "digest" => staged[p] \in LockFiles
    /\ pc[p] = "place" => staged[p] \in LockFiles

\* What a build or a save made, and from what.
Produced(p) ==
    /\ pc[p] \in {"make", "units", "settle", "write"} /\ kind[p] = "build" => inputs[p] \in Trees
    /\ pc[p] \in {"save", "observe", "settle", "write"} /\ kind[p] = "save" => inputs[p] \in Contents
    /\ pc[p] \in {"units", "settle", "write", "move", "tag"} /\ kind[p] = "build" => made[p] \in Images
    /\ pc[p] \in {"settle", "write", "move", "keep"} /\ kind[p] = "save" => made[p] \in Archives
    /\ pc[p] \in {"units", "settle", "write"} /\ kind[p] = "build" => made[p].from = inputs[p]
    /\ pc[p] \in {"settle", "write"} /\ kind[p] = "build" => made[p] \in reviewed
    /\ pc[p] = "move" => staged[p] \in Copies /\ Reviewed(staged[p].lock)

Shell(p) == AtStep(p) /\ Produced(p)

IInv == TypeOK /\ Reviewed(lock) /\ \A p \in Shells : Shell(p)

-----------------------------------------------------------------------------
\* What a step of one command leaves alone of the others.
LEMMA Others ==
    ASSUME NEW q \in Shells, Shell(q), reviewed \subseteq reviewed',
           pc'[q] = pc[q], kind'[q] = kind[q], env'[q] = env[q],
           inputs'[q] = inputs[q], made'[q] = made[q], staged'[q] = staged[q]
    PROVE  Shell(q)'
BY DEF Shell, AtStep, Produced, Reviewed

\* The type of what a command changes of its own, and of everything else.
OwnType ==
    /\ kind \in [Shells -> Kinds \union {"none"}] /\ pc \in [Shells -> Steps \union {"idle"}]
    /\ env \in [Shells -> Environments \union {None}]
    /\ inputs \in [Shells -> Trees \union Contents \union {None}]
    /\ made \in [Shells -> Images \union Archives \union {None}]
    /\ staged \in [Shells -> Copies \union LockFiles \union {None}]

CommonType ==
    /\ tree \in Trees /\ lock \in Locks /\ manifest \in LockFiles
    /\ tag \in [Releases -> Images \union {None}]
    /\ archives \in [Releases -> Archives \union {None}]
    /\ saving \in [Releases -> Archives \union {None}]
    /\ reviewed \subseteq Images
    /\ overlaps \in 0..MaxOverlaps
    /\ edits \in 0..MaxEdits /\ faults \in 0..MaxFaults

LEMMA Types == TypeOK <=> OwnType /\ CommonType
BY DEF TypeOK, OwnType, CommonType, Environments

\* A step that changes the private state of one command only.
LEMMA OneCommand ==
    ASSUME IInv, NEW p \in Shells, CommonType', Reviewed(lock)', reviewed \subseteq reviewed',
           OwnType', Shell(p)',
           \A q \in Shells \ {p} : /\ pc'[q] = pc[q] /\ kind'[q] = kind[q] /\ env'[q] = env[q]
                                    /\ inputs'[q] = inputs[q] /\ made'[q] = made[q]
                                    /\ staged'[q] = staged[q]
    PROVE  IInv'
<1>1. TypeOK'
  BY Types, PTL
<1>2. \A q \in Shells \ {p} : Shell(q)'
  BY Others DEF IInv
<1> QED
  BY <1>1, <1>2 DEF IInv

\* A command that ends has no private state left to speak of.
LEMMA Ending ==
    ASSUME IInv, NEW p \in Shells, Ends(p), CommonType', Reviewed(lock)', reviewed \subseteq reviewed'
    PROVE  IInv'
<1> OwnType
  BY Types DEF IInv
<1>1. OwnType'
  BY DEF OwnType, Ends
<1>2. Shell(p)'
  BY DEF OwnType, Ends, Shell, AtStep, Produced
<1>3. \A q \in Shells \ {p} : /\ pc'[q] = pc[q] /\ kind'[q] = kind[q] /\ env'[q] = env[q]
                               /\ inputs'[q] = inputs[q] /\ made'[q] = made[q]
                               /\ staged'[q] = staged[q]
  BY DEF OwnType, Ends
<1> QED
  BY <1>1, <1>2, <1>3, OneCommand

\* A command that goes on, with its inputs, its product and what it staged.
LEMMA GoingOn ==
    ASSUME IInv, NEW p \in Shells, NEW s \in Steps, NEW i \in Trees \union Contents \union {None},
           NEW m \in Images \union Archives \union {None},
           NEW l \in Copies \union LockFiles \union {None},
           Goes(p, s), inputs' = [inputs EXCEPT ![p] = i], made' = [made EXCEPT ![p] = m],
           staged' = [staged EXCEPT ![p] = l],
           CommonType', Reviewed(lock)', reviewed \subseteq reviewed', Shell(p)'
    PROVE  IInv'
<1> OwnType
  BY Types DEF IInv
<1>1. OwnType'
  BY DEF OwnType, Goes, command
<1>2. \A q \in Shells \ {p} : /\ pc'[q] = pc[q] /\ kind'[q] = kind[q] /\ env'[q] = env[q]
                               /\ inputs'[q] = inputs[q] /\ made'[q] = made[q]
                               /\ staged'[q] = staged[q]
  BY DEF OwnType, Goes, command
<1> QED
  BY <1>1, <1>2, OneCommand

\* What a step leaves as it was keeps its type and the review of the lock.
LEMMA Unchanged ==
    ASSUME IInv, UNCHANGED <<files, docker, reviewed, bounds>>
    PROVE  CommonType' /\ Reviewed(lock)' /\ reviewed \subseteq reviewed'
BY Types DEF IInv, CommonType, Reviewed, files, docker, bounds, LockFiles, Locks

\* The same of a step that takes away at most what has a staging name.
LEMMA Unstaging ==
    ASSUME IInv, NEW p \in Shells, UNCHANGED <<files, tag, archives, reviewed, bounds>>,
           saving' = saving \/ Unstages(p)
    PROVE  CommonType' /\ Reviewed(lock)' /\ reviewed \subseteq reviewed' /\ reviewed' = reviewed
BY Types DEF IInv, CommonType, Reviewed, files, bounds, LockFiles, Locks, Unstages

\* A step that only moves on.
LEMMA MovingOn ==
    ASSUME IInv, NEW p \in Shells, NEW s \in Steps, Goes(p, s), UNCHANGED work,
           CommonType', Reviewed(lock)', reviewed \subseteq reviewed', Shell(p)'
    PROVE  IInv'
<1> OwnType
  BY Types DEF IInv
<1>1. /\ inputs' = [inputs EXCEPT ![p] = inputs[p]] /\ made' = [made EXCEPT ![p] = made[p]]
      /\ staged' = [staged EXCEPT ![p] = staged[p]]
  BY DEF OwnType, work
<1>2. /\ inputs[p] \in Trees \union Contents \union {None}
      /\ made[p] \in Images \union Archives \union {None}
      /\ staged[p] \in Copies \union LockFiles \union {None}
  BY DEF OwnType
<1> QED
  BY <1>1, <1>2, GoingOn

\* The same of a step that looks first.
LEMMA Looking ==
    ASSUME IInv, NEW p \in Shells, NEW step, NEW s \in Steps, NEW c, Requires(p, step, c, s),
           Goes(p, s) /\ UNCHANGED work /\ reviewed' = reviewed => Shell(p)'
    PROVE  IInv'
<1>1. CommonType' /\ Reviewed(lock)' /\ reviewed \subseteq reviewed' /\ reviewed' = reviewed
  BY Unchanged DEF Requires
<1>2. CASE Goes(p, s) /\ UNCHANGED work
  BY <1>1, <1>2, MovingOn
<1>3. CASE Ends(p)
  BY <1>1, <1>3, Ending
<1> QED
  BY <1>2, <1>3 DEF Requires

-----------------------------------------------------------------------------
\* The steps of a build.
LEMMA BuildSteps ==
    ASSUME IInv, NEW p \in Shells,
           VerifyManifest(p) \/ CopyContext(p) \/ Make(p) \/ RunUnits(p) \/ TagImage(p)
    PROVE  IInv'
<1> OwnType /\ CommonType /\ Shell(p) /\ Reviewed(lock)
  BY Types DEF IInv
<1>1. CASE VerifyManifest(p)
  <2> DEFINE s == IF kind[p] = "build" THEN "copy" ELSE "digest"
  <2>1. s \in Steps
    BY DEF Steps
  <2>2. ASSUME Goes(p, s), UNCHANGED work, reviewed' = reviewed PROVE Shell(p)'
    BY <1>1, <2>2 DEF OwnType, Goes, command, work, Shell, AtStep, Produced, VerifyManifest, Requires
  <2>3. Requires(p, "verify", manifest = Listed, s)
    BY <1>1 DEF VerifyManifest
  <2> HIDE DEF s
  <2> QED
    BY <2>1, <2>2, <2>3, Looking
<1>2. CASE CopyContext(p)
  <2> DEFINE i == [release |-> Release(p), source |-> tree.source]
  <2>1. i \in Trees
    BY <1>2 DEF OwnType, CommonType, Shell, AtStep, CopyContext, Release, Environments, Trees
  <2>2. /\ Goes(p, "make") /\ inputs' = [inputs EXCEPT ![p] = i]
        /\ made' = [made EXCEPT ![p] = made[p]] /\ staged' = [staged EXCEPT ![p] = staged[p]]
    BY <1>2 DEF CopyContext, OwnType
  <2>3. CommonType' /\ Reviewed(lock)' /\ reviewed \subseteq reviewed'
    BY <1>2, Unchanged DEF CopyContext
  <2>4. Shell(p)'
    BY <1>2, <2>1, <2>2 DEF OwnType, Goes, command, Shell, AtStep, Produced, CopyContext
  <2>5. /\ made[p] \in Images \union Archives \union {None}
        /\ staged[p] \in Copies \union LockFiles \union {None} /\ "make" \in Steps
    BY DEF OwnType, Steps
  <2> QED
    BY <2>1, <2>2, <2>3, <2>4, <2>5, GoingOn
<1>3. CASE Make(p)
  <2>1. PICK v \in Variants : made' = [made EXCEPT ![p] = [from |-> inputs[p], variant |-> v]]
    BY <1>3 DEF Make
  <2> DEFINE m == [from |-> inputs[p], variant |-> v]
  <2>2. m \in Images /\ m.from = inputs[p]
    BY <1>3 DEF Shell, AtStep, Produced, Make, Images
  <2>3. /\ Goes(p, "units") /\ made' = [made EXCEPT ![p] = m]
        /\ inputs' = [inputs EXCEPT ![p] = inputs[p]] /\ staged' = [staged EXCEPT ![p] = staged[p]]
    BY <1>3, <2>1 DEF Make, OwnType
  <2>4. CommonType' /\ Reviewed(lock)' /\ reviewed \subseteq reviewed'
    BY <1>3, Unchanged DEF Make
  <2> HIDE DEF m
  <2>5. Shell(p)'
    BY <1>3, <2>2, <2>3 DEF OwnType, Goes, command, Shell, AtStep, Produced, Make
  <2>6. /\ inputs[p] \in Trees \union Contents \union {None}
        /\ staged[p] \in Copies \union LockFiles \union {None} /\ "units" \in Steps
    BY DEF OwnType, Steps
  <2> QED
    BY <2>2, <2>3, <2>4, <2>5, <2>6, GoingOn
<1>4. CASE RunUnits(p)
  <2>1. made[p] \in Images
    BY <1>4 DEF Shell, AtStep, Produced, RunUnits
  <2>2. CommonType' /\ Reviewed(lock)' /\ reviewed \subseteq reviewed'
    BY <1>4, <2>1 DEF RunUnits, CommonType, Reviewed, files, docker, bounds, Locks, LockFiles
  <2>3. Goes(p, "settle") /\ UNCHANGED work /\ "settle" \in Steps
    BY <1>4 DEF RunUnits, Steps
  <2>4. Shell(p)'
    BY <1>4, <2>1, <2>3 DEF RunUnits, OwnType, Goes, command, work, Shell, AtStep, Produced
  <2> QED
    BY <2>2, <2>3, <2>4, MovingOn
<1>5. CASE TagImage(p)
  <2>1. made[p] \in Images
    BY <1>5 DEF Shell, AtStep, Produced, TagImage
  <2>2. CommonType' /\ Reviewed(lock)' /\ reviewed \subseteq reviewed'
    BY <1>5, <2>1 DEF TagImage, CommonType, Reviewed, files, bounds, Locks, LockFiles
  <2>3. CASE Ends(p)
    BY <2>2, <2>3, Ending
  <2>4. CASE Goes(p, "hash") /\ UNCHANGED work
    <3>1. Shell(p)' /\ "hash" \in Steps
      BY <1>5, <2>4 DEF OwnType, Goes, command, work, Shell, AtStep, Produced, Steps, TagImage
    <3> QED
      BY <2>2, <2>4, <3>1, MovingOn
  <2> QED
    BY <1>5, <2>3, <2>4 DEF TagImage
<1> QED
  BY <1>1, <1>2, <1>3, <1>4, <1>5

\* The pins: settled, staged and moved.
LEMMA PinSteps ==
    ASSUME IInv, NEW p \in Shells, Settle(p) \/ StageLock(p) \/ MoveLock(p)
    PROVE  IInv'
<1> OwnType /\ CommonType /\ Shell(p) /\ Reviewed(lock)
  BY Types DEF IInv
<1>1. CASE Settle(p)
  <2>1. CommonType' /\ Reviewed(lock)' /\ reviewed \subseteq reviewed' /\ reviewed' = reviewed
    BY <1>1, Unstaging DEF Settle, work
  <2>2. CASE Ends(p)
    BY <2>1, <2>2, Ending
  <2>3. CASE (Goes(p, AfterSettle(p)) \/ Goes(p, "write")) /\ UNCHANGED work
    <3>1. AfterSettle(p) \in Steps /\ "write" \in Steps
      BY DEF AfterSettle, Steps
    <3>2. Shell(p)'
      BY <1>1, <2>1, <2>3
         DEF OwnType, Goes, command, work, Shell, AtStep, Produced, AfterSettle, Settle
    <3> QED
      BY <2>1, <2>3, <3>1, <3>2, MovingOn
  <2> QED
    BY <1>1, <2>2, <2>3 DEF Settle
<1>2. CASE StageLock(p)
  <2> DEFINE k == [lock EXCEPT ![Pin(p)] = [identity |-> made[p], inputs |-> inputs[p]]]
             l == [release |-> tree.release, lock |-> k]
  <2>1. l \in Copies /\ Reviewed(l.lock)
    <3>1. CASE kind[p] = "build"
      BY <1>2, <3>1 DEF StageLock, Shell, Produced, AtStep, Pin, CommonType, Locks, Reviewed, Copies, Trees
    <3>2. CASE kind[p] = "save"
      BY <1>2, <3>2 DEF StageLock, Shell, Produced, AtStep, Pin, CommonType, Locks, Reviewed, Copies, Trees
    <3> QED
      BY <1>2, <3>1, <3>2 DEF StageLock, Shell, AtStep
  <2>2. CommonType' /\ Reviewed(lock)' /\ reviewed \subseteq reviewed' /\ reviewed' = reviewed
    BY <1>2, Unchanged DEF StageLock
  <2>3. /\ Goes(p, "move") /\ staged' = [staged EXCEPT ![p] = l] /\ pc[p] = "write"
        /\ inputs' = [inputs EXCEPT ![p] = inputs[p]] /\ made' = [made EXCEPT ![p] = made[p]]
    BY <1>2 DEF StageLock, OwnType
  <2>4. inputs[p] \in Trees \union Contents \union {None} /\ "move" \in Steps
        /\ made[p] \in Images \union Archives \union {None}
    BY DEF OwnType, Steps
  <2> HIDE DEF l
  <2>5. Shell(p)'
    BY <2>1, <2>2, <2>3 DEF OwnType, Goes, command, Shell, AtStep, Produced, Reviewed
  <2> QED
    BY <2>1, <2>2, <2>3, <2>4, <2>5, GoingOn
<1>3. CASE MoveLock(p)
  <2>1. staged[p] \in Copies /\ Reviewed(staged[p].lock)
    BY <1>3 DEF MoveLock, Shell, Produced
  <2>2. CommonType' /\ Reviewed(lock)' /\ reviewed \subseteq reviewed' /\ reviewed' = reviewed
    BY <1>3, <2>1 DEF MoveLock, CommonType, Reviewed, docker, bounds, Copies, Trees
  <2>3. Goes(p, AfterSettle(p)) /\ UNCHANGED work /\ AfterSettle(p) \in Steps
    BY <1>3 DEF MoveLock, AfterSettle, Steps
  <2>4. Shell(p)'
    BY <1>3, <2>2, <2>3 DEF OwnType, Goes, command, work, Shell, AtStep, Produced, AfterSettle, MoveLock
  <2> QED
    BY <2>2, <2>3, <2>4, MovingOn
<1> QED
  BY <1>1, <1>2, <1>3

\* The steps of a save.
LEMMA SaveSteps ==
    ASSUME IInv, NEW p \in Shells,
           CheckImages(p) \/ CheckPresent(p) \/ Save(p) \/ Observe(p) \/ KeepArchive(p)
    PROVE  IInv'
<1> OwnType /\ CommonType /\ Shell(p) /\ Reviewed(lock)
  BY Types DEF IInv
<1>1. CASE CheckImages(p)
  <2>1. ASSUME Goes(p, "present"), UNCHANGED work, reviewed' = reviewed PROVE Shell(p)'
    BY <1>1, <2>1 DEF OwnType, Goes, command, work, Shell, AtStep, Produced, CheckImages, Requires
  <2> QED
    BY <1>1, <2>1, Looking DEF CheckImages, Steps
<1>2. CASE CheckPresent(p)
  <2> DEFINE c == [release |-> Release(p), image |-> env[p].lock.image.identity]
  <2>1. c \in Contents
    BY <1>2 DEF CheckPresent, Shell, AtStep, Environments, Locks, Contents, Release
  <2>2. CommonType' /\ Reviewed(lock)' /\ reviewed \subseteq reviewed' /\ reviewed' = reviewed
    BY <1>2, Unstaging DEF CheckPresent
  <2>3. CASE Ends(p)
    BY <2>2, <2>3, Ending
  <2>4. CASE inputs' = [inputs EXCEPT ![p] = c] /\ Goes(p, "save") /\ UNCHANGED <<made, staged>>
    <3>1. /\ made' = [made EXCEPT ![p] = made[p]] /\ staged' = [staged EXCEPT ![p] = staged[p]]
          /\ made[p] \in Images \union Archives \union {None}
          /\ staged[p] \in Copies \union LockFiles \union {None} /\ "save" \in Steps
      BY <2>4 DEF OwnType, Steps
    <3>2. Shell(p)'
      BY <1>2, <2>1, <2>2, <2>4
         DEF OwnType, Goes, command, Shell, AtStep, Produced, CheckPresent
    <3> QED
      BY <2>1, <2>2, <2>4, <3>1, <3>2, GoingOn
  <2> QED
    BY <1>2, <2>3, <2>4 DEF CheckPresent
<1>3. CASE Save(p)
  <2>1. Release(p) \in Releases
    BY <1>3 DEF Save, Shell, AtStep, Environments, Release
  <2>2. CASE Ends(p) /\ Unstages(p)
    BY <1>3, <2>2, Unstaging, Ending DEF Save
  <2>3. CASE tag[Release(p)] # None /\ Goes(p, "observe") /\ UNCHANGED work
    <3>1. saving' \in [Releases -> Archives \union {None}]
      <4>1. PICK v \in Variants : saving' = [saving EXCEPT ![Release(p)] =
                  [from |-> [release |-> Release(p), image |-> tag[Release(p)]], variant |-> v]]
        BY <1>3, <2>3 DEF Save
      <4>2. [from |-> [release |-> Release(p), image |-> tag[Release(p)]], variant |-> v] \in Archives
        BY <2>1, <2>3 DEF CommonType, Archives, Contents
      <4> QED
        BY <4>1, <4>2 DEF CommonType
    <3>2. CommonType' /\ Reviewed(lock)' /\ reviewed \subseteq reviewed' /\ reviewed' = reviewed
      BY <1>3, <3>1 DEF Save, CommonType, Reviewed, files, bounds, LockFiles, Locks
    <3>3. Shell(p)' /\ "observe" \in Steps
      BY <1>3, <2>3 DEF OwnType, Goes, command, work, Shell, AtStep, Produced, Steps, Save
    <3> QED
      BY <2>3, <3>2, <3>3, MovingOn
  <2> QED
    BY <1>3, <2>2, <2>3 DEF Save
<1>5. CASE Observe(p)
  <2>1. CommonType' /\ Reviewed(lock)' /\ reviewed \subseteq reviewed' /\ reviewed' = reviewed
    BY <1>5, Unchanged DEF Observe
  <2>2. CASE Ends(p)
    BY <2>1, <2>2, Ending
  <2>3. CASE saving[Release(p)] # None /\ Goes(p, "settle") /\ UNCHANGED <<inputs, staged>>
             /\ made' = [made EXCEPT ![p] = saving[Release(p)]]
    <3> DEFINE m == saving[Release(p)]
    <3>1. m \in Archives
      BY <1>5, <2>3 DEF Observe, Shell, AtStep, Environments, Release, CommonType
    <3>2. /\ inputs' = [inputs EXCEPT ![p] = inputs[p]] /\ staged' = [staged EXCEPT ![p] = staged[p]]
          /\ inputs[p] \in Trees \union Contents \union {None}
          /\ staged[p] \in Copies \union LockFiles \union {None} /\ "settle" \in Steps
      BY <2>3 DEF OwnType, Steps
    <3>3. made' = [made EXCEPT ![p] = m]
      BY <2>3
    <3> HIDE DEF m
    <3>4. Shell(p)'
      BY <1>5, <2>1, <2>3, <3>1, <3>3 DEF OwnType, Goes, command, Shell, AtStep, Produced, Observe
    <3> QED
      BY <2>1, <2>3, <3>1, <3>2, <3>3, <3>4, GoingOn
  <2> QED
    BY <1>5, <2>2, <2>3 DEF Observe
<1>4. CASE KeepArchive(p)
  <2>1. CommonType' /\ Reviewed(lock)' /\ reviewed \subseteq reviewed' /\ reviewed' = reviewed
    <3>1. Release(p) \in Releases
      BY <1>4 DEF KeepArchive, Shell, AtStep, Environments, Release
    <3> QED
      BY <1>4, <3>1 DEF KeepArchive, Unstages, CommonType, Reviewed, files, bounds, Locks, LockFiles
  <2>2. CASE Ends(p)
    BY <2>1, <2>2, Ending
  <2>3. CASE Goes(p, "hash") /\ UNCHANGED work
    <3>1. Shell(p)' /\ "hash" \in Steps
      BY <1>4, <2>3 DEF OwnType, Goes, command, work, Shell, AtStep, Produced, Steps, KeepArchive
    <3> QED
      BY <2>1, <2>3, <3>1, MovingOn
  <2> QED
    BY <1>4, <2>2, <2>3 DEF KeepArchive
<1> QED
  BY <1>1, <1>2, <1>3, <1>4, <1>5

\* The steps of the generation of the manifest and of a restore.
LEMMA ManifestAndRestoreSteps ==
    ASSUME IInv, NEW p \in Shells,
           HashFiles(p) \/ PlaceManifest(p) \/ CheckSum(p) \/ Load(p) \/ Compare(p)
    PROVE  IInv'
<1> OwnType /\ CommonType /\ Shell(p) /\ Reviewed(lock)
  BY Types DEF IInv
<1>1. CASE HashFiles(p)
  <2>1. CommonType' /\ Reviewed(lock)' /\ reviewed \subseteq reviewed' /\ reviewed' = reviewed
    BY <1>1, Unchanged DEF HashFiles
  <2>2. Listed \in LockFiles
    BY DEF CommonType, Listed, LockFiles
  <2>3. /\ Goes(p, "place") /\ staged' = [staged EXCEPT ![p] = Listed] /\ "place" \in Steps
        /\ inputs' = [inputs EXCEPT ![p] = inputs[p]] /\ made' = [made EXCEPT ![p] = made[p]]
        /\ inputs[p] \in Trees \union Contents \union {None}
        /\ made[p] \in Images \union Archives \union {None}
    BY <1>1 DEF HashFiles, OwnType, Steps
  <2>4. Shell(p)'
    BY <1>1, <2>1, <2>2, <2>3 DEF OwnType, Goes, command, Shell, AtStep, Produced, HashFiles
  <2> QED
    BY <2>1, <2>2, <2>3, <2>4, GoingOn
<1>2. CASE PlaceManifest(p)
  <2>1. CommonType' /\ Reviewed(lock)' /\ reviewed \subseteq reviewed' /\ Ends(p)
    BY <1>2 DEF PlaceManifest, CommonType, Reviewed, docker, bounds, Shell, AtStep
  <2> QED
    BY <2>1, Ending
<1>3. CASE CheckSum(p)
  <2>1. ASSUME Goes(p, "load"), UNCHANGED work, reviewed' = reviewed PROVE Shell(p)'
    BY <1>3, <2>1 DEF OwnType, Goes, command, work, Shell, AtStep, Produced, CheckSum, Requires
  <2> QED
    BY <1>3, <2>1, Looking DEF CheckSum, Steps
<1>4. CASE Load(p)
  <2>1. CommonType' /\ Reviewed(lock)' /\ reviewed \subseteq reviewed' /\ reviewed' = reviewed
    <3>1. Release(p) \in Releases
      BY <1>4 DEF Load, Shell, AtStep, Environments, Release
    <3>2. tag' \in [Releases -> Images \union {None}]
      BY <1>4, <3>1 DEF Load, CommonType, Archives, Contents
    <3> QED
      BY <1>4, <3>2 DEF Load, CommonType, Reviewed, files, bounds, LockFiles, Locks
  <2>2. CASE Ends(p)
    BY <2>1, <2>2, Ending
  <2>3. CASE Goes(p, "compare") /\ UNCHANGED work
    <3>1. Shell(p)' /\ "compare" \in Steps
      BY <1>4, <2>3 DEF OwnType, Goes, command, work, Shell, AtStep, Produced, Steps, Load
    <3> QED
      BY <2>1, <2>3, <3>1, MovingOn
  <2> QED
    BY <1>4, <2>2, <2>3 DEF Load
<1>5. CASE Compare(p)
  BY <1>5, Unchanged, Ending DEF Compare
<1> QED
  BY <1>1, <1>2, <1>3, <1>4, <1>5

\* The steps of the check before serving.
LEMMA CheckSteps ==
    ASSUME IInv, NEW p \in Shells,
           SourceAgain(p) \/ CheckDigest(p) \/ CheckTagged(p) \/ CheckArchived(p)
    PROVE  IInv'
<1> OwnType /\ CommonType /\ Shell(p) /\ Reviewed(lock)
  BY Types DEF IInv
<1>1. CASE SourceAgain(p)
  <2>1. CommonType' /\ Reviewed(lock)' /\ reviewed \subseteq reviewed' /\ reviewed' = reviewed
    BY <1>1, Unchanged DEF SourceAgain
  <2>2. Listed \in LockFiles
    BY DEF CommonType, Listed, LockFiles
  <2>3. /\ Goes(p, "verify") /\ staged' = [staged EXCEPT ![p] = Listed] /\ "verify" \in Steps
        /\ inputs' = [inputs EXCEPT ![p] = inputs[p]] /\ made' = [made EXCEPT ![p] = made[p]]
        /\ inputs[p] \in Trees \union Contents \union {None}
        /\ made[p] \in Images \union Archives \union {None}
    BY <1>1 DEF SourceAgain, OwnType, Steps
  <2>4. Shell(p)'
    BY <1>1, <2>1, <2>2, <2>3 DEF OwnType, Goes, command, Shell, AtStep, Produced, SourceAgain
  <2> QED
    BY <2>1, <2>2, <2>3, <2>4, GoingOn
<1>2. CASE CheckDigest(p)
  <2> DEFINE c == [release |-> staged[p].tree.release, source |-> tree.source]
  <2>1. c \in Trees
    BY <1>2 DEF CheckDigest, Shell, AtStep, LockFiles, CommonType, Trees
  <2>2. CommonType' /\ Reviewed(lock)' /\ reviewed \subseteq reviewed' /\ reviewed' = reviewed
    BY <1>2, Unchanged DEF CheckDigest
  <2>3. CASE Ends(p)
    BY <2>2, <2>3, Ending
  <2>4. CASE inputs' = [inputs EXCEPT ![p] = c] /\ Goes(p, "tagged") /\ UNCHANGED <<made, staged>>
    <3>1. /\ made' = [made EXCEPT ![p] = made[p]] /\ staged' = [staged EXCEPT ![p] = staged[p]]
          /\ made[p] \in Images \union Archives \union {None}
          /\ staged[p] \in Copies \union LockFiles \union {None} /\ "tagged" \in Steps
      BY <2>4 DEF OwnType, Steps
    <3>2. Shell(p)'
      BY <1>2, <2>2, <2>4 DEF OwnType, Goes, command, Shell, AtStep, Produced, CheckDigest
    <3> QED
      BY <2>1, <2>2, <2>4, <3>1, <3>2, GoingOn
  <2> QED
    BY <1>2, <2>3, <2>4 DEF CheckDigest
<1>3. CASE CheckTagged(p)
  <2>1. ASSUME Goes(p, "archived"), UNCHANGED work, reviewed' = reviewed PROVE Shell(p)'
    BY <1>3, <2>1 DEF OwnType, Goes, command, work, Shell, AtStep, Produced, CheckTagged, Requires
  <2> QED
    BY <1>3, <2>1, Looking DEF CheckTagged, Steps
<1>4. CASE CheckArchived(p)
  BY <1>4, Unchanged, Ending DEF CheckArchived
<1> QED
  BY <1>1, <1>2, <1>3, <1>4

-----------------------------------------------------------------------------
LEMMA Initially == Init => IInv
<1> SUFFICES ASSUME Init PROVE IInv
  OBVIOUS
<1> DEFINE i == [from |-> tree, variant |-> Usual]
           c == [release |-> tree.release, image |-> i]
           a == [from |-> c, variant |-> Usual]
<1>1. tree \in Trees /\ tree.release \in Releases
  BY DEF Init, Trees
<1>2. i \in Images /\ c \in Contents /\ a \in Archives
  BY <1>1, FirstAssumption DEF Images, Contents, Archives
<1>3. lock = [image |-> [identity |-> i, inputs |-> tree], archive |-> [identity |-> a, inputs |-> c]]
      /\ tag = [r \in Releases |-> IF r = tree.release THEN i ELSE None] /\ reviewed = {i}
      /\ archives = [r \in Releases |-> IF r = tree.release THEN a ELSE None]
  BY DEF Init
<1> i.from = tree
  OBVIOUS
<1> HIDE DEF i, c, a
<1>4. lock \in Locks /\ Reviewed(lock)
  BY <1>1, <1>2, <1>3 DEF Locks, Reviewed
<1>5. manifest \in LockFiles
  BY <1>1, <1>4 DEF Init, Listed, LockFiles
<1>6. OwnType
  BY DEF Init, OwnType
<1>7. CommonType
  BY <1>1, <1>2, <1>3, <1>4, <1>5, BoundsAssumption DEF Init, CommonType
<1>8. \A p \in Shells : Shell(p)
  BY DEF Init, Shell, AtStep, Produced
<1> QED
  BY <1>4, <1>6, <1>7, <1>8, Types DEF IInv

LEMMA Inductive == IInv /\ [Next]_vars => IInv'
<1> SUFFICES ASSUME IInv, [Next]_vars PROVE IInv'
  OBVIOUS
<1> OwnType /\ CommonType /\ Reviewed(lock)
  BY Types DEF IInv
<1>1. ASSUME NEW p \in Shells, NEW k \in Kinds, Begin(p, k) PROVE IInv'
  <2> DEFINE e == [lock |-> lock, release |-> tree.release]
  <2>1. e \in Environments
    BY DEF CommonType, Environments, Trees
  <2>2. First[k] \in {"source", "verify", "images", "sum", "hash"} /\ (First[k] = "verify" => k = "build")
        /\ (First[k] = "images" => k = "save") /\ (First[k] = "source" => k = "check")
    BY DEF First, Kinds
  <2>3. CommonType' /\ Reviewed(lock)' /\ reviewed \subseteq reviewed'
    BY <1>1, BoundsAssumption DEF Begin, CommonType, Reviewed, files, docker, LockFiles, Locks
  <2>4. OwnType'
    BY <1>1, <2>1, <2>2 DEF Begin, OwnType, work, Steps
  <2>5. Shell(p)'
    BY <1>1, <2>1, <2>2 DEF Begin, OwnType, work, Shell, AtStep, Produced
  <2>6. \A q \in Shells \ {p} : /\ pc'[q] = pc[q] /\ kind'[q] = kind[q] /\ env'[q] = env[q]
                                 /\ inputs'[q] = inputs[q] /\ made'[q] = made[q]
                                 /\ staged'[q] = staged[q]
    BY <1>1 DEF Begin, OwnType, work
  <2> QED
    BY <2>3, <2>4, <2>5, <2>6, OneCommand
<1>2. ASSUME NEW p \in Shells, Proceeds(p) PROVE IInv'
  BY <1>2, BuildSteps, PinSteps, SaveSteps, ManifestAndRestoreSteps, CheckSteps DEF Proceeds
<1>3. ASSUME NEW p \in Shells, Breaks(p) PROVE IInv'
  <2>1. CommonType' /\ Reviewed(lock)' /\ reviewed \subseteq reviewed' /\ Ends(p)
    BY <1>3, BoundsAssumption DEF Breaks, Unstages, CommonType, Reviewed, files, LockFiles, Locks
  <2> QED
    BY <2>1, Ending
<1>4. CASE Edit \/ Lose \/ UNCHANGED vars
  <2>1. CommonType'
    <3>1. CASE Edit
      BY <3>1, BoundsAssumption DEF Edit, CommonType, Trees, docker
    <3>2. CASE Lose
      BY <3>2, BoundsAssumption DEF Lose, CommonType, files
    <3>3. CASE UNCHANGED vars
      BY <3>3 DEF vars, CommonType, files, docker, bounds
    <3> QED
      BY <1>4, <3>1, <3>2, <3>3
  <2>2. UNCHANGED <<pc, kind, env, inputs, made, staged, reviewed, lock>>
    BY <1>4 DEF Edit, Lose, vars, files, command, work
  <2>3. Reviewed(lock)' /\ OwnType'
    BY <2>2 DEF Reviewed, OwnType
  <2>4. \A p \in Shells : Shell(p)'
    BY <2>2, Others DEF IInv
  <2>5. TypeOK'
    BY <2>1, <2>3, Types, PTL
  <2> QED
    BY <2>3, <2>4, <2>5 DEF IInv
<1> QED
  BY <1>1, <1>2, <1>3, <1>4 DEF Next

\* Every command, at every step, has what its next step needs; and the pins are
\* those of reviewed images, however many commands rewrite them at once.
THEOREM Invariance == Spec => []IInv
<1>1. Init => IInv
  BY Initially
<1>2. IInv /\ [Next]_vars => IInv'
  BY Inductive
<1> QED
  BY <1>1, <1>2, PTL DEF Spec

\* The state of the pins and of every command has its type.
THEOREM TypeCorrect == Spec => []TypeOK
<1>1. IInv => TypeOK
  BY DEF IInv
<1> QED
  BY <1>1, Invariance, PTL

\* The lock pins no image before its units and tests passed, and none beside the
\* digest of other inputs.
THEOREM OnlyReviewedIsPinned == Spec => []PinsAreReviewed
<1>1. IInv => PinsAreReviewed
  BY DEF IInv, Reviewed, PinsAreReviewed
<1> QED
  BY <1>1, Invariance, PTL
-----------------------------------------------------------------------------
(* While commands do not overlap, or two of them once.                     *)

\* As often as a command began beside another, so many run beside one.
Company ==
    /\ overlaps = 0 => \A p, q \in Shells : Active(p) /\ Active(q) => p = q
    /\ overlaps = 1 => \A p, q, r \in Shells :
                          Active(p) /\ Active(q) /\ Active(r) => p = q \/ q = r \/ p = r

\* What a command sourced was reviewed by then, and what it builds is of the
\* release that it sourced.
Sourced(p) ==
    /\ Reviewed(env[p].lock)
    /\ pc[p] \in {"verify", "digest", "tagged", "archived"} /\ kind[p] = "check" =>
          staged[p] \in LockFiles /\ Reviewed(staged[p].lock)
    /\ pc[p] \in {"make", "units", "settle", "write", "move"} /\ kind[p] = "build" =>
          inputs[p].release = Release(p)
    /\ pc[p] \in {"units", "settle", "write", "move", "tag"} /\ kind[p] = "build" =>
          made[p].from.release = Release(p)
    /\ pc[p] \in {"digest", "tagged", "archived"} => kind[p] = "check"
    /\ pc[p] \in {"sum", "load", "compare"} => kind[p] = "restore"
    /\ pc[p] \in {"hash", "place"} => kind[p] \in {"build", "save", "manifest"}

\* A tag and an archive of a release hold an image of that release.
Named ==
    \A r \in Releases :
       /\ tag[r] # None => tag[r].from.release = r
       /\ archives[r] # None => archives[r].from.image.from.release = r
       /\ saving[r] # None => saving[r].from.image.from.release = r

History == Named /\ \A p \in Shells : Active(p) => Sourced(p)

\* While commands do not overlap, no pin and no manifest is of a later release
\* than the files, although a release that is declared while a lock is written
\* is lost: the copy is of no earlier one than the command sourced.
Rising(p) ==
    /\ Release(p) <= tree.release
    /\ pc[p] = "move" => /\ Release(p) <= staged[p].release
                         /\ manifest.tree.release <= staged[p].release
                         /\ lock.image.inputs.release <= staged[p].release
    /\ pc[p] = "place" => staged[p].tree.release <= tree.release
    /\ pc[p] \in {"verify", "copy", "make", "units", "settle", "write", "move"} /\ kind[p] = "build" =>
          lock.image.inputs.release <= Release(p)

Behind == manifest.tree.release <= tree.release /\ lock.image.inputs.release <= tree.release

RisingInv ==
    overlaps = 0 => Behind /\ \A p \in Shells : Active(p) => Rising(p)

\* The pin a command is about to put in place of one made from other inputs.
Replaces(p) ==
    /\ pc[p] \in {"write", "move"} => inputs[p] # lock[Pin(p)].inputs
    /\ pc[p] = "move" =>
          staged[p].lock = [lock EXCEPT ![Pin(p)] = [identity |-> made[p], inputs |-> inputs[p]]]

\* A command that never ran beside another.
CheckAlone(p) ==
    /\ env[p].lock = lock
    /\ manifest.tree.release <= Release(p)
    /\ pc[p] \in {"verify", "digest", "tagged", "archived"} => staged[p].lock = lock

BuildAlone(p) ==
    /\ pc[p] = "verify" => manifest.tree.release <= Release(p)
    /\ pc[p] \in {"copy", "make", "units", "settle", "write", "move"} => manifest.lock = lock
    /\ pc[p] = "place" => staged[p].lock = lock

SaveAlone(p) ==
    /\ pc[p] \in {"images", "present", "save", "observe", "settle", "write", "move"} => env[p].lock = lock
    /\ pc[p] \in {"present", "save"} => tag[Release(p)] \in {lock.image.identity, None}
    /\ pc[p] \in {"save", "observe", "settle", "write", "move"} =>
          inputs[p] = [release |-> Release(p), image |-> lock.image.identity]
    /\ pc[p] = "observe" => saving[Release(p)].from = inputs[p]
    /\ pc[p] \in {"settle", "write", "move"} => made[p].from = inputs[p]
    /\ pc[p] \in {"settle", "write", "move", "keep"} => saving[Release(p)] = made[p]
    /\ pc[p] = "keep" => made[p] = lock.archive.identity
    /\ pc[p] \in {"keep", "hash", "place"} => lock.archive.identity.from.image = lock.image.identity
    /\ pc[p] \in {"hash", "place"} => \/ archives[Release(p)] = lock.archive.identity
                                      \/ archives[Release(p)] = None /\ faults > 0

Alone(p) ==
    /\ Replaces(p)
    /\ kind[p] = "check" => CheckAlone(p)
    /\ kind[p] = "build" => BuildAlone(p)
    /\ kind[p] = "save" => SaveAlone(p)

AloneInv ==
    overlaps = 0 => ArchiveIsOfItsInputs /\ \A p \in Shells : Active(p) => Alone(p)

\* The image's pin is the one that check p sourced as it began, or it was
\* replaced by one of a release between that pin's and the one that p sourced.
Old(p) == lock.image = env[p].lock.image
New(p) ==
    /\ lock.image.inputs # env[p].lock.image.inputs
    /\ lock.image.inputs.release <= Release(p)
    /\ env[p].lock.image.inputs.release <= lock.image.inputs.release
\* ... and the manifest does not say so yet, or the tag has moved by then.
Unlisted(p) == manifest.lock.image = env[p].lock.image
Tagged(p) == lock.image.inputs.release = Release(p) =>
                tag[Release(p)] \in {lock.image.identity, None}

Checked(p) ==
    /\ Old(p) \/ (New(p) /\ (Unlisted(p) \/ Tagged(p)))
    /\ pc[p] \in {"verify", "digest", "tagged", "archived"} =>
          staged[p].lock.image \in {env[p].lock.image, lock.image}
    /\ pc[p] \in {"digest", "tagged", "archived"} /\ staged[p].lock.image # env[p].lock.image =>
          New(p) /\ Tagged(p)
    /\ pc[p] \in {"tagged", "archived"} => inputs[p] = staged[p].lock.image.inputs
    /\ pc[p] = "archived" => staged[p].lock.image = env[p].lock.image

\* The one command q that runs beside the check p.
BuildBeside(p, q) ==
    /\ pc[q] = "verify" => Release(q) <= tree.release /\ manifest.tree.release <= Release(p)
    /\ pc[q] \in {"verify", "copy", "make", "units", "settle", "write", "move"} =>
          Old(p) /\ env[p].lock.image.inputs.release <= Release(q)
    /\ pc[q] \in {"copy", "make", "units", "settle", "write", "move"} =>
          manifest.lock = lock /\ Release(q) <= Release(p)
    /\ pc[q] \in {"write", "move"} => inputs[q] # lock.image.inputs
    /\ pc[q] = "move" => staged[q].lock.image = [identity |-> made[q], inputs |-> inputs[q]]
    /\ pc[q] \in {"tag", "hash", "place"} =>
          Old(p) \/ (Unlisted(p) /\ lock.image.inputs.release = Release(q))
    /\ pc[q] = "tag" => Old(p) \/ made[q] = lock.image.identity
    /\ pc[q] \in {"hash", "place"} => Old(p) \/ tag[Release(q)] \in {lock.image.identity, None}
    /\ pc[q] = "place" => staged[q].lock = lock

Beside(p, q) ==
    /\ kind[q] = "build" => BuildBeside(p, q)
    /\ kind[q] # "build" => Old(p) /\ (pc[q] = "move" => staged[q].lock.image = lock.image)

BesideInv ==
    overlaps <= 1 =>
       \A p \in Shells : Active(p) /\ kind[p] = "check" =>
          /\ Checked(p)
          /\ \A q \in Shells \ {p} : Active(q) => Beside(p, q)

FullInv == IInv /\ Company /\ History /\ RisingInv /\ AloneInv /\ BesideInv

-----------------------------------------------------------------------------
\* What a step of one command leaves as it was: the commands beside it, ...
Still(q) ==
    /\ pc'[q] = pc[q] /\ kind'[q] = kind[q] /\ env'[q] = env[q]
    /\ inputs'[q] = inputs[q] /\ made'[q] = made[q] /\ staged'[q] = staged[q]
\* ... what it sourced itself, and how often anything happened.
OneGoesOn(p) ==
    /\ pc[p] # "idle" /\ \A q \in Shells \ {p} : Still(q)
    /\ pc'[p] = "idle" \/ (kind'[p] = kind[p] /\ env'[p] = env[p])
    /\ MoveLock(p) \/ tree' = tree
    /\ overlaps' = overlaps /\ faults' = faults /\ reviewed \subseteq reviewed'

LEMMA EndsAlone ==
    ASSUME OwnType, NEW p \in Shells, Ends(p)
    PROVE  pc'[p] = "idle" /\ \A q \in Shells \ {p} : Still(q)
BY DEF OwnType, Ends, Still

LEMMA GoesAlone ==
    ASSUME OwnType, NEW p \in Shells, NEW s, Goes(p, s)
    PROVE  /\ pc'[p] = s /\ kind' = kind /\ env' = env
           /\ \A q \in Shells \ {p} : pc'[q] = pc[q]
BY DEF OwnType, Goes, command

LEMMA LooksAlone ==
    ASSUME OwnType, NEW p \in Shells, NEW step, NEW c, NEW s, Requires(p, step, c, s), step # "idle"
    PROVE  OneGoesOn(p) /\ UNCHANGED <<files, docker>>
           /\ pc[p] = step /\ (pc'[p] = "idle" \/ (c /\ pc'[p] = s /\ UNCHANGED work))
<1>1. CASE Ends(p)
  BY <1>1, EndsAlone DEF Requires, OneGoesOn, bounds, files
<1>2. CASE c /\ Goes(p, s) /\ UNCHANGED work
  BY <1>2, GoesAlone DEF Requires, OneGoesOn, bounds, files, work, Still
<1> QED
  BY <1>1, <1>2 DEF Requires

\* Each step of a command is of this form.
LEMMA OneAtATime ==
    ASSUME IInv, NEW p \in Shells, Proceeds(p)
    PROVE  OneGoesOn(p)
<1> OwnType
  BY Types DEF IInv
<1>1. CASE VerifyManifest(p) \/ CheckImages(p) \/ CheckSum(p) \/ CheckTagged(p)
  BY <1>1, LooksAlone DEF VerifyManifest, CheckImages, CheckSum, CheckTagged
<1>2. CASE CopyContext(p)
  BY <1>2, GoesAlone DEF CopyContext, OneGoesOn, Still, OwnType, files, bounds
<1>3. CASE Make(p)
  BY <1>3, GoesAlone DEF Make, OneGoesOn, Still, OwnType, files, bounds
<1>4. CASE RunUnits(p)
  BY <1>4, GoesAlone DEF RunUnits, OneGoesOn, Still, files, bounds, work
<1>5. CASE TagImage(p)
  BY <1>5, GoesAlone, EndsAlone DEF TagImage, OneGoesOn, Still, files, bounds, work
<1>6. CASE Settle(p)
  BY <1>6, GoesAlone, EndsAlone DEF Settle, OneGoesOn, Still, files, bounds, work
<1>7. CASE StageLock(p)
  BY <1>7, GoesAlone DEF StageLock, OneGoesOn, Still, OwnType, files, bounds
<1>8. CASE MoveLock(p)
  BY <1>8, GoesAlone DEF MoveLock, OneGoesOn, Still, bounds, work
<1>9. CASE HashFiles(p) \/ SourceAgain(p)
  BY <1>9, GoesAlone DEF HashFiles, SourceAgain, OneGoesOn, Still, OwnType, files, bounds
<1>10. CASE PlaceManifest(p)
  BY <1>10, EndsAlone DEF PlaceManifest, OneGoesOn, bounds
<1>11. CASE CheckPresent(p)
  BY <1>11, GoesAlone, EndsAlone DEF CheckPresent, OneGoesOn, Still, OwnType, files, bounds
<1>12. CASE Save(p)
  BY <1>12, GoesAlone, EndsAlone DEF Save, OneGoesOn, Still, files, bounds, work
<1>13. CASE KeepArchive(p)
  BY <1>13, GoesAlone, EndsAlone DEF KeepArchive, OneGoesOn, Still, files, bounds, work
<1>14. CASE Load(p)
  BY <1>14, GoesAlone, EndsAlone DEF Load, OneGoesOn, Still, files, bounds, work
<1>15. CASE Compare(p) \/ CheckArchived(p)
  BY <1>15, EndsAlone DEF Compare, CheckArchived, OneGoesOn, files, bounds
<1>16. CASE CheckDigest(p)
  BY <1>16, GoesAlone, EndsAlone DEF CheckDigest, OneGoesOn, Still, OwnType, files, bounds
<1>17. CASE Observe(p)
  BY <1>17, GoesAlone, EndsAlone DEF Observe, OneGoesOn, Still, OwnType, files, bounds
<1> QED
  BY <1>1, <1>2, <1>3, <1>4, <1>5, <1>6, <1>7, <1>8, <1>9, <1>10, <1>11, <1>12, <1>13, <1>14,
     <1>15, <1>16, <1>17 DEF Proceeds

\* The commands that run are those that ran, whoever went on; ...
LEMMA CompanyStep ==
    ASSUME Company, NEW p \in Shells, OneGoesOn(p)
    PROVE  Company'
<1>1. \A q \in Shells : Active(q)' => Active(q)
  BY DEF OneGoesOn, Still, Active
<1>2. overlaps' = overlaps
  BY DEF OneGoesOn
<1> QED
  BY <1>1, <1>2 DEF Company

\* ... and one more after one began, which counts if any did.
LEMMA CompanyBegin ==
    ASSUME IInv, Company, NEW p \in Shells, NEW k \in Kinds, Begin(p, k)
    PROVE  Company'
<1> OwnType /\ overlaps \in Nat
  BY Types, BoundsAssumption DEF IInv, CommonType
<1>1. \A q \in Shells : Active(q)' => Active(q) \/ q = p
  BY DEF Begin, OwnType, Active
<1>2. ~Active(p)
  BY DEF Begin
<1>3. CASE (\E q \in Shells : Active(q)) /\ overlaps' = overlaps + 1
  BY <1>1, <1>2, <1>3 DEF Company
<1>4. CASE (\A q \in Shells : ~Active(q)) /\ overlaps' = overlaps
  BY <1>1, <1>4 DEF Company
<1> QED
  BY <1>3, <1>4 DEF Begin

\* While at most one command began beside another, at most one runs beside one.
LEMMA AtMostTwo ==
    ASSUME IInv, Company, overlaps <= 1, NEW p \in Shells, NEW q \in Shells, NEW r \in Shells,
           Active(p), Active(q), Active(r), p # q
    PROVE  r = p \/ r = q
<1>1. overlaps = 0 \/ overlaps = 1
  BY Types, BoundsAssumption DEF IInv, CommonType
<1> QED
  BY <1>1 DEF Company

LEMMA StillSourced ==
    ASSUME History, NEW q \in Shells, Active(q), Still(q), reviewed \subseteq reviewed'
    PROVE  Sourced(q)'
BY DEF History, Still, Sourced, Reviewed, Release

\* What has the name of a release is of that release, whoever puts it there.
LEMMA NamedStep ==
    ASSUME IInv, History, NEW p \in Shells, Proceeds(p)
    PROVE  Named'
<1> OwnType /\ CommonType /\ OneGoesOn(p) /\ Shell(p) /\ Sourced(p) /\ Named
  BY Types, OneAtATime DEF IInv, History, OneGoesOn, Active
<1>1. Release(p) \in Releases
  BY DEF Shell, AtStep, OneGoesOn, Environments, Release
<1>2. CASE TagImage(p)
  <2>1. tag' = [tag EXCEPT ![Release(p)] = made[p]] /\ UNCHANGED <<archives, saving>>
        /\ made[p].from.release = Release(p)
    BY <1>2 DEF TagImage, Sourced, Shell, AtStep
  <2> QED
    BY <2>1, <1>1 DEF Named, CommonType
<1>3. CASE Load(p)
  <2>1. \/ UNCHANGED <<tag, archives, saving>>
        \/ /\ archives[Release(p)] # None /\ UNCHANGED <<archives, saving>>
           /\ tag' = [tag EXCEPT ![Release(p)] = archives[Release(p)].from.image]
    BY <1>3 DEF Load
  <2> QED
    BY <2>1, <1>1 DEF Named, CommonType
<1>4. CASE Save(p)
  <2>1. CASE Unstages(p) /\ UNCHANGED <<tag, archives>>
    BY <2>1, <1>1 DEF Named, CommonType, Unstages
  <2>2. CASE tag[Release(p)] # None /\ ~Unstages(p)
    <3>1. PICK v \in Variants : saving' = [saving EXCEPT ![Release(p)] =
                  [from |-> [release |-> Release(p), image |-> tag[Release(p)]], variant |-> v]]
      BY <1>4, <2>2 DEF Save
    <3>2. UNCHANGED <<tag, archives>>
      BY <1>4 DEF Save
    <3>3. saving'[Release(p)].from.image = tag[Release(p)]
      BY <3>1, <1>1 DEF CommonType
    <3>4. \A r \in Releases \ {Release(p)} : saving'[r] = saving[r]
      BY <3>1, <1>1 DEF CommonType
    <3> QED
      BY <2>2, <3>2, <3>3, <3>4, <1>1 DEF Named
  <2> QED
    BY <1>4, <2>1, <2>2 DEF Save
<1>5. CASE KeepArchive(p)
  <2>1. /\ tag' = tag /\ saving' = [saving EXCEPT ![Release(p)] = None]
        /\ archives' = archives \/ archives' = [archives EXCEPT ![Release(p)] = saving[Release(p)]]
    BY <1>5 DEF KeepArchive, Unstages
  <2> QED
    BY <2>1, <1>1 DEF Named, CommonType
<1>6. CASE Settle(p) \/ CheckPresent(p)
  <2>1. UNCHANGED <<tag, archives>> /\ (saving' = saving \/ saving' = [saving EXCEPT ![Release(p)] = None])
    BY <1>6 DEF Settle, CheckPresent, Unstages
  <2> QED
    BY <2>1, <1>1 DEF Named, CommonType
<1>7. CASE UNCHANGED docker
  BY <1>7 DEF Named, docker
<1> QED
  BY <1>2, <1>3, <1>4, <1>5, <1>6, <1>7
     DEF Proceeds, VerifyManifest, CopyContext, Make, RunUnits, StageLock, MoveLock, HashFiles, PlaceManifest,
         CheckImages, Observe, CheckSum, Compare, SourceAgain, CheckDigest, CheckTagged, CheckArchived, Requires

\* What a command sourced stays reviewed, and what it makes is of its release.
LEMMA HistoryStep ==
    ASSUME IInv, History, NEW p \in Shells, Proceeds(p)
    PROVE  History'
<1> OwnType /\ CommonType /\ OneGoesOn(p) /\ Shell(p) /\ Sourced(p) /\ Reviewed(lock)
  BY Types, OneAtATime DEF IInv, History, OneGoesOn, Active
<1>1. \A q \in Shells \ {p} : Active(q)' => Sourced(q)'
  BY StillSourced DEF OneGoesOn, Still, Active
<1>2. ASSUME pc'[p] # "idle" PROVE Sourced(p)'
  <2>1. env'[p] = env[p] /\ kind'[p] = kind[p] /\ Release(p)' = Release(p)
    BY <1>2 DEF OneGoesOn, Release
  <2>2. Reviewed(env[p].lock)'
    BY <2>1 DEF Sourced, Reviewed, OneGoesOn
  <2>3. CASE HashFiles(p) \/ SourceAgain(p)
    <3>1. staged'[p] = Listed /\ Listed.lock = lock
          /\ pc'[p] = (IF HashFiles(p) THEN "place" ELSE "verify")
      BY <2>3, GoesAlone DEF HashFiles, SourceAgain, OwnType, Listed
    <3>2. Listed \in LockFiles
      BY DEF CommonType, Listed, LockFiles
    <3>3. Reviewed(staged[p].lock)'
      BY <3>1 DEF Reviewed, OneGoesOn
    <3> QED
      BY <2>1, <2>2, <2>3, <3>1, <3>2, <3>3 DEF Sourced, HashFiles, SourceAgain, Shell, AtStep
  <2>4. CASE VerifyManifest(p) \/ CheckTagged(p) \/ CheckSum(p) \/ CheckImages(p)
    <3>1. /\ staged' = staged
          /\ \/ pc[p] = "verify" /\ kind[p] = "check" /\ pc'[p] = "digest"
             \/ pc[p] = "tagged" /\ pc'[p] = "archived"
             \/ pc[p] = "sum" /\ pc'[p] = "load"
             \/ pc'[p] \in {"copy", "present"}
      BY <2>4, <1>2, LooksAlone DEF VerifyManifest, CheckTagged, CheckSum, CheckImages, work, Shell, AtStep
    <3> QED
      BY <3>1, <2>1, <2>2 DEF Sourced, Reviewed, OneGoesOn
  <2>5. CASE CheckDigest(p)
    <3>1. staged' = staged /\ pc[p] = "digest" /\ pc'[p] = "tagged"
      BY <2>5, <1>2, GoesAlone, EndsAlone DEF CheckDigest
    <3> QED
      BY <3>1, <2>1, <2>2 DEF Sourced, Reviewed, OneGoesOn
  <2>6. CASE Load(p)
    <3>1. pc[p] = "load" /\ pc'[p] = "compare"
      BY <2>6, <1>2, GoesAlone, EndsAlone DEF Load
    <3> QED
      BY <3>1, <2>1, <2>2 DEF Sourced
  <2>7. CASE TagImage(p) \/ KeepArchive(p)
    <3>1. kind[p] \in {"build", "save"} /\ pc'[p] = "hash"
      BY <2>7, <1>2, GoesAlone, EndsAlone DEF TagImage, KeepArchive, Shell, AtStep
    <3> QED
      BY <3>1, <2>1, <2>2 DEF Sourced
  <2>8. CASE CopyContext(p)
    <3>1. pc'[p] = "make" /\ inputs'[p].release = Release(p)
      BY <2>8, GoesAlone DEF CopyContext, OwnType
    <3> QED
      BY <3>1, <2>1, <2>2 DEF Sourced
  <2>9. CASE Make(p)
    <3>1. pc'[p] = "units" /\ inputs' = inputs /\ made'[p].from = inputs[p] /\ pc[p] = "make" /\ kind[p] = "build"
      BY <2>9, GoesAlone DEF Make, OwnType, Shell, AtStep
    <3> QED
      BY <3>1, <2>1, <2>2 DEF Sourced
  <2>10. CASE RunUnits(p) \/ Settle(p) \/ StageLock(p) \/ MoveLock(p)
    <3>1. pc[p] \in {"units", "settle", "write", "move"} /\ inputs' = inputs /\ made' = made
          /\ pc'[p] \in {"settle", "write", "move", "tag", "keep"}
      BY <2>10, <1>2, GoesAlone, EndsAlone DEF RunUnits, Settle, StageLock, MoveLock, AfterSettle, work
    <3> QED
      BY <3>1, <2>1, <2>2 DEF Sourced
  <2>11. CASE CheckPresent(p) \/ Save(p) \/ Observe(p)
    <3>1. pc'[p] \in {"save", "observe", "settle"} /\ kind[p] = "save"
      BY <2>11, <1>2, GoesAlone, EndsAlone DEF CheckPresent, Save, Observe, Shell, AtStep
    <3> QED
      BY <3>1, <2>1, <2>2 DEF Sourced
  <2>12. CASE PlaceManifest(p) \/ Compare(p) \/ CheckArchived(p)
    BY <2>12, <1>2, EndsAlone DEF PlaceManifest, Compare, CheckArchived
  <2> QED
    BY <2>3, <2>4, <2>5, <2>6, <2>7, <2>8, <2>9, <2>10, <2>11, <2>12 DEF Proceeds
<1> QED
  BY <1>1, <1>2, NamedStep DEF History, Active

-----------------------------------------------------------------------------
\* While no command began beside another, releases only fall behind the files.
LEMMA Numbers ==
    ASSUME IInv
    PROVE  /\ tree.release \in Nat /\ manifest.tree.release \in Nat /\ lock.image.inputs.release \in Nat
           /\ \A p \in Shells : Active(p) => Release(p) \in Nat
<1>1. CommonType /\ \A p \in Shells : Active(p) => env[p] \in Environments
  BY Types DEF IInv, Shell, AtStep, Active
<1> QED
  BY <1>1, ReleasesAssumption DEF CommonType, Trees, LockFiles, Locks, Environments, Release

LEMMA RisingMove ==
    ASSUME IInv, History, NEW p \in Shells, Active(p), Alone(p), Rising(p), MoveLock(p)
    PROVE  Behind' /\ Rising(p)'
<1> OwnType /\ CommonType /\ Shell(p) /\ Sourced(p)
  BY Types DEF IInv, History
<1>1. pc[p] = "move" /\ pc'[p] \in {"tag", "keep"} /\ env' = env /\ manifest' = manifest
      /\ tree'.release = staged[p].release
      /\ lock' = [lock EXCEPT ![Pin(p)] = [identity |-> made[p], inputs |-> inputs[p]]]
  BY GoesAlone DEF MoveLock, AfterSettle, Alone, Replaces, CommonType, Trees
<1>2. Release(p) <= staged[p].release /\ manifest.tree.release <= staged[p].release
      /\ lock.image.inputs.release <= staged[p].release
  BY <1>1 DEF Rising
<1>3. lock'.image.inputs.release \in {lock.image.inputs.release, Release(p)}
  <2>1. CASE kind[p] = "build"
    BY <1>1, <2>1 DEF Sourced, Pin, CommonType, Locks
  <2>2. CASE kind[p] = "save"
    BY <1>1, <2>2 DEF Pin, CommonType, Locks
  <2> QED
    BY <1>1, <2>1, <2>2 DEF Shell, AtStep
<1> QED
  BY <1>1, <1>2, <1>3 DEF Behind, Rising, Release

LEMMA RisingElse ==
    ASSUME IInv, NEW p \in Shells, Active(p), Rising(p), Behind, Proceeds(p), ~MoveLock(p)
    PROVE  Behind' /\ (pc'[p] # "idle" => Rising(p)')
<1> OwnType /\ CommonType /\ OneGoesOn(p) /\ Shell(p)
  BY Types, OneAtATime DEF IInv
<1>1. tree' = tree /\ lock' = lock /\ (manifest' = manifest \/ PlaceManifest(p))
  BY DEF OneGoesOn, Proceeds, VerifyManifest, CopyContext, Make, RunUnits, TagImage, Settle, StageLock,
         HashFiles, PlaceManifest, CheckImages, CheckPresent, Save, Observe, KeepArchive, CheckSum, Load,
         Compare, SourceAgain, CheckDigest, CheckTagged, CheckArchived, Requires, files
<1>2. Behind'
  <2>1. CASE manifest' = manifest
    BY <1>1, <2>1 DEF Behind
  <2>2. CASE PlaceManifest(p)
    BY <1>1, <2>2 DEF PlaceManifest, Behind, Rising
  <2> QED
    BY <1>1, <2>1, <2>2
<1>3. ASSUME pc'[p] # "idle" PROVE Rising(p)'
  <2>1. kind'[p] = kind[p] /\ Release(p)' = Release(p) /\ Release(p) <= tree.release /\ ~PlaceManifest(p)
    BY <1>3, EndsAlone DEF OneGoesOn, Release, Rising, PlaceManifest
  <2>2. CASE StageLock(p)
    <3>1. pc[p] = "write" /\ pc'[p] = "move" /\ staged'[p].release = tree.release
      BY <2>2, GoesAlone DEF StageLock, OwnType
    <3> QED
      BY <3>1, <2>1, <1>1 DEF Rising, Behind
  <2>3. CASE HashFiles(p)
    <3>1. pc'[p] = "place" /\ staged'[p].tree = tree /\ tree.release <= tree.release
      BY <2>3, GoesAlone, Numbers DEF HashFiles, OwnType, Listed
    <3> QED
      BY <3>1, <2>1, <1>1 DEF Rising
  <2>4. ASSUME ~StageLock(p), ~HashFiles(p) PROVE Rising(p)'
    <3>1. /\ pc'[p] \notin {"move", "place"}
          /\ kind[p] = "build" /\ pc'[p] \in {"verify", "copy", "make", "units", "settle", "write"} =>
                pc[p] \in {"verify", "copy", "make", "units", "settle"}
      BY <1>3, <2>4, GoesAlone, EndsAlone, LooksAlone
         DEF Proceeds, VerifyManifest, CopyContext, Make, RunUnits, TagImage, Settle, AfterSettle, PlaceManifest,
             CheckImages, CheckPresent, Save, Observe, KeepArchive, CheckSum, Load, Compare, SourceAgain,
             CheckDigest, CheckTagged, CheckArchived, Shell, AtStep
    <3> QED
      BY <3>1, <2>1, <1>1 DEF Rising
  <2> QED
    BY <2>2, <2>3, <2>4
<1> QED
  BY <1>2, <1>3

LEMMA RisingStep ==
    ASSUME IInv, Company, History, AloneInv, RisingInv, NEW p \in Shells, Proceeds(p)
    PROVE  RisingInv'
<1> SUFFICES ASSUME overlaps' = 0 PROVE Behind' /\ \A q \in Shells : Active(q)' => Rising(q)'
  BY DEF RisingInv
<1>1. OneGoesOn(p)
  BY OneAtATime
<1>2. overlaps = 0 /\ Active(p) /\ \A q \in Shells : Active(q)' => q = p
  BY <1>1 DEF OneGoesOn, Active, Company, Still
<1>3. Alone(p) /\ Rising(p) /\ Behind
  BY <1>2 DEF AloneInv, RisingInv
<1>4. Behind' /\ (pc'[p] # "idle" => Rising(p)')
  BY <1>2, <1>3, RisingMove, RisingElse
<1> QED
  BY <1>2, <1>4 DEF Active

LEMMA RisingBegin ==
    ASSUME IInv, Company, RisingInv, NEW p \in Shells, NEW k \in Kinds, Begin(p, k)
    PROVE  RisingInv'
<1> SUFFICES ASSUME overlaps' = 0 PROVE Behind' /\ \A q \in Shells : Active(q)' => Rising(q)'
  BY DEF RisingInv
<1> OwnType /\ CommonType /\ overlaps \in Nat
  BY Types, BoundsAssumption DEF IInv, CommonType
<1>1. overlaps = 0 /\ \A q \in Shells : ~Active(q)
  BY DEF Begin
<1>2. lock' = lock /\ tree' = tree /\ manifest' = manifest /\ Behind
  BY <1>1 DEF Begin, files, RisingInv
<1>3. pc'[p] = First[k] /\ env'[p].release = tree.release /\ \A q \in Shells \ {p} : pc'[q] = pc[q]
  BY DEF Begin, OwnType
<1>4. First[k] \notin {"move", "place"} /\ tree.release <= tree.release
  BY Numbers DEF First, Kinds
<1>5. Behind' /\ Rising(p)'
  BY <1>2, <1>3, <1>4 DEF Behind, Rising, Release
<1> QED
  BY <1>1, <1>3, <1>5 DEF Active

\* A release that is declared is a later one.
LEMMA Later ==
    ASSUME IInv, Edit \/ Lose \/ UNCHANGED vars
    PROVE  \A n \in Nat : n <= tree.release => n <= tree'.release
<1> CommonType /\ CommonType'
  BY Types, Inductive, PTL DEF IInv, Next
<1>1. tree.release \in Nat /\ tree'.release \in Nat
  BY ReleasesAssumption DEF CommonType, Trees
<1>2. tree.release <= tree'.release
  BY <1>1 DEF Edit, Lose, vars, files, CommonType, Trees
<1> QED
  BY <1>1, <1>2

LEMMA RisingWorld ==
    ASSUME IInv, RisingInv, Edit \/ Lose \/ UNCHANGED vars
    PROVE  RisingInv'
<1>1. UNCHANGED <<pc, kind, env, inputs, staged, lock, manifest, overlaps>>
  BY DEF Edit, Lose, vars, files, command, work, bounds
<1>2. \A n \in Nat : n <= tree.release => n <= tree'.release
  BY Later
<1>3. Behind => Behind'
  BY <1>1, <1>2, Numbers DEF Behind
<1>4. ASSUME NEW p \in Shells, Active(p), Rising(p) PROVE Rising(p)'
  <2>1. Release(p) <= tree'.release
    BY <1>2, <1>4, Numbers DEF Rising
  <2>2. pc[p] = "place" => staged[p].tree.release <= tree'.release
    <3>1. pc[p] = "place" => staged[p].tree.release \in Nat
      BY <1>4, ReleasesAssumption DEF IInv, Shell, AtStep, LockFiles, Trees
    <3> QED
      BY <3>1, <1>2, <1>4 DEF Rising
  <2> QED
    BY <1>1, <1>4, <2>1, <2>2 DEF Rising, Release
<1> QED
  BY <1>1, <1>3, <1>4 DEF RisingInv, Active

LEMMA RisingBreak ==
    ASSUME IInv, Company, RisingInv, NEW p \in Shells, Breaks(p)
    PROVE  RisingInv'
<1> SUFFICES ASSUME overlaps' = 0 PROVE Behind' /\ \A q \in Shells : Active(q)' => Rising(q)'
  BY DEF RisingInv
<1>1. overlaps = 0 /\ Active(p) /\ UNCHANGED files
  BY DEF Breaks
<1>2. \A q \in Shells : ~Active(q)'
  BY <1>1, EndsAlone, Types DEF IInv, Breaks, Company, Active, Still
<1> QED
  BY <1>1, <1>2 DEF RisingInv, Behind, files

-----------------------------------------------------------------------------
\* A command that runs alone finds the pins and files as it left them.
LEMMA AloneBuild ==
    ASSUME IInv, History, NEW p \in Shells, Active(p), Alone(p), ArchiveIsOfItsInputs, pc'[p] # "idle",
           CopyContext(p) \/ Make(p) \/ RunUnits(p) \/ TagImage(p)
    PROVE  ArchiveIsOfItsInputs' /\ Alone(p)'
<1> OwnType /\ CommonType /\ OneGoesOn(p) /\ Shell(p) /\ Sourced(p)
  BY Types, OneAtATime DEF IInv, History, Proceeds
<1>1. kind[p] = "build" /\ env'[p] = env[p] /\ kind'[p] = kind[p] /\ BuildAlone(p)
  BY DEF Alone, Shell, AtStep, CopyContext, Make, RunUnits, TagImage, OneGoesOn
<1>2. lock' = lock /\ manifest' = manifest
  BY DEF CopyContext, Make, RunUnits, TagImage, files
<1>3. CASE CopyContext(p)
  <2>1. pc'[p] = "make" /\ inputs'[p].release = Release(p) /\ pc[p] = "copy"
    BY <1>3, GoesAlone DEF CopyContext, OwnType
  <2> QED
    BY <2>1, <1>1, <1>2 DEF Alone, Replaces, BuildAlone, ArchiveIsOfItsInputs, Release
<1>4. CASE Make(p) \/ RunUnits(p)
  <2>1. pc'[p] \in {"units", "settle"} /\ inputs' = inputs /\ pc[p] \in {"make", "units"}
    BY <1>4, GoesAlone DEF Make, RunUnits, work
  <2> QED
    BY <2>1, <1>1, <1>2 DEF Alone, Replaces, BuildAlone, ArchiveIsOfItsInputs, Release
<1>5. CASE TagImage(p)
  <2>1. pc'[p] = "hash"
    BY <1>5, GoesAlone, EndsAlone DEF TagImage
  <2> QED
    BY <2>1, <1>1, <1>2 DEF Alone, Replaces, BuildAlone, ArchiveIsOfItsInputs, Release
<1> QED
  BY <1>3, <1>4, <1>5

LEMMA AlonePin ==
    ASSUME IInv, History, NEW p \in Shells, Active(p), Alone(p), ArchiveIsOfItsInputs, pc'[p] # "idle",
           Settle(p) \/ StageLock(p) \/ MoveLock(p)
    PROVE  ArchiveIsOfItsInputs' /\ Alone(p)'
<1> OwnType /\ CommonType /\ OneGoesOn(p) /\ Shell(p) /\ Sourced(p)
  BY Types, OneAtATime DEF IInv, History, Proceeds
<1>1. kind[p] \in {"build", "save"} /\ env'[p] = env[p] /\ kind'[p] = kind[p] /\ Replaces(p)
      /\ (kind[p] = "build" => BuildAlone(p)) /\ (kind[p] = "save" => SaveAlone(p))
      /\ manifest' = manifest /\ inputs' = inputs /\ made' = made /\ saving' = saving
  BY EndsAlone DEF Alone, Shell, AtStep, Settle, StageLock, MoveLock, OneGoesOn, files, docker, work
<1>2. CASE Settle(p)
  <2>1. lock' = lock /\ pc[p] = "settle"
    BY <1>2 DEF Settle, files
  <2>2. CASE pc'[p] = "write"
    <3>1. inputs[p] # lock[Pin(p)].inputs
      BY <1>2, <2>2, GoesAlone, EndsAlone DEF Settle, AfterSettle
    <3> QED
      BY <3>1, <2>1, <2>2, <1>1 DEF Alone, Replaces, BuildAlone, SaveAlone, ArchiveIsOfItsInputs, Release, Pin
  <2>3. CASE pc'[p] = AfterSettle(p) /\ made[p] = lock[Pin(p)].identity
    <3>1. CASE kind[p] = "build"
      BY <3>1, <2>1, <2>3, <1>1 DEF Alone, Replaces, BuildAlone, ArchiveIsOfItsInputs, AfterSettle
    <3>2. CASE kind[p] = "save"
      BY <3>2, <2>1, <2>3, <1>1 DEF Alone, Replaces, SaveAlone, ArchiveIsOfItsInputs, AfterSettle, Pin, Release
    <3> QED
      BY <1>1, <3>1, <3>2
  <2> QED
    BY <1>2, <2>2, <2>3, GoesAlone, EndsAlone DEF Settle
<1>3. CASE StageLock(p)
  <2>1. lock' = lock /\ pc[p] = "write" /\ pc'[p] = "move"
        /\ staged'[p].lock = [lock EXCEPT ![Pin(p)] = [identity |-> made[p], inputs |-> inputs[p]]]
    BY <1>3, GoesAlone DEF StageLock, files, OwnType
  <2> QED
    BY <2>1, <1>1 DEF Alone, Replaces, BuildAlone, SaveAlone, ArchiveIsOfItsInputs, Release, Pin
<1>4. CASE MoveLock(p)
  <2>1. lock' = [lock EXCEPT ![Pin(p)] = [identity |-> made[p], inputs |-> inputs[p]]]
        /\ pc[p] = "move" /\ pc'[p] = AfterSettle(p) /\ lock \in Locks
    BY <1>1, <1>4, GoesAlone DEF MoveLock, Replaces, CommonType
  <2>2. CASE kind[p] = "build"
    <3>1. lock'.archive = lock.archive
      BY <2>1, <2>2 DEF Pin, Locks
    <3> QED
      BY <3>1, <2>1, <2>2, <1>1 DEF Alone, Replaces, BuildAlone, ArchiveIsOfItsInputs, AfterSettle
  <2>3. CASE kind[p] = "save"
    <3>1. lock'.archive = [identity |-> made[p], inputs |-> inputs[p]] /\ lock'.image = lock.image
      BY <2>1, <2>3 DEF Pin, Locks
    <3>2. made[p].from = inputs[p] /\ inputs[p].image = lock.image.identity
      BY <2>1, <2>3, <1>1 DEF SaveAlone
    <3> QED
      BY <3>1, <3>2, <2>1, <2>3, <1>1 DEF Alone, Replaces, SaveAlone, ArchiveIsOfItsInputs, AfterSettle, Release
  <2> QED
    BY <1>1, <2>2, <2>3
<1> QED
  BY <1>2, <1>3, <1>4

LEMMA AloneSave ==
    ASSUME IInv, History, NEW p \in Shells, Active(p), Alone(p), ArchiveIsOfItsInputs, pc'[p] # "idle",
           CheckImages(p) \/ CheckPresent(p) \/ Save(p) \/ Observe(p) \/ KeepArchive(p)
    PROVE  ArchiveIsOfItsInputs' /\ Alone(p)'
<1> OwnType /\ CommonType /\ OneGoesOn(p) /\ Shell(p) /\ Sourced(p)
  BY Types, OneAtATime DEF IInv, History, Proceeds
<1>1. kind[p] = "save" /\ env'[p] = env[p] /\ kind'[p] = kind[p] /\ SaveAlone(p)
      /\ Release(p) \in Releases
  BY DEF Alone, Shell, AtStep, CheckImages, CheckPresent, Save, Observe, KeepArchive, OneGoesOn, Requires,
         Release, Environments
<1>2. lock' = lock /\ tag' = tag
  BY LooksAlone DEF CheckImages, CheckPresent, Save, Observe, KeepArchive, files, docker
<1>3. CASE CheckImages(p)
  <2>1. pc'[p] = "present" /\ pc[p] = "images" /\ tag[Release(p)] = env[p].lock.image.identity
    BY <1>3, GoesAlone, EndsAlone DEF CheckImages, Requires
  <2> QED
    BY <2>1, <1>1, <1>2 DEF Alone, Replaces, SaveAlone, ArchiveIsOfItsInputs, Release
<1>4. CASE CheckPresent(p)
  <2>1. pc'[p] = "save" /\ pc[p] = "present"
        /\ inputs'[p] = [release |-> Release(p), image |-> env[p].lock.image.identity]
    BY <1>4, GoesAlone, EndsAlone DEF CheckPresent, OwnType
  <2> QED
    BY <2>1, <1>1, <1>2 DEF Alone, Replaces, SaveAlone, ArchiveIsOfItsInputs, Release
<1>5. CASE Save(p)
  <2>1. pc'[p] = "observe" /\ pc[p] = "save" /\ inputs' = inputs /\ tag[Release(p)] # None
    BY <1>5, GoesAlone, EndsAlone DEF Save, work
  <2>2. saving'[Release(p)].from = [release |-> Release(p), image |-> tag[Release(p)]]
    BY <1>1, <1>5, <2>1, EndsAlone DEF Save, CommonType
  <2>3. tag[Release(p)] = lock.image.identity
    BY <2>1, <1>1 DEF SaveAlone
  <2> QED
    BY <2>1, <2>2, <2>3, <1>1, <1>2 DEF Alone, Replaces, SaveAlone, ArchiveIsOfItsInputs, Release
<1>6. CASE Observe(p)
  <2>1. pc'[p] = "settle" /\ pc[p] = "observe" /\ inputs' = inputs /\ saving' = saving
        /\ made'[p] = saving[Release(p)]
    BY <1>6, GoesAlone, EndsAlone DEF Observe, OwnType, docker
  <2> QED
    BY <2>1, <1>1, <1>2 DEF Alone, Replaces, SaveAlone, ArchiveIsOfItsInputs, Release
<1>7. CASE KeepArchive(p)
  <2>1. made[p] # None /\ saving[Release(p)] = made[p]
    BY <1>1, <1>7, NoneAssumption DEF KeepArchive, Shell, Produced, SaveAlone
  <2>2. pc'[p] = "hash" /\ pc[p] = "keep" /\ archives'[Release(p)] = made[p]
    BY <1>1, <1>7, <2>1, GoesAlone, EndsAlone DEF KeepArchive, CommonType
  <2> QED
    BY <2>2, <1>1, <1>2 DEF Alone, Replaces, SaveAlone, ArchiveIsOfItsInputs, Release
<1> QED
  BY <1>3, <1>4, <1>5, <1>6, <1>7

LEMMA AloneElse ==
    ASSUME IInv, History, NEW p \in Shells, Active(p), Alone(p), ArchiveIsOfItsInputs, pc'[p] # "idle",
           \/ VerifyManifest(p) \/ HashFiles(p) \/ PlaceManifest(p) \/ CheckSum(p) \/ Load(p) \/ Compare(p)
           \/ SourceAgain(p) \/ CheckDigest(p) \/ CheckTagged(p) \/ CheckArchived(p)
    PROVE  ArchiveIsOfItsInputs' /\ Alone(p)'
<1> OwnType /\ CommonType /\ OneGoesOn(p) /\ Shell(p) /\ Sourced(p) /\ Reviewed(lock)
  BY Types, OneAtATime DEF IInv, History, Proceeds
<1>1. env'[p] = env[p] /\ kind'[p] = kind[p]
  BY DEF OneGoesOn
<1>2. lock' = lock /\ archives' = archives /\ faults' = faults
  BY LooksAlone DEF VerifyManifest, HashFiles, PlaceManifest, CheckSum, Load, Compare, SourceAgain,
     CheckDigest, CheckTagged, CheckArchived, files, docker, OneGoesOn
<1>3. ~PlaceManifest(p) /\ ~Compare(p) /\ ~CheckArchived(p)
  BY EndsAlone DEF PlaceManifest, Compare, CheckArchived
<1>4. CASE VerifyManifest(p)
  <2>1. /\ pc[p] = "verify" /\ manifest = Listed /\ staged' = staged /\ manifest' = manifest
        /\ \/ kind[p] = "build" /\ pc'[p] = "copy"
           \/ kind[p] = "check" /\ pc'[p] = "digest"
    BY <1>4, GoesAlone, EndsAlone DEF VerifyManifest, Requires, work, files, Shell, AtStep
  <2> QED
    BY <2>1, <1>1, <1>2 DEF Alone, Replaces, CheckAlone, BuildAlone, ArchiveIsOfItsInputs, Release, Listed
<1>5. CASE HashFiles(p)
  <2>1. pc[p] = "hash" /\ pc'[p] = "place" /\ staged'[p].lock = lock /\ kind[p] # "check"
    BY <1>5, GoesAlone DEF HashFiles, OwnType, Listed, Sourced
  <2> QED
    BY <2>1, <1>1, <1>2 DEF Alone, Replaces, BuildAlone, SaveAlone, ArchiveIsOfItsInputs, Release
<1>6. CASE CheckSum(p) \/ Load(p)
  <2>1. kind[p] = "restore" /\ pc'[p] \in {"load", "compare"}
    BY <1>6, LooksAlone, GoesAlone, EndsAlone DEF CheckSum, Load, Sourced, Requires
  <2> QED
    BY <2>1, <1>1, <1>2 DEF Alone, Replaces, ArchiveIsOfItsInputs
<1>7. CASE SourceAgain(p) \/ CheckDigest(p) \/ CheckTagged(p)
  <2>1. kind[p] = "check" /\ pc'[p] \in {"verify", "tagged", "archived"} /\ manifest' = manifest
    BY <1>7, LooksAlone, GoesAlone, EndsAlone
       DEF SourceAgain, CheckDigest, CheckTagged, Sourced, Requires, Shell, AtStep, files
  <2>2. staged'[p].lock = lock
    <3>1. CASE SourceAgain(p)
      BY <3>1 DEF SourceAgain, OwnType, Listed
    <3>2. CASE CheckDigest(p)
      BY <2>1, <3>2, EndsAlone, <1>1 DEF CheckDigest, Alone, CheckAlone
    <3>3. CASE CheckTagged(p)
      BY <2>1, <3>3, LooksAlone, <1>1 DEF CheckTagged, Alone, CheckAlone, work
    <3> QED
      BY <1>7, <3>1, <3>2, <3>3
  <2> QED
    BY <2>1, <2>2, <1>1, <1>2 DEF Alone, Replaces, CheckAlone, ArchiveIsOfItsInputs, Release
<1> QED
  BY <1>3, <1>4, <1>5, <1>6, <1>7

LEMMA AloneStep ==
    ASSUME IInv, Company, History, AloneInv, NEW p \in Shells, Proceeds(p)
    PROVE  AloneInv'
<1> SUFFICES ASSUME overlaps' = 0 PROVE ArchiveIsOfItsInputs' /\ \A q \in Shells : Active(q)' => Alone(q)'
  BY DEF AloneInv
<1>1. OneGoesOn(p)
  BY OneAtATime
<1>2. overlaps = 0 /\ Active(p) /\ \A q \in Shells : Active(q)' => q = p
  BY <1>1 DEF OneGoesOn, Active, Company, Still
<1>3. Alone(p) /\ ArchiveIsOfItsInputs
  BY <1>2 DEF AloneInv
<1>4. CASE pc'[p] # "idle"
  BY <1>2, <1>3, <1>4, AloneBuild, AlonePin, AloneSave, AloneElse DEF Proceeds
<1>5. CASE pc'[p] = "idle"
  <2>1. ~MoveLock(p)
    BY <1>5, GoesAlone, Types DEF MoveLock, AfterSettle, IInv
  <2>2. lock' = lock
    BY <2>1 DEF Proceeds, VerifyManifest, CopyContext, Make, RunUnits, TagImage, Settle, StageLock,
           HashFiles, PlaceManifest, CheckImages, CheckPresent, Save, Observe, KeepArchive, CheckSum, Load,
           Compare, SourceAgain, CheckDigest, CheckTagged, CheckArchived, Requires, files
  <2> QED
    BY <2>2, <1>2, <1>3, <1>5 DEF ArchiveIsOfItsInputs, Active
<1> QED
  BY <1>4, <1>5

LEMMA AloneBegin ==
    ASSUME IInv, Company, RisingInv, AloneInv, NEW p \in Shells, NEW k \in Kinds, Begin(p, k)
    PROVE  AloneInv'
<1> SUFFICES ASSUME overlaps' = 0 PROVE ArchiveIsOfItsInputs' /\ \A q \in Shells : Active(q)' => Alone(q)'
  BY DEF AloneInv
<1> OwnType /\ CommonType /\ overlaps \in Nat
  BY Types, BoundsAssumption DEF IInv, CommonType
<1>1. overlaps = 0 /\ \A q \in Shells : ~Active(q)
  BY DEF Begin
<1>2. lock' = lock /\ tree' = tree /\ manifest' = manifest
  BY DEF Begin, files
<1>3. pc'[p] = First[k] /\ kind'[p] = k /\ env'[p] = [lock |-> lock, release |-> tree.release]
      /\ \A q \in Shells \ {p} : pc'[q] = pc[q]
  BY DEF Begin, OwnType
<1>4. ArchiveIsOfItsInputs'
  BY <1>1, <1>2 DEF AloneInv, ArchiveIsOfItsInputs
<1>5. Alone(p)'
  BY <1>1, <1>2, <1>3 DEF Alone, Replaces, CheckAlone, BuildAlone, SaveAlone, First, Kinds, Release, RisingInv, Behind
<1> QED
  BY <1>1, <1>3, <1>4, <1>5 DEF Active

\* Nor does what else happens take anything from it, except by a loss.
LEMMA AloneWorld ==
    ASSUME IInv, AloneInv, Edit \/ Lose \/ UNCHANGED vars
    PROVE  AloneInv'
<1> OwnType /\ CommonType
  BY Types DEF IInv
<1>1. UNCHANGED <<pc, kind, env, inputs, made, staged, lock, manifest, saving, overlaps>>
  BY DEF Edit, Lose, vars, files, docker, command, work, bounds
<1>2. /\ \A r \in Releases : tag'[r] = tag[r] \/ tag'[r] = None
      /\ \A r \in Releases : archives'[r] = archives[r] \/ (archives'[r] = None /\ faults' > 0)
      /\ faults > 0 => faults' > 0
  BY BoundsAssumption DEF Edit, Lose, vars, docker, bounds, CommonType
<1>3. ASSUME NEW p \in Shells, Active(p), Alone(p) PROVE Alone(p)'
  <2>1. Release(p) \in Releases /\ Release(p)' = Release(p)
    BY <1>1, <1>3 DEF IInv, Shell, AtStep, Active, Environments, Release
  <2>2. Replaces(p)' /\ (kind[p] = "check" => CheckAlone(p)') /\ (kind[p] = "build" => BuildAlone(p)')
    BY <1>1, <1>3 DEF Alone, Replaces, CheckAlone, BuildAlone, Release, Pin
  <2>3. ASSUME kind[p] = "save" PROVE SaveAlone(p)'
    <3>1. pc[p] \in {"present", "save"} => tag'[Release(p)] \in {lock.image.identity, None}
      BY <1>2, <1>3, <2>1, <2>3 DEF Alone, SaveAlone
    <3>2. pc[p] \in {"hash", "place"} => \/ archives'[Release(p)] = lock.archive.identity
                                         \/ archives'[Release(p)] = None /\ faults' > 0
      BY <1>2, <1>3, <2>1, <2>3 DEF Alone, SaveAlone
    <3> QED
      BY <3>1, <3>2, <1>1, <1>3, <2>1, <2>3 DEF Alone, SaveAlone
  <2> QED
    BY <1>1, <2>2, <2>3 DEF Alone
<1> QED
  BY <1>1, <1>3 DEF AloneInv, ArchiveIsOfItsInputs, Active

LEMMA AloneBreak ==
    ASSUME IInv, Company, AloneInv, NEW p \in Shells, Breaks(p)
    PROVE  AloneInv'
<1> SUFFICES ASSUME overlaps' = 0 PROVE ArchiveIsOfItsInputs' /\ \A q \in Shells : Active(q)' => Alone(q)'
  BY DEF AloneInv
<1>1. overlaps = 0 /\ Active(p) /\ lock' = lock
  BY DEF Breaks, files
<1>2. \A q \in Shells : ~Active(q)'
  BY <1>1, EndsAlone, Types DEF IInv, Breaks, Company, Active, Still
<1> QED
  BY <1>1, <1>2 DEF AloneInv, ArchiveIsOfItsInputs

-----------------------------------------------------------------------------
\* A check and the one command beside it.

\* A step that leaves the files and the tags alone matters to the command that
\* makes it, as the check or beside one.
LEMMA QuietStep ==
    ASSUME IInv, Company, BesideInv, NEW p \in Shells, OneGoesOn(p), UNCHANGED <<tree, lock, manifest, tag>>,
           overlaps <= 1 /\ pc'[p] # "idle" /\ kind[p] = "check" /\ Checked(p) => Checked(p)',
           overlaps <= 1 /\ pc'[p] # "idle" =>
              \A c \in Shells \ {p} : Still(c) /\ Active(c) /\ kind[c] = "check" /\ Beside(c, p) => Beside(c, p)'
    PROVE  BesideInv'
<1> SUFFICES ASSUME overlaps' <= 1, NEW c \in Shells, Active(c)', kind'[c] = "check"
             PROVE  Checked(c)' /\ \A q \in Shells \ {c} : Active(q)' => Beside(c, q)'
  BY DEF BesideInv
<1>1. overlaps <= 1 /\ Active(p) /\ Active(c) /\ kind[c] = "check"
      /\ \A q \in Shells : Active(q)' => Active(q)
  BY DEF OneGoesOn, Still, Active
<1>2. Checked(c) /\ \A q \in Shells \ {c} : Active(q) => Beside(c, q)
  BY <1>1 DEF BesideInv
<1>3. CASE c = p
  <2>1. Checked(c)'
    BY <1>1, <1>2, <1>3 DEF Active
  <2>2. ASSUME NEW q \in Shells \ {c}, Active(q)' PROVE Beside(c, q)'
    <3>1. Still(q) /\ env'[c] = env[c] /\ Beside(c, q)
      BY <1>1, <1>2, <1>3, <2>2 DEF OneGoesOn, Active
    <3> QED
      BY <3>1 DEF Beside, BuildBeside, Still, Old, Unlisted, Release
  <2> QED
    BY <2>1, <2>2
<1>4. CASE c # p
  <2>1. Still(c)
    BY <1>4 DEF OneGoesOn
  <2>2. Checked(c)'
    BY <1>2, <2>1 DEF Checked, Still, Old, New, Unlisted, Tagged, Release
  <2>3. ASSUME NEW q \in Shells \ {c}, Active(q)' PROVE Beside(c, q)'
    <3>1. q = p
      BY <1>1, <1>4, <2>3, AtMostTwo
    <3> QED
      BY <1>1, <1>2, <1>4, <2>1, <2>3, <3>1 DEF Active
  <2> QED
    BY <2>2, <2>3
<1> QED
  BY <1>3, <1>4

\* A step of the command beside a check, which moves what the check looks at.
LEMMA LoudStep ==
    ASSUME IInv, Company, BesideInv, NEW p \in Shells, OneGoesOn(p), kind[p] # "check",
           overlaps <= 1 => \A c \in Shells \ {p} :
              Still(c) /\ Active(c) /\ kind[c] = "check" /\ Checked(c) /\ Beside(c, p) =>
                 Checked(c)' /\ (pc'[p] # "idle" => Beside(c, p)')
    PROVE  BesideInv'
<1> SUFFICES ASSUME overlaps' <= 1, NEW c \in Shells, Active(c)', kind'[c] = "check"
             PROVE  Checked(c)' /\ \A q \in Shells \ {c} : Active(q)' => Beside(c, q)'
  BY DEF BesideInv
<1>1. c # p
  BY DEF OneGoesOn, Active
<1>2. overlaps <= 1 /\ Active(p) /\ Active(c) /\ kind[c] = "check" /\ Still(c)
      /\ \A q \in Shells : Active(q)' => Active(q)
  BY <1>1 DEF OneGoesOn, Still, Active
<1>3. Checked(c) /\ Beside(c, p)
  BY <1>1, <1>2 DEF BesideInv
<1>4. Checked(c)' /\ (pc'[p] # "idle" => Beside(c, p)')
  BY <1>1, <1>2, <1>3
<1>5. ASSUME NEW q \in Shells \ {c}, Active(q)' PROVE q = p
  BY <1>1, <1>2, <1>5, AtMostTwo
<1> QED
  BY <1>4, <1>5 DEF Active

\* The check itself.
LEMMA BesideChecks ==
    ASSUME IInv, Company, History, BesideInv, NEW p \in Shells,
           SourceAgain(p) \/ CheckDigest(p) \/ CheckTagged(p) \/ CheckArchived(p)
    PROVE  BesideInv'
<1> OwnType /\ CommonType /\ OneGoesOn(p) /\ Shell(p) /\ Reviewed(lock)
  BY Types, OneAtATime DEF IInv, Proceeds
<1>1. Sourced(p) /\ pc[p] \in {"source", "digest", "tagged", "archived"} /\ kind[p] = "check"
  BY DEF History, Active, OneGoesOn, SourceAgain, CheckDigest, CheckTagged, CheckArchived, Requires,
         Sourced, Shell, AtStep
<1>2. UNCHANGED <<tree, lock, manifest, tag>>
  BY DEF SourceAgain, CheckDigest, CheckTagged, CheckArchived, Requires, files, docker
<1>3. ASSUME NEW c \in Shells \ {p}, Still(c), Beside(c, p), pc'[p] # "idle" PROVE Beside(c, p)'
  <2>1. pc'[p] # "move" /\ kind'[p] = kind[p]
    BY <1>3, GoesAlone, EndsAlone DEF SourceAgain, CheckDigest, CheckTagged, CheckArchived, Requires, OneGoesOn
  <2> QED
    BY <1>1, <1>2, <1>3, <2>1 DEF Beside, Old, Still
<1>4. ASSUME Checked(p), pc'[p] # "idle" PROVE Checked(p)'
  <2>1. env'[p] = env[p] /\ Release(p)' = Release(p)
    BY <1>4 DEF OneGoesOn, Release
  <2>2. CASE SourceAgain(p)
    <3>1. pc'[p] = "verify" /\ staged'[p].lock = lock
      BY <2>2, GoesAlone DEF SourceAgain, OwnType, Listed
    <3> QED
      BY <3>1, <2>1, <1>2, <1>4 DEF Checked, Old, New, Unlisted, Tagged
  <2>3. CASE CheckDigest(p)
    <3>1. pc'[p] = "tagged" /\ staged' = staged /\ inputs'[p] = staged[p].lock.image.inputs /\ pc[p] = "digest"
      BY <2>3, <1>4, GoesAlone, EndsAlone DEF CheckDigest, OwnType
    <3> QED
      BY <3>1, <2>1, <1>2, <1>4 DEF Checked, Old, New, Unlisted, Tagged
  <2>4. CASE CheckTagged(p)
    <3>1. pc'[p] = "archived" /\ staged' = staged /\ inputs' = inputs /\ pc[p] = "tagged"
          /\ tag[Release(p)] = env[p].lock.image.identity
      BY <2>4, <1>4, GoesAlone, EndsAlone DEF CheckTagged, Requires, work
    <3>2. ASSUME staged[p].lock.image # env[p].lock.image PROVE FALSE
      <4>1. New(p) /\ Tagged(p)
        BY <3>1, <3>2, <1>4 DEF Checked
      <4>2. env[p].lock.image.identity # None /\ Release(p) \in Releases
        BY <1>1, NoneAssumption DEF Shell, AtStep, Environments, Locks, Release
      <4>3. env[p].lock.image.inputs.release = Release(p)
        BY <3>1, <4>2, <1>1 DEF Sourced, Reviewed, History, Named
      <4>4. lock.image.inputs.release = Release(p)
        <5>1. Release(p) <= lock.image.inputs.release /\ lock.image.inputs.release <= Release(p)
          BY <4>1, <4>3 DEF New
        <5> QED
          BY <5>1, <1>1, Numbers DEF Active
      <4>5. lock.image.identity = env[p].lock.image.identity
        BY <3>1, <4>1, <4>2, <4>4 DEF Tagged
      <4> QED
        BY <4>1, <4>5, <1>1 DEF New, Sourced, Reviewed
    <3> QED
      BY <3>1, <3>2, <2>1, <1>2, <1>4 DEF Checked, Old, New, Unlisted, Tagged
  <2>5. CASE CheckArchived(p)
    BY <2>5, <1>4, EndsAlone DEF CheckArchived
  <2> QED
    BY <2>2, <2>3, <2>4, <2>5
<1> QED
  BY <1>2, <1>3, <1>4, QuietStep

\* A step of a build that only the build sees.
LEMMA BesideQuietBuild ==
    ASSUME IInv, Company, History, BesideInv, NEW p \in Shells,
           VerifyManifest(p) \/ CopyContext(p) \/ Make(p) \/ RunUnits(p)
    PROVE  BesideInv'
<1> OwnType /\ CommonType /\ OneGoesOn(p) /\ Shell(p)
  BY Types, OneAtATime DEF IInv, Proceeds
<1>1. Sourced(p) /\ kind[p] \in {"build", "check"} /\ (~VerifyManifest(p) => kind[p] = "build")
  BY DEF History, Active, OneGoesOn, VerifyManifest, CopyContext, Make, RunUnits, Requires, Shell, AtStep
<1>2. UNCHANGED <<tree, lock, manifest, tag>> /\ tree.release \in Nat /\ Release(p) \in Nat
  BY ReleasesAssumption DEF VerifyManifest, CopyContext, Make, RunUnits, Requires, files, docker, CommonType, Trees,
     Shell, AtStep, OneGoesOn, Environments, Release
<1>3. ASSUME kind[p] = "check", Checked(p), pc'[p] # "idle" PROVE Checked(p)'
  <2>1. pc[p] = "verify" /\ pc'[p] = "digest" /\ manifest = Listed /\ UNCHANGED work /\ env'[p] = env[p]
    BY <1>1, <1>3, GoesAlone, EndsAlone DEF VerifyManifest, Requires, OneGoesOn
  <2>2. manifest.lock = lock /\ Release(p)' = Release(p)
    BY <2>1 DEF Listed, Release
  <2> QED
    BY <1>2, <1>3, <2>1, <2>2 DEF Checked, Old, New, Unlisted, Tagged, work
<1>4. ASSUME NEW c \in Shells \ {p}, Still(c), Active(c), Beside(c, p), pc'[p] # "idle" PROVE Beside(c, p)'
  <2>1. kind'[p] = kind[p] /\ env'[p] = env[p] /\ Release(p)' = Release(p) /\ Release(c)' = Release(c)
        /\ Release(c) \in Nat
    BY <1>4, ReleasesAssumption DEF OneGoesOn, Release, Still, IInv, Shell, AtStep, Environments, Active
  <2>2. CASE VerifyManifest(p)
    <3>1. pc[p] = "verify" /\ pc'[p] \in {"copy", "digest"} /\ manifest = Listed
      BY <2>2, <1>4, GoesAlone, EndsAlone DEF VerifyManifest, Requires
    <3>2. CASE kind[p] = "build"
      <4>1. Old(c) /\ tree.release <= Release(c) /\ manifest.lock = lock /\ Release(p) <= tree.release
        BY <3>1, <3>2, <1>4 DEF Beside, BuildBeside, Listed
      <4>2. Release(p) <= Release(c)
        BY <4>1, <1>2, <2>1
      <4> QED
        BY <3>2, <4>1, <4>2, <1>2, <1>4, <2>1, <3>1, <2>2, GoesAlone, EndsAlone
           DEF Beside, BuildBeside, Old, Still, VerifyManifest, Requires
    <3>3. CASE kind[p] # "build"
      BY <3>1, <3>3, <1>2, <1>4, <2>1 DEF Beside, Old, Still
    <3> QED
      BY <3>2, <3>3
  <2>3. CASE CopyContext(p)
    <3>1. pc[p] = "copy" /\ pc'[p] = "make" /\ inputs'[p].release = Release(p)
      BY <2>3, GoesAlone DEF CopyContext, OwnType
    <3> QED
      BY <2>3, <3>1, <1>1, <1>2, <1>4, <2>1 DEF Beside, BuildBeside, Old, Still, CopyContext
  <2>4. CASE Make(p) \/ RunUnits(p)
    <3>1. pc[p] \in {"make", "units"} /\ pc'[p] \in {"units", "settle"} /\ inputs' = inputs
          /\ kind[p] = "build"
      BY <2>4, <1>1, GoesAlone DEF Make, RunUnits, work, Shell, AtStep
    <3> QED
      BY <3>1, <1>2, <1>4, <2>1 DEF Beside, BuildBeside, Old, Still
  <2> QED
    BY <2>2, <2>3, <2>4 DEF VerifyManifest, CopyContext, Make, RunUnits
<1> QED
  BY <1>2, <1>3, <1>4, QuietStep

\* A step of any other command that leaves the files and the tags alone.
LEMMA BesideQuiet ==
    ASSUME IInv, Company, History, BesideInv, NEW p \in Shells,
           \/ Settle(p) \/ StageLock(p) \/ HashFiles(p)
           \/ CheckImages(p) \/ CheckPresent(p) \/ Save(p) \/ Observe(p) \/ KeepArchive(p) \/ CheckSum(p) \/ Compare(p)
    PROVE  BesideInv'
<1> OwnType /\ CommonType /\ OneGoesOn(p) /\ Shell(p)
  BY Types, OneAtATime DEF IInv, Proceeds
<1>1. Sourced(p) /\ kind[p] # "check"
  <2>1. Sourced(p)
    BY DEF History, Active, OneGoesOn
  <2> QED
    BY <2>1 DEF Settle, StageLock, HashFiles, CheckImages, CheckPresent, Save, Observe, KeepArchive, CheckSum, Compare,
       Requires, Shell, AtStep, Sourced
<1>2. UNCHANGED <<tree, lock, manifest, tag>>
  BY DEF Settle, StageLock, HashFiles, CheckImages, CheckPresent, Save, Observe, KeepArchive, CheckSum, Compare,
     Requires, files, docker
<1>3. ASSUME NEW c \in Shells \ {p}, Still(c), Active(c), Beside(c, p), pc'[p] # "idle" PROVE Beside(c, p)'
  <2>1. kind'[p] = kind[p] /\ env'[p] = env[p] /\ Release(p)' = Release(p) /\ Release(c)' = Release(c)
    BY <1>3 DEF OneGoesOn, Release, Still
  <2>2. CASE kind[p] = "build"
    <3>1. Settle(p) \/ StageLock(p) \/ HashFiles(p)
      BY <1>1, <1>3, <2>2, EndsAlone DEF CheckImages, CheckPresent, Save, Observe, KeepArchive, CheckSum, Compare, Requires, Shell, AtStep, Sourced,
         Settle, StageLock, HashFiles
    <3>2. Pin(p) = "image"
      BY <2>2 DEF Pin
    <3>3. CASE Settle(p)
      <4>1. pc[p] = "settle" /\ inputs' = inputs /\ (pc'[p] = "tag" \/ (pc'[p] = "write" /\ inputs[p] # lock.image.inputs))
        BY <3>3, <3>2, <2>2, <1>3, GoesAlone, EndsAlone DEF Settle, AfterSettle, work
      <4> QED
        BY <4>1, <2>1, <2>2, <1>2, <1>3 DEF Beside, BuildBeside, Old, Still
    <3>4. CASE StageLock(p)
      <4>1. pc[p] = "write" /\ inputs' = inputs /\ made' = made /\ pc'[p] = "move"
            /\ staged'[p].lock.image = [identity |-> made[p], inputs |-> inputs[p]]
        BY <3>4, <3>2, GoesAlone DEF StageLock, OwnType, CommonType, Locks
      <4> QED
        BY <4>1, <2>1, <2>2, <1>2, <1>3 DEF Beside, BuildBeside, Old, Still
    <3>5. CASE HashFiles(p)
      <4>1. pc[p] = "hash" /\ pc'[p] = "place" /\ staged'[p].lock = lock
        BY <3>5, GoesAlone DEF HashFiles, OwnType, Listed
      <4> QED
        BY <4>1, <2>1, <2>2, <1>2, <1>3 DEF Beside, BuildBeside, Old, Still, Unlisted
    <3> QED
      BY <3>1, <3>3, <3>4, <3>5
  <2>3. CASE kind[p] # "build"
    <3>1. ASSUME pc'[p] = "move" PROVE staged'[p].lock.image = lock.image
      <4>1. StageLock(p)
        BY <3>1, GoesAlone, EndsAlone DEF Settle, StageLock, HashFiles, CheckImages, CheckPresent, Save, Observe, KeepArchive,
           CheckSum, Compare, Requires, AfterSettle
      <4>2. Pin(p) = "archive"
        BY <2>3 DEF Pin
      <4> QED
        BY <4>1, <4>2 DEF StageLock, OwnType, CommonType, Locks
    <3> QED
      BY <2>1, <2>3, <3>1, <1>2, <1>3 DEF Beside, Old, Still
  <2> QED
    BY <2>2, <2>3
<1> QED
  BY <1>1, <1>2, <1>3, QuietStep

\* The steps that move the pin, the manifest and the tags, in the order of a
\* build: the pin first, then the tag, the manifest last.
LEMMA BesideLoud ==
    ASSUME IInv, Company, History, BesideInv, NEW p \in Shells,
           MoveLock(p) \/ TagImage(p) \/ PlaceManifest(p) \/ Load(p)
    PROVE  BesideInv'
<1> OwnType /\ CommonType /\ OneGoesOn(p) /\ Shell(p)
  BY Types, OneAtATime DEF IInv, Proceeds
<1>1. Sourced(p) /\ kind[p] # "check"
  <2>1. Sourced(p)
    BY DEF History, Active, OneGoesOn
  <2> QED
    BY <2>1 DEF MoveLock, TagImage, PlaceManifest, Load, Shell, AtStep, Sourced
<1>2. ASSUME NEW c \in Shells \ {p}, Still(c), Active(c), Checked(c), Beside(c, p)
      PROVE  Checked(c)' /\ (pc'[p] # "idle" => Beside(c, p)')
  <2>1. /\ Release(c)' = Release(c) /\ env'[c] = env[c] /\ Release(c) \in Releases
        /\ pc'[p] # "idle" => kind'[p] = kind[p] /\ Release(p)' = Release(p)
    BY <1>2 DEF OneGoesOn, Release, Still, IInv, Shell, AtStep, Environments, Active
  <2>2. CASE MoveLock(p) /\ kind[p] = "build"
    <3>1. /\ pc[p] = "move" /\ pc'[p] = "tag" /\ made' = made /\ UNCHANGED <<manifest, tag>>
          /\ lock'.image = [identity |-> made[p], inputs |-> inputs[p]]
          /\ Old(c) /\ manifest.lock = lock /\ Release(p) <= Release(c)
          /\ env[c].lock.image.inputs.release <= Release(p)
          /\ inputs[p] # lock.image.inputs
      BY <2>2, <1>2, GoesAlone DEF MoveLock, AfterSettle, Beside, BuildBeside, docker, work
    <3>2. inputs[p].release = Release(p)
      BY <3>1, <2>2, <1>1 DEF Sourced
    <3>3. New(c)' /\ Unlisted(c)' /\ lock'.image.inputs.release = Release(p)
      BY <3>1, <3>2, <2>1 DEF New, Old, Unlisted
    <3>4. Checked(c)'
      BY <3>1, <3>3, <2>1, <1>2 DEF Checked, Old, New, Still
    <3> QED
      BY <3>1, <3>3, <3>4, <2>1, <2>2 DEF Beside, BuildBeside
  <2>3. CASE TagImage(p)
    <3>1. /\ pc[p] = "tag" /\ kind[p] = "build" /\ UNCHANGED <<lock, manifest>>
          /\ tag' = [tag EXCEPT ![Release(p)] = made[p]] /\ (pc'[p] # "idle" => pc'[p] = "hash")
      BY <2>3, GoesAlone, EndsAlone DEF TagImage, files, Shell, AtStep
    <3>2. Release(p) \in Releases
      BY <3>1 DEF Shell, AtStep, Environments, Release
    <3>3. Old(c) \/ (made[p] = lock.image.identity /\ Unlisted(c) /\ lock.image.inputs.release = Release(p))
      BY <3>1, <1>2 DEF Beside, BuildBeside
    <3>4. tag'[Release(p)] = made[p]
      BY <3>1, <3>2 DEF CommonType
    <3>5. New(c) => Tagged(c)'
      BY <3>1, <3>3, <3>4, <2>1 DEF Tagged, New, Old
    <3>6. Checked(c)'
      BY <3>1, <3>5, <2>1, <1>2 DEF Checked, Old, New, Unlisted, Still
    <3>7. ASSUME pc'[p] # "idle" PROVE BuildBeside(c, p)'
      BY <3>1, <3>3, <3>4, <3>7, <2>1 DEF BuildBeside, Old, Unlisted
    <3> QED
      BY <3>1, <3>6, <3>7, <2>1 DEF Beside
  <2>4. CASE PlaceManifest(p) /\ kind[p] = "build"
    <3>1. /\ pc[p] = "place" /\ manifest' = staged[p] /\ UNCHANGED <<lock, tag>> /\ pc'[p] = "idle"
      BY <2>4, EndsAlone DEF PlaceManifest, docker
    <3>2. Old(c) \/ Tagged(c)
      BY <3>1, <2>4, <1>2 DEF Beside, BuildBeside, Tagged
    <3>3. Checked(c)'
      BY <3>1, <3>2, <2>1, <1>2 DEF Checked, Old, New, Tagged, Still
    <3> QED
      BY <3>1, <3>3
  <2>5. CASE kind[p] # "build"
    <3>1. Old(c) /\ lock'.image = lock.image
      BY <2>5, <1>2 DEF Beside, MoveLock, TagImage, PlaceManifest, Load, files
    <3>2. pc'[p] # "move"
      BY GoesAlone, EndsAlone DEF MoveLock, TagImage, PlaceManifest, Load, AfterSettle
    <3>3. Checked(c)'
      BY <3>1, <2>1, <1>2 DEF Checked, Old, New, Still
    <3> QED
      BY <3>1, <3>2, <3>3, <2>1, <2>5 DEF Beside, Old
  <2>6. Load(p) => kind[p] # "build"
    BY <1>1 DEF Load, Sourced
  <2> QED
    BY <2>2, <2>3, <2>4, <2>5, <2>6
<1> QED
  BY <1>1, <1>2, LoudStep

LEMMA BesideStep ==
    ASSUME IInv, Company, History, BesideInv, NEW p \in Shells, Proceeds(p)
    PROVE  BesideInv'
BY BesideChecks, BesideQuietBuild, BesideQuiet, BesideLoud DEF Proceeds

\* Where a check and another command first meet, the one that was there had
\* run alone until then.
LEMMA BesideBegin ==
    ASSUME IInv, Company, History, RisingInv, AloneInv, BesideInv, NEW p \in Shells, NEW k \in Kinds, Begin(p, k)
    PROVE  BesideInv'
<1> SUFFICES ASSUME overlaps' <= 1, NEW c \in Shells, Active(c)', kind'[c] = "check"
             PROVE  Checked(c)' /\ \A q \in Shells \ {c} : Active(q)' => Beside(c, q)'
  BY DEF BesideInv
<1> OwnType /\ CommonType /\ overlaps \in Nat
  BY Types, BoundsAssumption DEF IInv, CommonType
<1>1. /\ UNCHANGED <<files, docker, work>> /\ ~Active(p)
      /\ pc'[p] = First[k] /\ kind'[p] = k /\ env'[p] = [lock |-> lock, release |-> tree.release]
  BY DEF Begin, OwnType
<1>2. \A q \in Shells \ {p} : Still(q)
  BY <1>1 DEF Begin, OwnType, work, Still
<1>3. \A q \in Shells : Active(q) => overlaps = 0 /\ overlaps' = 1 /\ Alone(q) /\ Rising(q) /\ Behind
  <2>1. (\E q \in Shells : Active(q)) => overlaps = 0 /\ overlaps' = 1
    BY DEF Begin
  <2> QED
    BY <2>1 DEF AloneInv, RisingInv
<1>4. First[k] \in {"source", "verify", "images", "sum", "hash"} /\ (First[k] = "verify" => k = "build")
      /\ (First[k] = "hash" => k = "manifest") /\ (k = "check" => First[k] = "source")
      /\ (k = "build" => First[k] = "verify")
  BY DEF First, Kinds
<1>5. CASE c = p
  <2>1. Old(p)' /\ Release(p)' = tree.release /\ pc'[p] = "source"
    BY <1>1, <1>4, <1>5 DEF Old, Release, files
  <2>2. Checked(p)'
    BY <2>1 DEF Checked
  <2>3. ASSUME NEW q \in Shells \ {p}, Active(q)' PROVE Beside(p, q)'
    <3>1. Still(q) /\ Active(q) /\ Alone(q) /\ Rising(q) /\ Behind /\ Release(q)' = Release(q)
      BY <1>2, <1>3, <2>3 DEF Still, Active, Release
    <3>2. Replaces(q) /\ (kind[q] = "build" => BuildAlone(q))
          /\ (pc[q] = "move" => kind[q] \in {"build", "save"})
      BY <3>1 DEF Alone, IInv, Shell, AtStep
    <3>3. pc[q] = "move" /\ kind[q] # "build" => staged[q].lock.image = lock.image
      BY <3>1, <3>2 DEF Replaces, Pin, CommonType, Locks
    <3>4. pc[q] = "move" /\ kind[q] = "build" => staged[q].lock.image = [identity |-> made[q], inputs |-> inputs[q]]
      BY <3>1, <3>2 DEF Replaces, Pin, CommonType, Locks
    <3>5. pc[q] \in {"write", "move"} /\ kind[q] = "build" => inputs[q] # lock.image.inputs
      BY <3>1, <3>2 DEF Replaces, Pin
    <3>6. Release(q) <= tree.release /\ manifest.tree.release <= tree.release
      BY <3>1 DEF Rising, Behind
    <3>7. ASSUME kind[q] = "build" PROVE BuildBeside(p, q)'
      <4>1. BuildAlone(q)
        BY <3>2, <3>7
      <4> QED
        BY <4>1, <3>1, <3>4, <3>5, <3>6, <3>7, <2>1, <1>1 DEF BuildAlone, BuildBeside, Rising, Still, files
    <3> QED
      BY <3>1, <3>3, <3>7, <2>1, <1>1 DEF Beside, Still, files
  <2> QED
    BY <1>5, <2>2, <2>3
<1>6. CASE c # p
  <2>1. Still(c) /\ Active(c) /\ kind[c] = "check" /\ Release(c)' = Release(c)
    BY <1>2, <1>6 DEF Still, Active, Release
  <2>2. overlaps = 0 /\ Alone(c) /\ Checked(c)
    BY <1>3, <2>1 DEF BesideInv
  <2>3. CheckAlone(c)
    BY <2>1, <2>2 DEF Alone
  <2>4. Checked(c)'
    BY <1>1, <2>1, <2>2 DEF Checked, Old, New, Unlisted, Tagged, Still, files, docker
  <2>5. ASSUME NEW q \in Shells \ {c}, Active(q)' PROVE Beside(c, q)'
    <3>1. q = p
      BY <1>2, <2>1, <2>2, <2>5 DEF Still, Active, Company
    <3>2. Old(c)'
      BY <1>1, <2>1, <2>3 DEF CheckAlone, Old, Still, files
    <3>3. Release(p)' = tree.release /\ tree.release <= tree.release
          /\ env[c].lock.image.inputs.release <= tree.release
      BY <1>1, <1>3, <2>1, <2>3, Numbers DEF CheckAlone, Behind, Release
    <3> QED
      BY <1>1, <1>4, <2>1, <2>3, <3>1, <3>2, <3>3 DEF Beside, BuildBeside, CheckAlone, Still, files
  <2> QED
    BY <2>4, <2>5
<1> QED
  BY <1>5, <1>6

LEMMA BesideBreak ==
    ASSUME IInv, Company, BesideInv, NEW p \in Shells, Breaks(p)
    PROVE  BesideInv'
<1>1. pc'[p] = "idle" /\ (\A q \in Shells \ {p} : Still(q))
      /\ UNCHANGED <<tree, lock, manifest, tag, overlaps>>
  BY EndsAlone, Types DEF IInv, Breaks, files
<1> SUFFICES ASSUME overlaps' <= 1, NEW c \in Shells, Active(c)', kind'[c] = "check"
             PROVE  Checked(c)' /\ \A q \in Shells \ {c} : Active(q)' => Beside(c, q)'
  BY DEF BesideInv
<1>2. c # p /\ Still(c) /\ Active(c) /\ kind[c] = "check" /\ overlaps <= 1
  BY <1>1 DEF Active, Still
<1>3. Checked(c) /\ \A q \in Shells \ {c} : Active(q) => Beside(c, q)
  BY <1>2 DEF BesideInv
<1>4. Checked(c)'
  BY <1>1, <1>2, <1>3 DEF Checked, Old, New, Unlisted, Tagged, Still, Release
<1>5. ASSUME NEW q \in Shells \ {c}, Active(q)' PROVE Beside(c, q)'
  <2>1. Still(q) /\ Beside(c, q)
    BY <1>1, <1>3, <1>5 DEF Active, Still
  <2> QED
    BY <2>1, <1>1, <1>2 DEF Beside, BuildBeside, Old, Unlisted, Still, Release
<1> QED
  BY <1>4, <1>5

\* Tags are lost at worst, and no command may count on one that is not there.
LEMMA BesideWorld ==
    ASSUME IInv, BesideInv, Edit \/ Lose \/ UNCHANGED vars
    PROVE  BesideInv'
<1> OwnType /\ CommonType
  BY Types DEF IInv
<1>1. UNCHANGED <<pc, kind, env, inputs, made, staged, lock, manifest, overlaps>>
  BY DEF Edit, Lose, vars, files, command, work, bounds
<1>2. \A r \in Releases : tag'[r] = tag[r] \/ tag'[r] = None
  BY DEF Edit, Lose, vars, docker
<1> SUFFICES ASSUME overlaps <= 1, NEW c \in Shells, Active(c), kind[c] = "check"
             PROVE  Checked(c)' /\ \A q \in Shells \ {c} : Active(q) => Beside(c, q)'
  BY <1>1 DEF BesideInv, Active
<1>3. Checked(c) /\ \A q \in Shells \ {c} : Active(q) => Beside(c, q)
  BY DEF BesideInv
<1>4. \A q \in Shells : Active(q) => Release(q) \in Releases /\ Release(q)' = Release(q)
  BY <1>1 DEF IInv, Shell, AtStep, Active, Environments, Release
<1>5. Tagged(c) => Tagged(c)'
  BY <1>1, <1>2, <1>4 DEF Tagged
<1>6. Checked(c)'
  BY <1>1, <1>3, <1>4, <1>5 DEF Checked, Old, New, Unlisted
<1>7. ASSUME NEW q \in Shells \ {c}, Active(q) PROVE Beside(c, q)'
  <2>1. tag[Release(q)] \in {lock.image.identity, None} => tag'[Release(q)] \in {lock.image.identity, None}
    BY <1>2, <1>4, <1>7
  <2>2. Release(q) <= tree.release => Release(q) <= tree'.release
    BY <1>7, Later, Numbers
  <2> QED
    BY <2>1, <2>2, <1>1, <1>3, <1>4, <1>7 DEF Beside, BuildBeside, Old, Unlisted
<1> QED
  BY <1>6, <1>7

-----------------------------------------------------------------------------
\* History through the steps of nobody's command, and of one that begins or ends.
LEMMA HistoryElse ==
    ASSUME IInv, History, Edit \/ Lose \/ UNCHANGED vars
    PROVE  History'
<1>1. UNCHANGED <<pc, kind, env, inputs, made, staged, reviewed, saving>>
  BY DEF Edit, Lose, vars, docker, command, work
<1>2. \A r \in Releases : /\ tag'[r] = tag[r] \/ tag'[r] = None
                          /\ archives'[r] = archives[r] \/ archives'[r] = None
  BY Types DEF Edit, Lose, vars, docker, IInv, CommonType
<1>3. Named'
  BY <1>1, <1>2 DEF History, Named
<1>4. \A q \in Shells : Active(q) => Sourced(q)'
  BY <1>1, StillSourced DEF Still
<1> QED
  BY <1>1, <1>3, <1>4 DEF History, Active

LEMMA HistoryBreak ==
    ASSUME IInv, History, NEW p \in Shells, Breaks(p)
    PROVE  History'
<1>1. pc'[p] = "idle" /\ (\A q \in Shells \ {p} : Still(q)) /\ UNCHANGED <<tag, archives, reviewed>>
  BY EndsAlone, Types DEF IInv, Breaks
<1>2. \A r \in Releases : saving'[r] = saving[r] \/ saving'[r] = None
  BY Types DEF Breaks, Unstages, IInv, CommonType
<1>3. Named'
  BY <1>1, <1>2 DEF History, Named
<1>4. ASSUME NEW q \in Shells, Active(q)' PROVE Sourced(q)'
  <2>1. Still(q) /\ Active(q)
    BY <1>1, <1>4 DEF Active, Still
  <2> QED
    BY <2>1, <1>1, StillSourced
<1> QED
  BY <1>3, <1>4 DEF History

LEMMA HistoryBegin ==
    ASSUME IInv, History, NEW p \in Shells, NEW k \in Kinds, Begin(p, k)
    PROVE  History'
<1> OwnType /\ CommonType /\ Reviewed(lock)
  BY Types DEF IInv
<1>1. /\ UNCHANGED <<tag, archives, saving, reviewed>> /\ pc'[p] = First[k] /\ kind'[p] = k
      /\ env'[p] = [lock |-> lock, release |-> tree.release]
  BY DEF Begin, OwnType, docker
<1>2. \A q \in Shells \ {p} : Still(q)
  BY DEF Begin, OwnType, work, Still
<1>3. First[k] \in {"source", "verify", "images", "sum", "hash"} /\ (First[k] = "verify" => k = "build")
      /\ (First[k] = "hash" => k = "manifest") /\ (First[k] = "sum" => k = "restore")
  BY DEF First, Kinds
<1>4. Sourced(p)'
  BY <1>1, <1>3 DEF Sourced, Reviewed
<1>5. ASSUME NEW q \in Shells \ {p}, Active(q)' PROVE Sourced(q)'
  <2>1. Still(q) /\ Active(q)
    BY <1>2, <1>5 DEF Active, Still
  <2> QED
    BY <2>1, <1>1, StillSourced
<1>6. Named'
  BY <1>1 DEF History, Named
<1> QED
  BY <1>4, <1>5, <1>6 DEF History

LEMMA FullInitially == Init => FullInv
<1> SUFFICES ASSUME Init PROVE FullInv
  OBVIOUS
<1>1. IInv
  BY Initially
<1>2. \A p \in Shells : ~Active(p)
  BY DEF Init, Active
<1>3. Behind
  <2>1. manifest.tree.release = tree.release /\ lock.image.inputs.release = tree.release
    BY DEF Init, Listed
  <2> QED
    BY <1>1, <2>1, Numbers DEF Behind
<1>4. ArchiveIsOfItsInputs
  BY DEF Init, ArchiveIsOfItsInputs
<1>5. Named
  BY DEF Init, Named
<1> QED
  BY <1>1, <1>2, <1>3, <1>4, <1>5 DEF FullInv, Company, History, RisingInv, AloneInv, BesideInv

LEMMA FullInductive == FullInv /\ [Next]_vars => FullInv'
<1> SUFFICES ASSUME FullInv, [Next]_vars PROVE FullInv'
  OBVIOUS
<1> IInv /\ Company /\ History /\ RisingInv /\ AloneInv /\ BesideInv
  BY DEF FullInv
<1>1. IInv'
  BY Inductive
<1>2. ASSUME NEW p \in Shells, NEW k \in Kinds, Begin(p, k)
      PROVE  Company' /\ History' /\ RisingInv' /\ AloneInv' /\ BesideInv'
  BY <1>2, CompanyBegin, HistoryBegin, RisingBegin, AloneBegin, BesideBegin
<1>3. ASSUME NEW p \in Shells, Proceeds(p)
      PROVE  Company' /\ History' /\ RisingInv' /\ AloneInv' /\ BesideInv'
  BY <1>3, OneAtATime, CompanyStep, HistoryStep, RisingStep, AloneStep, BesideStep
<1>4. ASSUME NEW p \in Shells, Breaks(p)
      PROVE  Company' /\ History' /\ RisingInv' /\ AloneInv' /\ BesideInv'
  <2>1. Company'
    <3>1. overlaps' = overlaps /\ \A q \in Shells : Active(q)' => Active(q)
      BY <1>4, EndsAlone, Types DEF IInv, Breaks, Active, Still
    <3> QED
      BY <3>1 DEF Company
  <2> QED
    BY <1>4, <2>1, HistoryBreak, RisingBreak, AloneBreak, BesideBreak
<1>5. ASSUME Edit \/ Lose \/ UNCHANGED vars
      PROVE  Company' /\ History' /\ RisingInv' /\ AloneInv' /\ BesideInv'
  <2>1. Company'
    <3>1. overlaps' = overlaps /\ pc' = pc
      BY <1>5 DEF Edit, Lose, vars, bounds
    <3> QED
      BY <3>1 DEF Company, Active
  <2> QED
    BY <1>5, <2>1, HistoryElse, RisingWorld, AloneWorld, BesideWorld
<1>6. Company' /\ History' /\ RisingInv' /\ AloneInv' /\ BesideInv'
  BY <1>2, <1>3, <1>4, <1>5 DEF Next
<1> QED
  BY <1>1, <1>6 DEF FullInv

\* What a command may count on while it runs alone, and what a check and the
\* one command beside it may.
THEOREM AloneOrTwo == Spec => []FullInv
BY FullInitially, FullInductive, PTL DEF Spec

\* A check passes only an image whose units passed, and, held up by no more
\* than one command beside it, only one built from the sources it measured.
THEOREM ChecksPassTheReviewed == Spec => []PassedIsReviewed
<1>1. FullInv => PassedIsReviewed
  <2> SUFFICES ASSUME FullInv, NEW p \in Shells, Passes(p)
               PROVE  /\ env[p].lock.image.identity \in reviewed
                      /\ overlaps <= 1 => env[p].lock.image.identity.from = inputs[p]
    BY DEF PassedIsReviewed
  <2>1. pc[p] = "archived" /\ Sourced(p) /\ kind[p] = "check" /\ Active(p)
    BY DEF FullInv, History, Passes, Active, Sourced
  <2>2. Reviewed(env[p].lock)
    BY <2>1 DEF Sourced
  <2>3. overlaps <= 1 => Checked(p)
    BY <2>1 DEF FullInv, BesideInv
  <2>4. overlaps <= 1 => inputs[p] = env[p].lock.image.inputs
    BY <2>1, <2>3 DEF Checked
  <2> QED
    BY <2>2, <2>4 DEF Reviewed
<1> QED
  BY <1>1, AloneOrTwo, PTL

\* Commands that never overlapped replace no pin by another product of the
\* inputs that it was made from.
THEOREM PinsAreReproduced == Spec => SameInputsSameIdentity
<1> DEFINE Kept == overlaps' = 0 =>
                      \A k \in {"image", "archive"} :
                         lock'[k].inputs = lock[k].inputs => lock'[k].identity = lock[k].identity
<1>1. FullInv /\ [Next]_vars => [Kept]_vars
  <2> SUFFICES ASSUME FullInv, Next, overlaps' = 0, lock' # lock, NEW k \in {"image", "archive"},
                      lock'[k].inputs = lock[k].inputs
               PROVE  lock'[k].identity = lock[k].identity
    OBVIOUS
  <2>1. PICK p \in Shells : MoveLock(p)
    BY ZenonT(60) DEF Next, Begin, Breaks, Edit, Lose, files, Proceeds, VerifyManifest, CopyContext, Make, RunUnits,
           TagImage, Settle, StageLock, HashFiles, PlaceManifest, CheckImages, CheckPresent, Save, Observe,
           KeepArchive, CheckSum, Load, Compare, SourceAgain, CheckDigest, CheckTagged, CheckArchived, Requires
  <2>2. overlaps = 0 /\ Active(p) /\ pc[p] = "move" /\ lock' = staged[p].lock
    BY <2>1 DEF MoveLock, bounds, Active
  <2>3. Replaces(p) /\ lock \in Locks
    BY <2>2, Types DEF FullInv, AloneInv, Alone, IInv, CommonType
  <2>4. lock' = [lock EXCEPT ![Pin(p)] = [identity |-> made[p], inputs |-> inputs[p]]]
        /\ inputs[p] # lock[Pin(p)].inputs /\ Pin(p) \in {"image", "archive"}
    BY <2>2, <2>3 DEF Replaces, Pin
  <2>5. CASE k = Pin(p)
    BY <2>3, <2>4, <2>5 DEF Locks
  <2>6. CASE k # Pin(p)
    BY <2>3, <2>4, <2>6 DEF Locks
  <2> QED
    BY <2>5, <2>6
<1> QED
  BY <1>1, AloneOrTwo, PTL DEF Spec, SameInputsSameIdentity

\* A save that reports success, and never ran beside another command, leaves
\* behind the archive that the lock pins, of the image that it pins.
THEOREM SavesRestore == Spec => SavedIsRestorable
<1> DEFINE Left(p) ==
              /\ \/ archives'[Release(p)] = lock'.archive.identity
                 \/ archives'[Release(p)] = None /\ faults > 0
              /\ lock'.archive.identity.from.image = lock'.image.identity
           Saved == \A p \in Shells :
              /\ kind[p] = "save" /\ pc[p] \in {"present", "keep", "place"} /\ pc'[p] = "idle"
              /\ faults' = faults /\ overlaps = 0
              => Left(p)
<1>1. FullInv /\ [Next]_vars => [Saved]_vars
  <2> SUFFICES ASSUME FullInv, Next, NEW p \in Shells, kind[p] = "save", pc[p] \in {"present", "keep", "place"},
                      pc'[p] = "idle", faults' = faults, overlaps = 0
               PROVE  Left(p)
    OBVIOUS
  <2> OwnType /\ CommonType
    BY Types DEF FullInv, IInv
  <2>1. Proceeds(p)
    <3>1. ASSUME NEW q \in Shells, Proceeds(q) PROVE q = p
      BY <3>1, OneAtATime DEF OneGoesOn, Still, FullInv
    <3>2. ASSUME NEW q \in Shells, NEW k \in Kinds, Begin(q, k) PROVE FALSE
      BY <3>2 DEF Begin, OwnType, First, Kinds, Active
    <3>3. ~Edit /\ ~Lose /\ \A q \in Shells : ~Breaks(q)
      BY DEF Edit, Lose, Breaks, CommonType
    <3> QED
      BY <3>1, <3>2, <3>3 DEF Next
  <2>2. Active(p) /\ SaveAlone(p) /\ ArchiveIsOfItsInputs /\ Shell(p)
    BY DEF FullInv, AloneInv, Alone, Active, IInv
  <2>3. Release(p) \in Releases
    BY <2>2 DEF Shell, AtStep, Active, Environments, Release
  <2>4. CASE pc[p] = "present"
    <3>1. CheckPresent(p)
      BY <2>1, <2>4 DEF Proceeds, VerifyManifest, CopyContext, Make, RunUnits, TagImage, Settle, StageLock, MoveLock,
         HashFiles, PlaceManifest, CheckImages, Save, Observe, KeepArchive, CheckSum, Load, Compare, SourceAgain,
         CheckDigest, CheckTagged, CheckArchived, Requires
    <3>2. /\ [release |-> Release(p), image |-> env[p].lock.image.identity] = env[p].lock.archive.inputs
          /\ archives[Release(p)] = env[p].lock.archive.identity
          /\ UNCHANGED <<lock, archives>>
      BY <3>1, GoesAlone DEF CheckPresent, files
    <3>3. env[p].lock = lock
      BY <2>2, <2>4 DEF SaveAlone
    <3>4. lock.archive.identity.from.image = lock.image.identity
      BY <2>2, <3>2, <3>3 DEF ArchiveIsOfItsInputs
    <3> QED
      BY <3>2, <3>3, <3>4
  <2>5. CASE pc[p] = "keep"
    <3>1. KeepArchive(p)
      BY <2>1, <2>5 DEF Proceeds, VerifyManifest, CopyContext, Make, RunUnits, TagImage, Settle, StageLock, MoveLock,
         HashFiles, PlaceManifest, CheckImages, CheckPresent, Save, Observe, CheckSum, Load, Compare, SourceAgain,
         CheckDigest, CheckTagged, CheckArchived, Requires
    <3>2. made[p] # None /\ saving[Release(p)] = made[p]
      BY <2>2, <2>5, NoneAssumption DEF Shell, Produced, SaveAlone
    <3>3. archives'[Release(p)] = made[p] /\ lock' = lock
      BY <2>3, <3>1, <3>2 DEF KeepArchive, files, CommonType
    <3> QED
      BY <2>2, <2>5, <3>3 DEF SaveAlone
  <2>6. CASE pc[p] = "place"
    <3>1. PlaceManifest(p)
      BY <2>1, <2>6 DEF Proceeds, VerifyManifest, CopyContext, Make, RunUnits, TagImage, Settle, StageLock, MoveLock,
         HashFiles, CheckImages, CheckPresent, Save, Observe, KeepArchive, CheckSum, Load, Compare, SourceAgain,
         CheckDigest, CheckTagged, CheckArchived, Requires
    <3> QED
      BY <2>2, <2>6, <3>1 DEF SaveAlone, PlaceManifest, docker
  <2> QED
    BY <2>4, <2>5, <2>6
<1> QED
  BY <1>1, AloneOrTwo, PTL DEF Spec, SavedIsRestorable
=============================================================================
