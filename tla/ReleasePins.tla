---------------------------- MODULE ReleasePins ----------------------------
(***************************************************************************)
(* How a release is pinned and checked: build-vllm.sh build, save-images.sh *)
(* and generate-deployment-input-manifest.sh write what restore-images.sh  *)
(* and the check of start.sh (check_pinned_build_inputs) hold against it.  *)
(*                                                                         *)
(* The version lock and the manifest are files of the working tree, each   *)
(* replaced by one rename; the tags of images and the archives are not.    *)
(* No command locks any of it, every command reads the lock as it begins,  *)
(* and the two that write it read it again to decide and to edit.  A       *)
(* command may end between any two steps.                                  *)
(***************************************************************************)
EXTENDS Naturals, FiniteSets

CONSTANTS Shells,    \* terminals, each running one command at a time
          Sources,   \* contents of the files an image is built from
          FirstSource, \* those that are pinned at first
          Releases,  \* IMAGE_PROFILE_VERSION, IMAGE_TAG and IMAGE_ARCHIVE_NAME
          Variants,  \* what a build or docker save may make of the same inputs
          Usual,     \* the one it made of those pinned at first
          None,
          MaxEdits,  \* bound: edits of the sources
          MaxOverlaps, \* bound: commands begun while another runs
          MaxFaults  \* bound: commands that end before their time, losses of the
                     \* images or of an archive

ASSUME ReleasesAssumption == Releases \subseteq Nat
ASSUME FirstAssumption == FirstSource \in Sources /\ Usual \in Variants
ASSUME BoundsAssumption == MaxEdits \in Nat /\ MaxOverlaps \in Nat /\ MaxFaults \in Nat

\* What an image is built from, what an archive is saved from, and both
\* products.  A digest stands for what it is the digest of.
Trees == [release : Releases, source : Sources]
Images == [from : Trees, variant : Variants]
Contents == [release : Releases, image : Images]
Archives == [from : Contents, variant : Variants]
Locks == [image : [identity : Images, inputs : Trees],
          archive : [identity : Archives, inputs : Contents]]
ASSUME NoneAssumption == None \notin Images \union Archives

VARIABLES
    tree,      \* the sources and the release that the lock declares
    lock,      \* the two pins
    manifest,  \* config/deployment-inputs.sha256: the files it was made from
    tag,       \* IMAGE_TAG of each release
    archives,  \* artifacts/, by IMAGE_ARCHIVE_NAME
    saving,    \* IMAGE_ARCHIVE_NAME.saving, where every save of a release writes
    kind, pc,
    env,       \* what a command sourced as it began: the pins and the release
    inputs, made, \* inputs and product of a command
    staged,    \* the copy of config/runtime-v1.sh or the manifest that it is about
               \* to rename into place, or the lock that its serve-check sourced
    reviewed,  \* history: images whose GPU units and reviewed tests passed
    overlaps,  \* how often a command began beside another
    edits, faults

files == <<tree, lock, manifest>>
docker == <<tag, archives, saving>>
command == <<kind, env>>
work == <<inputs, made, staged>>
bounds == <<overlaps, edits, faults>>
vars == <<files, docker, command, pc, work, reviewed, bounds>>

Kinds == {"build", "save", "restore", "check", "manifest"}
Steps == {"source", "verify", "copy", "make", "units", "settle", "write", "move", "tag", "hash", "place",
          "images", "present", "save", "observe", "keep", "sum", "load", "compare",
          "digest", "tagged", "archived"}
First == [k \in Kinds |-> CASE k = "build" -> "verify" [] k = "save" -> "images"
                            [] k = "restore" -> "sum" [] k = "check" -> "source"
                            [] k = "manifest" -> "hash"]

Active(p) == pc[p] # "idle"
\* The files that the manifest lists, the lock among them.
Listed == [tree |-> tree, lock |-> lock]
Release(p) == env[p].release

Init ==
    /\ tree \in Trees /\ tree.source = FirstSource /\ \A r \in Releases : tree.release <= r
    /\ LET i == [from |-> tree, variant |-> Usual]
           c == [release |-> tree.release, image |-> i]
           a == [from |-> c, variant |-> Usual]
       IN  /\ lock = [image |-> [identity |-> i, inputs |-> tree],
                      archive |-> [identity |-> a, inputs |-> c]]
           /\ tag = [r \in Releases |-> IF r = tree.release THEN i ELSE None]
           /\ reviewed = {i}
           /\ archives = [r \in Releases |-> IF r = tree.release THEN a ELSE None]
    /\ saving = [r \in Releases |-> None]
    /\ manifest = Listed
    /\ kind = [p \in Shells |-> "none"] /\ pc = [p \in Shells |-> "idle"]
    /\ env = [p \in Shells |-> None]
    /\ inputs = [p \in Shells |-> None] /\ made = [p \in Shells |-> None]
    /\ staged = [p \in Shells |-> None]
    /\ overlaps = 0
    /\ edits = 0 /\ faults = 0

-----------------------------------------------------------------------------
\* How a command moves on.

Begin(p, k) ==
    /\ ~Active(p)
    /\ kind' = [kind EXCEPT ![p] = k]
    /\ pc' = [pc EXCEPT ![p] = First[k]]
    /\ env' = [env EXCEPT ![p] = [lock |-> lock, release |-> tree.release]]
    /\ IF \E q \in Shells : Active(q)
       THEN overlaps < MaxOverlaps /\ overlaps' = overlaps + 1
       ELSE UNCHANGED overlaps
    /\ UNCHANGED <<files, docker, work, reviewed, edits, faults>>

\* The end of a command, whatever it reports; its copy of the lock or the
\* manifest is not used.
Ends(p) ==
    /\ pc' = [pc EXCEPT ![p] = "idle"]
    /\ env' = [env EXCEPT ![p] = None]
    /\ inputs' = [inputs EXCEPT ![p] = None]
    /\ made' = [made EXCEPT ![p] = None]
    /\ staged' = [staged EXCEPT ![p] = None]
    /\ kind' = [kind EXCEPT ![p] = "none"]

\* The EXIT trap of a save, which goes by the name.
Unstages(p) == saving' = [saving EXCEPT ![Release(p)] = None]
Staging(p) == kind[p] = "save" /\ pc[p] \in {"save", "observe", "settle", "write", "move", "keep"}

Goes(p, step) == pc' = [pc EXCEPT ![p] = step] /\ UNCHANGED command

\* A step that only looks: it goes on, or the command dies with its message.
Requires(p, step, condition, next) ==
    /\ pc[p] = step
    /\ IF condition THEN Goes(p, next) /\ UNCHANGED work ELSE Ends(p)
    /\ UNCHANGED <<files, docker, reviewed, bounds>>

-----------------------------------------------------------------------------
\* build-vllm.sh build

\* Every mode holds the files against the manifest first.
VerifyManifest(p) ==
    Requires(p, "verify", manifest = Listed, IF kind[p] = "build" THEN "copy" ELSE "digest")

\* The build context and the digest of all that the image is built from.
CopyContext(p) ==
    /\ pc[p] = "copy"
    /\ inputs' = [inputs EXCEPT ![p] = [release |-> Release(p), source |-> tree.source]]
    /\ Goes(p, "make")
    /\ UNCHANGED <<files, docker, made, staged, reviewed, bounds>>

\* docker buildx build, which need not give the same image for the same inputs.
Make(p) ==
    /\ pc[p] = "make"
    /\ \E v \in Variants : made' = [made EXCEPT ![p] = [from |-> inputs[p], variant |-> v]]
    /\ Goes(p, "units")
    /\ UNCHANGED <<files, docker, inputs, staged, reviewed, bounds>>

\* Plausible mistake: the pin is written before the units are waited for.
PinnedUnreviewed(p) ==
    /\ pc[p] = "units" /\ Goes(p, "settle")
    /\ UNCHANGED <<files, docker, work, reviewed, bounds>>

RunUnits(p) ==
    /\ pc[p] = "units" /\ Goes(p, "settle")
    /\ reviewed' = reviewed \union {made[p]}
    /\ UNCHANGED <<files, docker, work, bounds>>

\* The one place IMAGE_TAG is moved.
TagImage(p) ==
    /\ pc[p] = "tag"
    /\ tag' = [tag EXCEPT ![Release(p)] = made[p]]
    /\ IF staged[p] = None THEN Ends(p) ELSE Goes(p, "hash") /\ UNCHANGED work
    /\ UNCHANGED <<files, archives, saving, reviewed, bounds>>

-----------------------------------------------------------------------------
\* settle_produced_identity, for the pin of the image and of the archive.

Pin(p) == IF kind[p] = "build" THEN "image" ELSE "archive"
AfterSettle(p) == IF kind[p] = "build" THEN "tag" ELSE "keep"

\* Plausible mistake: a product that differs is adopted.
SettleAdopts(p) ==
    /\ pc[p] = "settle"
    /\ IF inputs[p] = lock[Pin(p)].inputs /\ made[p] = lock[Pin(p)].identity
       THEN Goes(p, AfterSettle(p)) ELSE Goes(p, "write")
    /\ UNCHANGED <<files, docker, work, reviewed, bounds>>

\* The recorded inputs must have reproduced the recorded identity; others are
\* recorded with their own.
Settle(p) ==
    /\ pc[p] = "settle"
    /\ \/ /\ inputs[p] = lock[Pin(p)].inputs /\ made[p] = lock[Pin(p)].identity
          /\ Goes(p, AfterSettle(p)) /\ UNCHANGED <<work, saving>>
       \/ /\ inputs[p] = lock[Pin(p)].inputs /\ made[p] # lock[Pin(p)].identity
          /\ Ends(p)
          /\ IF Staging(p) THEN Unstages(p) ELSE UNCHANGED saving
       \/ /\ inputs[p] # lock[Pin(p)].inputs
          /\ Goes(p, "write") /\ UNCHANGED <<work, saving>>
    /\ UNCHANGED <<files, tag, archives, reviewed, bounds>>

\* Plausible mistake: the copy is moved although sed did not write the pins.
StageUnwritten(p) ==
    /\ pc[p] = "write"
    /\ staged' = [staged EXCEPT ![p] = [release |-> tree.release, lock |-> None]]
    /\ Goes(p, "move")
    /\ UNCHANGED <<files, docker, inputs, made, reviewed, bounds>>

\* Plausible mistake: only the identity is rewritten.
StageIdentity(p) ==
    /\ pc[p] = "write"
    /\ staged' = [staged EXCEPT ![p] = [release |-> tree.release,
                                       lock |-> [lock EXCEPT ![Pin(p)].identity = made[p]]]]
    /\ Goes(p, "move")
    /\ UNCHANGED <<files, docker, inputs, made, reviewed, bounds>>

\* write_lock_values: sed copies config/runtime-v1.sh, which also declares the
\* release, with both values of the pin, ...
StageLock(p) ==
    /\ pc[p] = "write"
    /\ staged' = [staged EXCEPT ![p] =
                    [release |-> tree.release,
                     lock |-> [lock EXCEPT ![Pin(p)] = [identity |-> made[p], inputs |-> inputs[p]]]]]
    /\ Goes(p, "move")
    /\ UNCHANGED <<files, docker, inputs, made, reviewed, bounds>>

\* ... and the copy replaces the file, whatever that holds by now: pins that
\* another command wrote and a release that was declared meanwhile are lost.
MoveLock(p) ==
    /\ pc[p] = "move"
    /\ lock' = staged[p].lock
    /\ tree' = [tree EXCEPT !.release = staged[p].release]
    /\ Goes(p, AfterSettle(p))
    /\ UNCHANGED <<manifest, docker, work, reviewed, bounds>>

-----------------------------------------------------------------------------
\* save-images.sh

\* Plausible mistake: what the tag names is saved as what the lock pins.
ImagesUnchecked(p) == Requires(p, "images", TRUE, "present")

CheckImages(p) == Requires(p, "images", tag[Release(p)] = env[p].lock.image.identity, "present")

\* Plausible mistake: an archive of that name is taken for the pinned one.
PresentByName(p) ==
    LET c == [release |-> Release(p), image |-> env[p].lock.image.identity]
    IN  /\ pc[p] = "present"
        /\ IF c = env[p].lock.archive.inputs /\ archives[Release(p)] # None
           THEN Ends(p) /\ UNCHANGED saving
           ELSE /\ inputs' = [inputs EXCEPT ![p] = c]
                /\ Unstages(p)
                /\ Goes(p, "save") /\ UNCHANGED <<made, staged>>
        /\ UNCHANGED <<files, tag, archives, reviewed, bounds>>

\* Nothing is saved when the archive pinned for these images is already here;
\* else what an earlier save left under the staging name is removed.
CheckPresent(p) ==
    LET c == [release |-> Release(p), image |-> env[p].lock.image.identity]
    IN  /\ pc[p] = "present"
        /\ IF c = env[p].lock.archive.inputs /\ archives[Release(p)] = env[p].lock.archive.identity
           THEN Ends(p) /\ UNCHANGED saving
           ELSE /\ inputs' = [inputs EXCEPT ![p] = c]
                /\ Unstages(p)
                /\ Goes(p, "save") /\ UNCHANGED <<made, staged>>
        /\ UNCHANGED <<files, tag, archives, reviewed, bounds>>

\* docker save by tag, beside the archive.
Save(p) ==
    /\ pc[p] = "save"
    /\ \/ /\ tag[Release(p)] # None
          /\ \E v \in Variants :
                saving' = [saving EXCEPT ![Release(p)] =
                    [from |-> [release |-> Release(p), image |-> tag[Release(p)]], variant |-> v]]
          /\ Goes(p, "observe") /\ UNCHANGED work
       \/ tag[Release(p)] = None /\ Ends(p) /\ Unstages(p)
    /\ UNCHANGED <<files, tag, archives, reviewed, bounds>>

\* sha256sum of what has the staging name by then.
Observe(p) ==
    /\ pc[p] = "observe"
    /\ IF saving[Release(p)] = None
       THEN Ends(p)
       ELSE /\ made' = [made EXCEPT ![p] = saving[Release(p)]]
            /\ Goes(p, "settle") /\ UNCHANGED <<inputs, staged>>
    /\ UNCHANGED <<files, docker, reviewed, bounds>>

\* Plausible mistake: only a new archive takes its place.
KeepNew(p) ==
    /\ pc[p] = "keep" /\ Unstages(p)
    /\ IF saving[Release(p)] = None \/ staged[p] = None
       THEN Ends(p) /\ UNCHANGED archives
       ELSE /\ archives' = [archives EXCEPT ![Release(p)] = saving[Release(p)]]
            /\ Goes(p, "hash") /\ UNCHANGED work
    /\ UNCHANGED <<files, tag, reviewed, bounds>>

\* What has the staging name becomes the archive, if it is still there.
KeepArchive(p) ==
    /\ pc[p] = "keep" /\ Unstages(p)
    /\ IF saving[Release(p)] = None
       THEN Ends(p) /\ UNCHANGED archives
       ELSE /\ archives' = [archives EXCEPT ![Release(p)] = saving[Release(p)]]
            /\ IF staged[p] = None THEN Ends(p) ELSE Goes(p, "hash") /\ UNCHANGED work
    /\ UNCHANGED <<files, tag, reviewed, bounds>>

-----------------------------------------------------------------------------
\* generate-deployment-input-manifest.sh, by hand or after a pin was written.
\* It hashes the files and verifies its hashes; a file that changes in between
\* makes it fail, which Breaks covers.

HashFiles(p) ==
    /\ pc[p] = "hash"
    /\ staged' = [staged EXCEPT ![p] = Listed]
    /\ Goes(p, "place")
    /\ UNCHANGED <<files, docker, inputs, made, reviewed, bounds>>

PlaceManifest(p) ==
    /\ pc[p] = "place"
    /\ manifest' = staged[p]
    /\ Ends(p)
    /\ UNCHANGED <<tree, lock, docker, reviewed, bounds>>

-----------------------------------------------------------------------------
\* restore-images.sh

CheckSum(p) == Requires(p, "sum", archives[Release(p)] = env[p].lock.archive.identity, "load")

\* docker load tags what it loads before anything is compared.
Load(p) ==
    /\ pc[p] = "load"
    /\ IF archives[Release(p)] = None
       THEN Ends(p) /\ UNCHANGED tag
       ELSE /\ tag' = [tag EXCEPT ![Release(p)] = archives[Release(p)].from.image]
            /\ Goes(p, "compare") /\ UNCHANGED work
    /\ UNCHANGED <<files, archives, saving, reviewed, bounds>>

\* The command succeeds if the image is the pinned one; it ends either way.
Compare(p) ==
    /\ pc[p] = "compare"
    /\ Ends(p)
    /\ UNCHANGED <<files, docker, reviewed, bounds>>

-----------------------------------------------------------------------------
\* check_pinned_build_inputs, before anything is served.

\* The check runs build-vllm.sh serve-check, which sources the lock again.
SourceAgain(p) ==
    /\ pc[p] = "source"
    /\ staged' = [staged EXCEPT ![p] = Listed]
    /\ Goes(p, "verify")
    /\ UNCHANGED <<files, docker, inputs, made, reviewed, bounds>>

\* Plausible mistake: the check leaves the image's inputs to the build.
DigestUnchecked(p) ==
    /\ pc[p] = "digest"
    /\ inputs' = [inputs EXCEPT ![p] = [release |-> staged[p].tree.release, source |-> tree.source]]
    /\ Goes(p, "tagged") /\ UNCHANGED <<made, staged>>
    /\ UNCHANGED <<files, docker, reviewed, bounds>>

\* serve-check, require_image_built_from_inputs: the sources that are here now
\* against the pin that this run of build-vllm.sh sourced.
CheckDigest(p) ==
    LET c == [release |-> staged[p].tree.release, source |-> tree.source]
    IN  /\ pc[p] = "digest"
        /\ IF c = staged[p].lock.image.inputs
           THEN /\ inputs' = [inputs EXCEPT ![p] = c]
                /\ Goes(p, "tagged") /\ UNCHANGED <<made, staged>>
           ELSE Ends(p)
        /\ UNCHANGED <<files, docker, reviewed, bounds>>

CheckTagged(p) == Requires(p, "tagged", tag[Release(p)] = env[p].lock.image.identity, "archived")

Passes(p) == pc[p] = "archived" /\ archives[Release(p)] = env[p].lock.archive.identity

\* The last test; start.sh goes on to serve the pinned image if Passes(p).
CheckArchived(p) ==
    /\ pc[p] = "archived"
    /\ Ends(p)
    /\ UNCHANGED <<files, docker, reviewed, bounds>>

-----------------------------------------------------------------------------
\* What else happens.

\* A kill, a power cut, a call or a unit that fails: the trap runs or does not.
Breaks(p) ==
    /\ Active(p) /\ faults < MaxFaults /\ faults' = faults + 1
    /\ Ends(p)
    /\ UNCHANGED saving \/ (Staging(p) /\ Unstages(p))
    /\ UNCHANGED <<files, tag, archives, reviewed, overlaps, edits>>

\* The sources are edited or a new release is declared, at any time.
Edit ==
    /\ edits < MaxEdits /\ edits' = edits + 1
    /\ \/ \E x \in Sources \ {tree.source} : tree' = [tree EXCEPT !.source = x]
       \/ \E r \in Releases : r > tree.release /\ tree' = [tree EXCEPT !.release = r]
    /\ UNCHANGED <<lock, manifest, docker, command, pc, work, reviewed, overlaps, faults>>

\* Images are pruned, as on a machine that never had them, or an archive is gone.
Lose ==
    /\ faults < MaxFaults /\ faults' = faults + 1
    /\ \/ tag' = [r \in Releases |-> None] /\ UNCHANGED archives
       \/ \E r \in Releases : /\ archives[r] # None
                              /\ archives' = [archives EXCEPT ![r] = None]
                              /\ UNCHANGED tag
    /\ UNCHANGED <<files, saving, command, pc, work, reviewed, overlaps, edits>>

Proceeds(p) ==
    \/ VerifyManifest(p) \/ CopyContext(p) \/ Make(p) \/ RunUnits(p) \/ TagImage(p)
    \/ Settle(p) \/ StageLock(p) \/ MoveLock(p) \/ HashFiles(p) \/ PlaceManifest(p)
    \/ CheckImages(p) \/ CheckPresent(p) \/ Save(p) \/ Observe(p) \/ KeepArchive(p)
    \/ CheckSum(p) \/ Load(p) \/ Compare(p)
    \/ SourceAgain(p) \/ CheckDigest(p) \/ CheckTagged(p) \/ CheckArchived(p)

Next ==
    \/ \E p \in Shells, k \in Kinds : Begin(p, k)
    \/ \E p \in Shells : Proceeds(p) \/ Breaks(p)
    \/ Edit \/ Lose

Spec == Init /\ [][Next]_vars

\* What is missing next, for somebody who wants the release served.
Needed ==
    LET r == tree.release
    IN  CASE manifest # Listed -> "manifest"
          [] manifest = Listed /\ (lock.image.inputs # tree \/ tag[r] # lock.image.identity) -> "build"
          [] /\ manifest = Listed /\ lock.image.inputs = tree /\ tag[r] = lock.image.identity
             /\ \/ archives[r] # lock.archive.identity
                \/ lock.archive.inputs # [release |-> r, image |-> lock.image.identity] -> "save"
          [] OTHER -> "check"

\* A command goes on; somebody begins what is missing; and what a build or
\* docker save does not always reproduce it reproduces again and again.
Fairness ==
    /\ \A p \in Shells : WF_vars(Proceeds(p))
    /\ WF_vars(\E p \in Shells : Begin(p, Needed))
    /\ SF_vars(\E p \in Shells : Make(p) /\ made'[p] = lock.image.identity)
    /\ SF_vars(\E p \in Shells : Save(p) /\ saving'[Release(p)] = lock.archive.identity)

FairSpec == Spec /\ Fairness

-----------------------------------------------------------------------------
(***************************************************************************)
(* Properties.                                                             *)
(***************************************************************************)
LockFiles == [tree : Trees, lock : Locks]
Copies == [release : Releases, lock : Locks]

TypeOK ==
    /\ tree \in Trees /\ lock \in Locks /\ manifest \in LockFiles
    /\ tag \in [Releases -> Images \union {None}]
    /\ archives \in [Releases -> Archives \union {None}]
    /\ saving \in [Releases -> Archives \union {None}]
    /\ kind \in [Shells -> Kinds \union {"none"}] /\ pc \in [Shells -> Steps \union {"idle"}]
    /\ env \in [Shells -> [lock : Locks, release : Releases] \union {None}]
    /\ inputs \in [Shells -> Trees \union Contents \union {None}]
    /\ made \in [Shells -> Images \union Archives \union {None}]
    /\ staged \in [Shells -> Copies \union LockFiles \union {None}]
    /\ reviewed \subseteq Images
    /\ overlaps \in 0..MaxOverlaps
    /\ edits \in 0..MaxEdits /\ faults \in 0..MaxFaults

\* The lock pins an image only after its units and tests passed, and beside the
\* digest of what it was built from: also where commands that rewrite the lock
\* overlap and one loses what the other wrote, and wherever they end.
PinsAreReviewed ==
    /\ lock.image.identity \in reviewed
    /\ lock.image.identity.from = lock.image.inputs

\* An image that the check lets through passed its units and was built from the
\* very sources that this check measured, whatever was edited meanwhile and
\* whichever other command ran: a build that pins another image meanwhile is
\* noticed, because it moves the tag before it places the manifest.  Only a
\* check held up while one command ends and another begins may take the pins
\* of two releases for one.
PassedIsReviewed ==
    \A p \in Shells :
       Passes(p) => /\ env[p].lock.image.identity \in reviewed
                    /\ overlaps <= 1 => env[p].lock.image.identity.from = inputs[p]

\* While commands do not overlap, a pin is never replaced for the inputs it was
\* made from: not by another product, nor by what an earlier command left.
SameInputsSameIdentity ==
    [][overlaps' = 0 =>
          \A k \in {"image", "archive"} :
             lock'[k].inputs = lock[k].inputs => lock'[k].identity = lock[k].identity]_vars

\* A save that reports success, and overlapped with no other command, leaves
\* the archive that the lock pins, if none was lost, and what it pins holds the
\* image that it pins: also after saves that ended between the pin, the archive and the manifest.
SavedIsRestorable ==
    [][\A p \in Shells :
          /\ kind[p] = "save" /\ pc[p] \in {"present", "keep", "place"} /\ pc'[p] = "idle"
          /\ faults' = faults /\ overlaps = 0
          => /\ \/ archives'[Release(p)] = lock'.archive.identity
                \/ archives'[Release(p)] = None /\ faults > 0
             /\ lock'.archive.identity.from.image = lock'.image.identity]_vars

ArchiveIsOfItsInputs == lock.archive.identity.from = lock.archive.inputs

\* Whatever was edited, broke off, was lost or overlapped: once everybody only
\* does what is missing, the check passes; unless docker save found the tag
\* moved by then, which pins an archive of an image that was never checked.
EventuallyPasses ==
    /\ <>[][\A p \in Shells, k \in Kinds : Begin(p, k) => k = Needed]_vars
    /\ []ArchiveIsOfItsInputs
    => []<>(\E p \in Shells : Passes(p))
=============================================================================
