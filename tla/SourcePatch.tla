---------------------------- MODULE SourcePatch ----------------------------
(***************************************************************************)
(* SourcePatchTransaction: plan, and the commit that captures the original *)
(* files, checks each again just before it is replaced, verifies the       *)
(* result, and rolls back what it replaced when anything raises.           *)
(*                                                                         *)
(* The steps are those between which the file system can change: another   *)
(* process may write a file, a call may fail, the patcher may be killed.   *)
(* A plan is one step: the capture that follows it reads every changed     *)
(* file again, one by one.                                                 *)
(***************************************************************************)
EXTENDS Integers, Sequences

CONSTANTS
  Files,       \* every path the patch set names
  Changed,     \* changed_files, in the order they are written
  Texts, Absent, Modes,
  NewMode,     \* the mode of a file the patcher creates
  Before,      \* the pristine tree
  Final,       \* the text that the last stage leaves in each file
  GitMode,     \* what git tells of a mode, as a mode
  Stated,      \* the git mode that the review diff states for a file
  AnyMode,     \* ... or that it states none
  Interrupts,  \* whether an exception may be raised between two statements
  MaxDrift     \* bound: how often another process writes the tree

Gone == [text |-> Absent, mode |-> NewMode]
Contents == [text : Texts, mode : Modes] \cup {Gone}
N == Len(Changed)

ASSUME TextAssumption == Absent \notin Texts /\ NewMode \in Modes /\ AnyMode \notin Modes
ASSUME TreeAssumption ==
  /\ Before \in [Files -> Contents]
  /\ Final \in [Files -> Texts \cup {Absent}]
  /\ GitMode \in [Modes -> Modes]
  /\ Stated \in [Files -> Modes \cup {AnyMode}]
ASSUME ChangedAssumption ==
  /\ Changed \in Seq(Files)
  /\ \A i, j \in 1..N : Changed[i] = Changed[j] => i = j
  /\ \A f \in Files : Final[f] # Before[f].text => \E i \in 1..N : Changed[i] = f
ASSUME BoundAssumption == Interrupts \in BOOLEAN /\ MaxDrift \in Nat

\* The tree that the transaction turns Before into: an existing file keeps
\* its mode, a new one has NewMode.
After(f) ==
  IF Final[f] = Absent THEN Gone ELSE [text |-> Final[f], mode |-> Before[f].mode]

VARIABLES
  tree,        \* each file's text and mode
  artifacts,   \* whether the review diffs are the recorded ones
  pc,          \* where the run is: see Phases
  planned,     \* the result of the plan that apply passed to commit
  originals,   \* backups, in the order of Changed
  done,        \* the first done files of Changed are in replaced
  unrestored,  \* the files of rollback_errors
  unrecorded,  \* history: the file replaced when an exception kept it out of replaced
  touched,     \* history: the files that another process wrote
  drifts       \* how often it did

run == <<planned, originals, done, unrestored, unrecorded>>
outside == <<artifacts, touched, drifts>>
vars == <<tree, pc, run, outside>>

Committing == {"capturing", "writing", "checked", "wrote", "rolling"}
Reported == {"applied", "already-applied", "refused", "failed"}
Phases == {"idle", "planned"} \cup Committing \cup Reported
Results == {"planned", "already-applied", "refused"}

\* Mutant: a file to be deleted may still be there.
IsWritten == \A f \in Files : Final[f] # Absent => tree[f].text = Final[f]

IsFinal == \A f \in Files : tree[f].text = Final[f]
IsPristine == \A f \in Files : tree[f].text = Before[f].text
ModesAgree ==
  \A i \in 1..N : Stated[Changed[i]] \in {AnyMode, GitMode[tree[Changed[i]].mode]}

\* plan: what it returns, or that it refuses.
Verdict ==
  CASE artifacts /\ IsFinal -> "already-applied"
    [] artifacts /\ ~IsFinal /\ IsPristine /\ ModesAgree -> "planned"
    [] OTHER -> "refused"

Init ==
  /\ tree \in {Before, [f \in Files |-> After(f)]}
  /\ artifacts = TRUE
  /\ pc = "idle"
  /\ planned = "refused"
  /\ originals = <<>>
  /\ done = 0
  /\ unrestored = {}
  /\ unrecorded = {}
  /\ touched = {}
  /\ drifts = 0

-----------------------------------------------------------------------------
(* A run: apply is plan, then commit.                                      *)

Plan ==
  /\ pc = "idle"
  /\ pc' = IF Verdict = "refused" THEN "refused" ELSE "planned"
  /\ planned' = Verdict
  /\ UNCHANGED <<tree, originals, done, unrestored, unrecorded, outside>>

\* The commit plans again, and refuses a result that is not the caller's.
Replan ==
  /\ pc = "planned"
  /\ pc' = CASE Verdict # planned -> "refused"
             [] Verdict = planned /\ planned = "already-applied" -> "already-applied"
             [] OTHER -> "capturing"
  /\ UNCHANGED <<tree, run, outside>>

Capture ==
  /\ pc = "capturing"
  /\ Len(originals) < N
  /\ originals' = Append(originals, tree[Changed[Len(originals) + 1]])
  /\ UNCHANGED <<tree, pc, planned, done, unrestored, unrecorded, outside>>

Stage ==
  /\ pc = "capturing"
  /\ Len(originals) = N
  /\ pc' = "writing"
  /\ UNCHANGED <<tree, run, outside>>

\* The guard at the mutation boundary: the file is as captured and the review
\* diffs are still the recorded ones.
Check ==
  /\ pc = "writing"
  /\ done < N
  /\ pc' = IF tree[Changed[done + 1]] = originals[done + 1] /\ artifacts
             THEN "checked" ELSE "rolling"
  /\ UNCHANGED <<tree, run, outside>>

\* Mutant: a file that is replaced does not keep its mode.
WriteAsNew ==
  /\ pc = "checked"
  /\ pc' = "wrote"
  /\ LET f == Changed[done + 1]
     IN  tree' = [tree EXCEPT ![f] = [text |-> Final[f], mode |-> NewMode]]
  /\ UNCHANGED <<run, outside>>

\* os.replace with the captured mode, or os.unlink, which needs the file.
Write ==
  /\ pc = "checked"
  /\ pc' = "wrote"
  /\ LET f == Changed[done + 1] IN
       \/ /\ Final[f] # Absent
          /\ tree' = [tree EXCEPT ![f] =
                        [text |-> Final[f], mode |-> originals[done + 1].mode]]
       \/ /\ Final[f] = Absent
          /\ tree[f] # Gone
          /\ tree' = [tree EXCEPT ![f] = Gone]
  /\ UNCHANGED <<run, outside>>

\* The file joins replaced; the fsync of its directory may then raise.
Record ==
  /\ pc = "wrote"
  /\ done' = done + 1
  /\ pc' \in {"writing", "rolling"}
  /\ UNCHANGED <<tree, planned, originals, unrestored, unrecorded, outside>>

Verify ==
  /\ pc = "writing"
  /\ done = N
  /\ pc' = IF \A i \in 1..N : tree[Changed[i]].text = Final[Changed[i]]
             THEN "applied" ELSE "rolling"
  /\ UNCHANGED <<tree, run, outside>>

\* A read, a temporary file, a replace or an unlink raises.
Fail ==
  /\ pc \in {"capturing", "writing", "checked"}
  /\ pc' = "rolling"
  /\ UNCHANGED <<tree, run, outside>>

\* KeyboardInterrupt between os.replace and replaced.append.
Interrupt ==
  /\ Interrupts
  /\ pc = "wrote"
  /\ pc' = "rolling"
  /\ unrecorded' = {Changed[done + 1]}
  /\ UNCHANGED <<tree, planned, originals, done, unrestored, outside>>

-----------------------------------------------------------------------------
(* The rollback, in reverse order; an error is noted and the loop goes on. *)

\* Mutant: the restored file does not get its mode back.
RestoredAsNew ==
  [tree EXCEPT ![Changed[done]] = [text |-> originals[done].text, mode |-> NewMode]]

Restored == [tree EXCEPT ![Changed[done]] = originals[done]]

Restore ==
  /\ pc = "rolling"
  /\ done > 0
  /\ tree' = Restored
  /\ done' = done - 1
  /\ UNCHANGED <<pc, planned, originals, unrestored, unrecorded, outside>>

\* Mutant: the error is not noted.
RestoreFailsSilently ==
  /\ pc = "rolling"
  /\ done > 0
  /\ tree' \in {tree, Restored}
  /\ done' = done - 1
  /\ UNCHANGED <<pc, planned, originals, unrestored, unrecorded, outside>>

\* The error comes before the file is replaced or, from the fsync, after.
RestoreFails ==
  /\ pc = "rolling"
  /\ done > 0
  /\ tree' \in {tree, Restored}
  /\ unrestored' = unrestored \cup {Changed[done]}
  /\ done' = done - 1
  /\ UNCHANGED <<pc, planned, originals, unrecorded, outside>>

GiveUp ==
  /\ pc = "rolling"
  /\ done = 0
  /\ pc' = "failed"
  /\ UNCHANGED <<tree, run, outside>>

-----------------------------------------------------------------------------
(* A new process on the same tree, and the others that write it.           *)

\* Mutant: replaced belongs to the transaction, not to the commit.
ResetKeepsReplaced ==
  /\ pc' = "idle"
  /\ planned' = "refused"
  /\ originals' = <<>>
  /\ unrestored' = {}
  /\ unrecorded' = {}
  /\ UNCHANGED done

Reset ==
  /\ pc' = "idle"
  /\ planned' = "refused"
  /\ originals' = <<>>
  /\ done' = 0
  /\ unrestored' = {}
  /\ unrecorded' = {}

Again == pc \in Reported /\ Reset /\ UNCHANGED <<tree, outside>>

Crash == pc \in Committing \cup {"planned"} /\ Reset /\ UNCHANGED <<tree, outside>>

Drift(f) ==
  /\ drifts < MaxDrift
  /\ drifts' = drifts + 1
  /\ \E c \in Contents \ {tree[f]} : tree' = [tree EXCEPT ![f] = c]
  /\ touched' = touched \cup {f}
  /\ UNCHANGED <<pc, run, artifacts>>

DriftArtifacts ==
  /\ artifacts' = ~artifacts
  /\ UNCHANGED <<tree, pc, run, touched, drifts>>

Next ==
  \/ Plan \/ Replan \/ Capture \/ Stage \/ Check \/ Write \/ Record \/ Verify
  \/ Fail \/ Interrupt \/ Restore \/ RestoreFails \/ GiveUp \/ Again \/ Crash
  \/ \E f \in Files : Drift(f)
  \/ DriftArtifacts

Spec == Init /\ [][Next]_vars

-----------------------------------------------------------------------------
\* The type invariant: replaced is a prefix of what was captured.
TypeOK ==
  /\ tree \in [Files -> Contents]
  /\ artifacts \in BOOLEAN
  /\ pc \in Phases
  /\ planned \in Results
  /\ originals \in Seq(Contents) /\ Len(originals) <= N
  /\ done \in 0..Len(originals)
  /\ unrestored \subseteq Files
  /\ unrecorded \subseteq Files
  /\ touched \subseteq Files
  /\ drifts \in 0..MaxDrift

\* A commit that failed and reports no rollback error left every file that
\* nobody else wrote as it was, its mode included, whatever call raised.  Only
\* the file whose entry in replaced an interrupt prevented may stay patched.
FailureRestores ==
  pc = "failed" /\ unrestored = {} =>
    \A f \in Files \ (touched \cup unrecorded) : tree[f] = Before[f]

\* "performs atomic transactions with rollback" (README.md:467), the rollback
\* of a BaseException, so of an interrupt between two statements, included.
RollbackIsComplete ==
  pc = "failed" /\ unrestored = {} =>
    \A f \in Files \ touched : tree[f] = Before[f]

\* A run that reports success left every file that nobody else wrote in its
\* final form, its mode included: also a run that follows crashed ones.
SuccessIsComplete ==
  pc \in {"applied", "already-applied"} =>
    \A f \in Files \ touched : tree[f] = After(f)

\* The patcher writes only a tree its plan found pristine: when it replaces a
\* file, the files before it are final and those after it are as they were,
\* but for what others wrote.  What a crash or a failed rollback left half
\* patched is never patched further.
OnlyPristineIsPatched ==
  [][pc = "checked" /\ pc' = "wrote" =>
       \A i \in 1..N : Changed[i] \in touched
         \/ tree[Changed[i]] = IF i <= done THEN After(Changed[i]) ELSE Before[Changed[i]]]_vars

\* The comment on commit (framework.py:1043) says that planning again makes it
\* reject source drift that came after the caller's plan: the file that passes
\* the guard is the one that was planned for.
DriftIsRejected ==
  [][pc = "writing" /\ pc' = "checked" =>
       tree[Changed[done + 1]].text = Before[Changed[done + 1]].text]_vars

\* AtomicPatch's state.  The writes of a commit that may still be rolled back
\* have not happened to it.
source ==
  CASE pc \in Committing -> "pristine"
    [] pc \notin Committing /\ IsFinal -> "patched"
    [] pc \notin Committing /\ ~IsFinal /\ IsPristine -> "pristine"
    [] OTHER -> "mixed"
report ==
  CASE pc = "failed" -> IF unrestored = {} THEN "restored" ELSE "unrestored"
    [] pc \in Reported \ {"failed"} -> pc
    [] OTHER -> "none"
A == INSTANCE AtomicPatch

\* On a tree nobody else writes, the transaction implements AtomicPatch.
PatchesAtomically == A!Spec
=============================================================================
