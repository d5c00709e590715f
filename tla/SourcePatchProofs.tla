------------------------- MODULE SourcePatchProofs -------------------------
(***************************************************************************)
(* Proofs about SourcePatch, for any patch set, tree and number of changes *)
(* that other processes make.                                              *)
(*                                                                         *)
(* The invariant says how far the commit is: of the files that nobody else *)
(* wrote, those before the current one are final and the others are as     *)
(* they were.  A run starts there because its plan compared every text and *)
(* because no step leaves such a file in a third form.                     *)
(***************************************************************************)
EXTENDS SourcePatch, SequenceTheorems, TLAPS

Mine == Files \ touched

\* No step leaves a file of the patcher's own in a third form.
TwoForms == \A f \in Mine : tree[f] \in {Before[f], After(f)}

\* What was captured of such a file is its pristine form.
Captured ==
  \A i \in 1..Len(originals) : Changed[i] \in Mine => originals[i] = Before[Changed[i]]

Written(k) ==
  \A i \in 1..N : Changed[i] \in Mine =>
    tree[Changed[i]] = IF i <= k THEN After(Changed[i]) ELSE Before[Changed[i]]

RolledBackTo(k) ==
  \A i \in 1..N : Changed[i] \in Mine /\ i > k =>
    tree[Changed[i]] = Before[Changed[i]] \/ Changed[i] \in unrestored \cup unrecorded

Progress ==
  /\ pc \in {"idle", "planned"} => originals = <<>> /\ done = 0
  /\ pc = "planned" => planned # "refused"
  /\ pc = "capturing" => done = 0 /\ Written(0)
  /\ pc \in {"writing", "checked", "wrote"} => Len(originals) = N
  /\ pc \in {"writing", "checked"} => Written(done)
  /\ pc \in {"checked", "wrote"} => done < N
  /\ pc = "wrote" => Written(done + 1)
  /\ pc \in {"rolling", "failed"} => RolledBackTo(done)
  /\ pc = "failed" => done = 0
  /\ ~Interrupts => unrecorded = {}
  /\ pc \in {"idle", "planned", "capturing", "writing", "checked", "wrote"} => unrecorded = {}
  /\ pc \in Committing \cup {"failed"} => \E f \in Files : Final[f] # Before[f].text

IInv == TypeOK /\ TwoForms /\ Captured /\ Progress /\ SuccessIsComplete

-----------------------------------------------------------------------------
(* The two forms of a file.                                                *)

LEMMA Forms ==
  ASSUME NEW f \in Files
  PROVE  /\ Before[f] \in Contents /\ After(f) \in Contents /\ Gone \in Contents
         /\ After(f).text = Final[f]
         /\ Final[f] = Before[f].text => After(f) = Before[f]
<1>1. Before[f] \in Contents /\ Final[f] \in Texts \cup {Absent}
  BY TreeAssumption
<1>2. Gone \in Contents /\ Gone.text = Absent
  BY DEF Gone, Contents
<1>3. Before[f].mode \in Modes
  BY <1>1, TextAssumption DEF Contents, Gone
<1>4. After(f) \in Contents /\ After(f).text = Final[f]
  BY <1>1, <1>2, <1>3 DEF After, Contents
<1>5. ASSUME Final[f] = Before[f].text
      PROVE  After(f) = Before[f]
  <2>1. CASE Final[f] = Absent
    BY <1>1, <1>5, <2>1, TextAssumption DEF Contents, After
  <2>2. CASE Final[f] # Absent
    <3>1. Before[f] \in [text : Texts, mode : Modes]
      BY <1>1, <1>5, <2>2 DEF Contents, Gone
    <3>2. Before[f] = [text |-> Before[f].text, mode |-> Before[f].mode]
      BY <3>1
    <3> QED BY <1>5, <2>2, <3>2 DEF After
  <2> QED BY <2>1, <2>2
<1> QED BY <1>1, <1>2, <1>4, <1>5

LEMMA ChangedType ==
  /\ N \in Nat /\ DOMAIN Changed = 1..N
  /\ \A i \in 1..N : Changed[i] \in Files
  /\ \A i, j \in 1..N : Changed[i] = Changed[j] => i = j
BY ChangedAssumption, LenProperties, ElementOfSeq DEF N

\* A tree whose texts are the pristine ones is the pristine tree, but for what
\* others wrote; the same of the final texts.
LEMMA TextsTell ==
  ASSUME TwoForms
  PROVE  /\ IsPristine => \A f \in Mine : tree[f] = Before[f]
         /\ IsFinal => \A f \in Mine : tree[f] = After(f)
<1> SUFFICES ASSUME NEW f \in Mine
             PROVE  /\ IsPristine => tree[f] = Before[f]
                    /\ IsFinal => tree[f] = After(f)
  OBVIOUS
<1>1. tree[f] = Before[f] \/ tree[f] = After(f)
  BY DEF TwoForms
<1>2. f \in Files
  BY DEF Mine
<1> QED BY <1>1, <1>2, Forms DEF IsPristine, IsFinal

-----------------------------------------------------------------------------
(* The invariant.                                                          *)

LEMMA InitInv == Init => IInv
<1> SUFFICES ASSUME Init PROVE IInv
  OBVIOUS
<1>1. tree \in [Files -> Contents] /\ TwoForms
  BY Forms, TreeAssumption DEF Init, TwoForms, Mine
<1>2. originals \in Seq(Contents) /\ Len(originals) = 0
  BY DEF Init
<1>3. TypeOK
  BY <1>1, <1>2, ChangedType, BoundAssumption DEF Init, TypeOK, Phases, Results
<1> QED
  BY <1>1, <1>3 DEF Init, IInv, Captured, Progress, SuccessIsComplete, Committing

\* A step that leaves the tree, what is captured and who wrote it.
LEMMA SameFiles ==
  ASSUME TwoForms, Captured, UNCHANGED <<tree, originals, touched>>
  PROVE  TwoForms' /\ Captured'
BY DEF TwoForms, Captured, Mine

LEMMA PlanStep == ASSUME IInv, Plan PROVE IInv'
<1> USE DEF Plan, outside
<1>0. Verdict \in Results
  BY DEF Verdict, Results
<1>1. TypeOK'
  <2>1. pc' \in Phases
    BY DEF Phases, Reported
  <2> QED BY <1>0, <2>1 DEF IInv, TypeOK
<1>2. TwoForms' /\ Captured'
  BY SameFiles DEF IInv
<1>3. Progress' /\ SuccessIsComplete'
  BY DEF IInv, Progress, Committing, SuccessIsComplete
<1> QED BY <1>1, <1>2, <1>3 DEF IInv

LEMMA ReplanStep == ASSUME IInv, Replan PROVE IInv'
<1> USE DEF Replan, outside, run
<1>1. TypeOK'
  BY DEF IInv, TypeOK, Phases, Committing, Reported
<1>2. TwoForms' /\ Captured'
  BY SameFiles DEF IInv
<1>3. CASE pc' = "refused"
  BY <1>1, <1>2, <1>3 DEF IInv, Progress, SuccessIsComplete, Committing
<1>4. CASE pc' = "already-applied"
  <2>1. IsFinal
    BY <1>4 DEF Verdict
  <2>2. \A f \in Mine : tree[f] = After(f)
    BY <2>1, TextsTell DEF IInv
  <2>3. SuccessIsComplete'
    BY <2>2 DEF SuccessIsComplete, Mine, After
  <2>4. Progress'
    BY <1>4 DEF IInv, Progress, Committing
  <2> QED BY <1>1, <1>2, <2>3, <2>4 DEF IInv
<1>5. CASE pc' = "capturing"
  <2>1. IsPristine /\ ~IsFinal
    BY <1>5 DEF Verdict, IInv, TypeOK, Results, Progress
  <2>2. \A f \in Mine : tree[f] = Before[f]
    BY <2>1, TextsTell DEF IInv
  <2>3. Written(0)'
    BY <2>2 DEF Written, Mine
  <2>4. \E f \in Files : Final[f] # Before[f].text
    BY <2>1 DEF IsPristine, IsFinal
  <2>5. Progress' /\ SuccessIsComplete'
    BY <1>5, <2>3, <2>4 DEF IInv, Progress, Committing, SuccessIsComplete
  <2> QED BY <1>1, <1>2, <2>5 DEF IInv
<1> QED BY <1>3, <1>4, <1>5

LEMMA CaptureStep == ASSUME IInv, Capture PROVE IInv'
<1> USE DEF Capture, outside
<1> DEFINE k == Len(originals) + 1
<1>1. k \in 1..N /\ Len(originals) \in Nat /\ Changed[k] \in Files
  BY ChangedType, LenProperties DEF IInv, TypeOK
<1>2. tree[Changed[k]] \in Contents
  BY <1>1 DEF IInv, TypeOK
<1>3. /\ originals' \in Seq(Contents)
      /\ Len(originals') = k
      /\ \A i \in 1..Len(originals) : originals'[i] = originals[i]
      /\ originals'[k] = tree[Changed[k]]
  BY <1>2, AppendProperties DEF IInv, TypeOK
<1>4. TypeOK'
  BY <1>1, <1>3 DEF IInv, TypeOK
<1>5. TwoForms' /\ Progress' /\ SuccessIsComplete'
  BY DEF IInv, TwoForms, Mine, Progress, Written, Committing, SuccessIsComplete
<1>6. Captured'
  <2> SUFFICES ASSUME NEW i \in 1..k, Changed[i] \in Mine
               PROVE  originals'[i] = Before[Changed[i]]
    BY <1>3 DEF Captured, Mine
  <2>1. CASE i = k
    BY <1>1, <1>3, <2>1 DEF IInv, Progress, Written
  <2>2. CASE i # k
    BY <1>1, <1>3, <2>2 DEF IInv, Captured
  <2> QED BY <2>1, <2>2
<1> QED BY <1>4, <1>5, <1>6 DEF IInv

\* A step of the commit that writes no file.
LEMMA ControlStep ==
  ASSUME IInv, UNCHANGED <<tree, run, outside>>, pc' \in Phases, Progress',
         pc' \notin {"applied", "already-applied"}
  PROVE  IInv'
<1>1. TypeOK'
  BY DEF IInv, TypeOK, run, outside
<1>2. TwoForms' /\ Captured'
  BY SameFiles DEF IInv, run, outside
<1> QED BY <1>1, <1>2 DEF IInv, SuccessIsComplete

LEMMA StageStep == ASSUME IInv, Stage PROVE IInv'
<1>1. Progress' /\ pc' \in Phases
  BY DEF Stage, run, outside, IInv, Progress, Written, Mine, Committing, Phases
<1> QED BY <1>1, ControlStep DEF Stage

\* What is written so far, seen from the rollback.
LEMMA ToRollBack ==
  ASSUME NEW k \in Nat, Written(k)
  PROVE  RolledBackTo(k)
BY ChangedType DEF Written, RolledBackTo

LEMMA CheckStep == ASSUME IInv, Check PROVE IInv'
<1> USE DEF Check
<1>1. done \in Nat /\ Written(done) /\ Len(originals) = N
  BY ChangedType DEF IInv, TypeOK, Progress
<1>2. RolledBackTo(done)
  BY <1>1, ToRollBack
<1>3. Written(done)' /\ RolledBackTo(done)'
  BY <1>1, <1>2 DEF Written, RolledBackTo, Mine, run, outside
<1>4. Progress' /\ pc' \in Phases
  BY <1>1, <1>3 DEF IInv, Progress, run, Committing, Phases
<1> QED BY <1>4, ControlStep

LEMMA FailStep == ASSUME IInv, Fail PROVE IInv'
<1> USE DEF Fail
<1>1. done \in Nat /\ Written(done)
  BY ChangedType DEF IInv, TypeOK, Progress
<1>2. RolledBackTo(done)
  BY <1>1, ToRollBack
<1>3. RolledBackTo(done)'
  BY <1>2 DEF RolledBackTo, Mine, run, outside
<1>4. Progress' /\ pc' \in Phases
  BY <1>3 DEF IInv, Progress, run, Committing, Phases
<1> QED BY <1>4, ControlStep

\* The file written but not in replaced is the one an interrupt may forget.
LEMMA InterruptStep == ASSUME IInv, Interrupt PROVE IInv'
<1> USE DEF Interrupt, outside
<1> DEFINE k == done + 1
<1>1. done \in Nat /\ k \in 1..N /\ Changed[k] \in Files /\ Written(k)
  BY ChangedType DEF IInv, TypeOK, Progress
<1>2. TypeOK'
  BY <1>1 DEF IInv, TypeOK, Phases, Committing
<1>3. TwoForms' /\ Captured'
  BY SameFiles DEF IInv
<1>4. RolledBackTo(done)'
  <2> SUFFICES ASSUME NEW i \in 1..N, Changed[i] \in Mine, i > done
               PROVE  tree[Changed[i]] = Before[Changed[i]]
                        \/ Changed[i] \in unrestored \cup {Changed[k]}
    BY DEF RolledBackTo, Mine
  <2>1. CASE i = k
    BY <2>1
  <2>2. CASE i # k
    BY <1>1, <2>2 DEF Written
  <2> QED BY <2>1, <2>2
<1>5. Progress' /\ SuccessIsComplete'
  BY <1>4 DEF IInv, Progress, SuccessIsComplete, Committing
<1> QED BY <1>2, <1>3, <1>5 DEF IInv

LEMMA GiveUpStep == ASSUME IInv, GiveUp PROVE IInv'
<1> USE DEF GiveUp
<1>1. RolledBackTo(done)'
  BY DEF IInv, Progress, RolledBackTo, Mine, run, outside
<1>2. Progress' /\ pc' \in Phases
  BY <1>1 DEF IInv, Progress, run, Committing, Phases, Reported
<1> QED BY <1>2, ControlStep

LEMMA VerifyStep == ASSUME IInv, Verify PROVE IInv'
<1> USE DEF Verify
<1>1. done = N /\ Written(N) /\ N \in Nat
  BY ChangedType DEF IInv, Progress
<1>2. CASE pc' = "rolling"
  <2>1. RolledBackTo(done)'
    BY <1>1, ToRollBack DEF RolledBackTo, Mine, run, outside
  <2>2. Progress' /\ pc' \in Phases
    BY <1>2, <2>1 DEF IInv, Progress, run, Committing, Phases
  <2> QED BY <1>2, <2>2, ControlStep
<1>3. CASE pc' = "applied"
  <2>1. ASSUME NEW f \in Mine PROVE tree[f] = After(f)
    <3>1. f \in Files /\ tree[f] \in {Before[f], After(f)}
      BY DEF IInv, TwoForms, Mine
    <3>2. CASE Final[f] = Before[f].text
      BY <3>1, <3>2, Forms
    <3>3. CASE Final[f] # Before[f].text
      <4>1. PICK i \in 1..N : Changed[i] = f
        BY <3>1, <3>3, ChangedAssumption
      <4> QED BY <1>1, <4>1 DEF Written
    <3> QED BY <3>2, <3>3
  <2>2. SuccessIsComplete'
    BY <2>1 DEF SuccessIsComplete, Mine, After, outside
  <2>3. Progress' /\ TypeOK'
    BY <1>3 DEF IInv, TypeOK, Progress, Committing, run, outside, Phases, Reported
  <2>4. TwoForms' /\ Captured'
    BY SameFiles DEF IInv, run, outside
  <2> QED BY <2>2, <2>3, <2>4 DEF IInv
<1> QED BY <1>2, <1>3

LEMMA RecordStep == ASSUME IInv, Record PROVE IInv'
<1> USE DEF Record, outside
<1>1. done \in Nat /\ Written(done + 1) /\ Len(originals) = N /\ done < N
  BY ChangedType DEF IInv, TypeOK, Progress
<1>2. TypeOK'
  BY <1>1, ChangedType DEF IInv, TypeOK, Phases, Committing
<1>3. TwoForms' /\ Captured'
  BY SameFiles DEF IInv
<1>4. Written(done)' /\ RolledBackTo(done)'
  <2>1. RolledBackTo(done + 1)
    BY <1>1, ToRollBack
  <2> QED BY <1>1, <2>1 DEF Written, RolledBackTo, Mine
<1>5. Progress' /\ SuccessIsComplete'
  BY <1>1, <1>4 DEF IInv, Progress, Committing, SuccessIsComplete
<1> QED BY <1>2, <1>3, <1>5 DEF IInv

LEMMA WriteStep == ASSUME IInv, Write PROVE IInv'
<1> USE DEF outside, run
<1> DEFINE k == done + 1
           f == Changed[k]
           c == IF Final[f] = Absent THEN Gone
                ELSE [text |-> Final[f], mode |-> originals[k].mode]
<1>1. /\ done \in Nat /\ k \in 1..N /\ Written(done) /\ Len(originals) = N
      /\ f \in Files /\ tree \in [Files -> Contents]
  BY ChangedType DEF Write, IInv, TypeOK, Progress
<1>2. tree' = [tree EXCEPT ![f] = c]
  BY DEF Write
<1>3. originals[k] \in Contents
  BY <1>1, ElementOfSeq DEF IInv, TypeOK
<1>4. c \in Contents
  <2>1. originals[k].mode \in Modes
    BY <1>3, TextAssumption DEF Contents, Gone
  <2>2. Final[f] \in Texts \cup {Absent}
    BY <1>1, TreeAssumption
  <2> QED BY <2>1, <2>2 DEF Contents
<1>5. f \in Mine => c = After(f)
  BY <1>1 DEF IInv, Captured, After
<1>6. TypeOK'
  BY <1>1, <1>2, <1>4 DEF Write, IInv, TypeOK, Phases, Committing
<1>7. TwoForms' /\ Captured'
  <2>1. TwoForms'
    BY <1>1, <1>2, <1>5 DEF Write, IInv, TwoForms, Mine, After
  <2> QED BY <2>1 DEF Write, IInv, Captured, Mine
<1>8. Written(done + 1)'
  <2> SUFFICES ASSUME NEW i \in 1..N, Changed[i] \in Mine
               PROVE  tree'[Changed[i]] = IF i <= done + 1 THEN After(Changed[i])
                                          ELSE Before[Changed[i]]
    BY DEF Write, Written, Mine, After
  <2>1. CASE i = k
    BY <1>1, <1>2, <1>5, <2>1
  <2>2. CASE i # k
    <3>1. Changed[i] # f /\ Changed[i] \in Files
      BY <1>1, <2>2, ChangedType
    <3>2. tree'[Changed[i]] = tree[Changed[i]]
      BY <1>1, <1>2, <3>1
    <3> QED BY <1>1, <2>2, <3>2 DEF Written
  <2> QED BY <2>1, <2>2
<1>9. Progress' /\ SuccessIsComplete'
  BY <1>1, <1>8 DEF Write, IInv, Progress, SuccessIsComplete, Committing
<1> QED BY <1>6, <1>7, <1>9 DEF IInv

\* A step of the rollback: the file is restored, or noted among the errors.
LEMMA RollBackStep ==
  ASSUME IInv, Restore \/ RestoreFails
  PROVE  IInv'
<1> USE DEF outside
<1> DEFINE f == Changed[done]
<1>1. /\ pc = "rolling" /\ pc' = pc /\ done \in 1..N /\ done' = done - 1
      /\ done <= Len(originals) /\ Len(originals) \in Nat
      /\ tree' \in {tree, Restored}
      /\ tree' = Restored \/ unrestored' = unrestored \cup {f}
      /\ unrestored \subseteq unrestored' /\ unrestored' \subseteq unrestored \cup {f}
      /\ UNCHANGED <<planned, originals, unrecorded, outside>>
  BY ChangedType, LenProperties DEF Restore, RestoreFails, IInv, TypeOK
<1>2. f \in Files /\ tree \in [Files -> Contents] /\ RolledBackTo(done)
  BY <1>1, ChangedType DEF IInv, TypeOK, Progress
<1>3. originals[done] \in Contents
  BY <1>1, ElementOfSeq DEF IInv, TypeOK
<1>4. f \in Mine => originals[done] = Before[f]
  BY <1>1 DEF IInv, Captured
<1>5. TypeOK'
  BY <1>1, <1>2, <1>3 DEF IInv, TypeOK, Restored
<1>6. TwoForms' /\ Captured'
  <2>1. TwoForms'
    BY <1>1, <1>2, <1>4 DEF IInv, TwoForms, Mine, Restored, After
  <2> QED BY <1>1, <2>1 DEF IInv, Captured, Mine
<1>7. RolledBackTo(done)'
  <2> SUFFICES ASSUME NEW i \in 1..N, Changed[i] \in Mine, i > done - 1
               PROVE  tree'[Changed[i]] = Before[Changed[i]]
                        \/ Changed[i] \in unrestored' \cup unrecorded'
    BY <1>1 DEF RolledBackTo, Mine
  <2>1. CASE i = done
    BY <1>1, <1>2, <1>4, <2>1 DEF Restored
  <2>2. CASE i # done
    <3>1. Changed[i] # f /\ i > done
      BY <1>1, <2>2, ChangedType
    <3>2. tree'[Changed[i]] = tree[Changed[i]]
      BY <1>1, <1>2, <3>1 DEF Restored, Mine
    <3> QED BY <1>1, <1>2, <3>1, <3>2 DEF RolledBackTo
  <2> QED BY <2>1, <2>2
<1>8. Progress' /\ SuccessIsComplete'
  BY <1>1, <1>7 DEF IInv, Progress, SuccessIsComplete, Committing
<1> QED BY <1>5, <1>6, <1>8 DEF IInv

LEMMA ResetStep == ASSUME IInv, Reset, UNCHANGED <<tree, outside>> PROVE IInv'
<1> USE DEF Reset, outside
<1>1. originals' \in Seq(Contents) /\ Len(originals') = 0
  OBVIOUS
<1>2. TypeOK'
  BY <1>1, ChangedType DEF IInv, TypeOK, Phases, Results
<1>3. TwoForms' /\ Captured'
  BY <1>1 DEF IInv, TwoForms, Captured, Mine, After
<1>4. Progress' /\ SuccessIsComplete'
  BY DEF Progress, SuccessIsComplete, Committing
<1> QED BY <1>2, <1>3, <1>4 DEF IInv

LEMMA DriftStep == ASSUME IInv, NEW f \in Files, Drift(f) PROVE IInv'
<1> USE DEF Drift, run
<1>1. Mine' = Mine \ {f} /\ tree \in [Files -> Contents]
  BY DEF Mine, IInv, TypeOK
<1>2. \A g \in Mine' : tree'[g] = tree[g]
  BY <1>1 DEF Mine
<1>3. TypeOK'
  <2>1. tree' \in [Files -> Contents]
    BY <1>1
  <2>2. drifts' \in 0..MaxDrift
    BY BoundAssumption DEF IInv, TypeOK
  <2> QED BY <2>1, <2>2 DEF IInv, TypeOK
<1>4. TwoForms' /\ Captured' /\ SuccessIsComplete'
  <2>1. TwoForms'
    BY <1>1, <1>2 DEF IInv, TwoForms, After
  <2>2. Captured'
    BY <1>1 DEF IInv, Captured
  <2>3. SuccessIsComplete'
    BY <1>1, <1>2 DEF IInv, SuccessIsComplete, Mine, After
  <2> QED BY <2>1, <2>2, <2>3
<1>5. Progress'
  <2>1. /\ Written(0) => Written(0)'
        /\ Written(done) => Written(done)'
        /\ Written(done + 1) => Written(done + 1)'
        /\ RolledBackTo(done) => RolledBackTo(done)'
    BY <1>1, <1>2 DEF Written, RolledBackTo, After
  <2> QED BY <2>1 DEF IInv, Progress
<1> QED BY <1>3, <1>4, <1>5 DEF IInv

LEMMA DriftArtifactsStep == ASSUME IInv, DriftArtifacts PROVE IInv'
<1>1. UNCHANGED <<tree, pc, run, touched, drifts>>
  BY DEF DriftArtifacts
<1> QED
  BY <1>1 DEF DriftArtifacts, IInv, TypeOK, TwoForms, Captured, Progress, Written,
     RolledBackTo, Mine, SuccessIsComplete, After, run

LEMMA NextInv == IInv /\ [Next]_vars => IInv'
<1> SUFFICES ASSUME IInv, [Next]_vars PROVE IInv'
  OBVIOUS
<1>1. CASE Plan BY <1>1, PlanStep
<1>2. CASE Replan BY <1>2, ReplanStep
<1>3. CASE Capture BY <1>3, CaptureStep
<1>4. CASE Stage BY <1>4, StageStep
<1>5. CASE Check BY <1>5, CheckStep
<1>6. CASE Write BY <1>6, WriteStep
<1>7. CASE Record BY <1>7, RecordStep
<1>8. CASE Verify BY <1>8, VerifyStep
<1>9. CASE Fail BY <1>9, FailStep
<1>10. CASE Interrupt BY <1>10, InterruptStep
<1>11. CASE Restore \/ RestoreFails BY <1>11, RollBackStep
<1>12. CASE GiveUp BY <1>12, GiveUpStep
<1>13. CASE Again \/ Crash BY <1>13, ResetStep DEF Again, Crash
<1>14. CASE \E f \in Files : Drift(f) BY <1>14, DriftStep
<1>15. CASE DriftArtifacts BY <1>15, DriftArtifactsStep
<1>16. CASE UNCHANGED vars
  BY <1>16 DEF vars, run, outside, IInv, TypeOK, TwoForms, Captured, Progress, Written,
     RolledBackTo, Mine, SuccessIsComplete, After
<1> QED
  BY <1>1, <1>2, <1>3, <1>4, <1>5, <1>6, <1>7, <1>8, <1>9, <1>10, <1>11, <1>12, <1>13,
     <1>14, <1>15, <1>16 DEF Next

THEOREM Invariance == Spec => []IInv
BY InitInv, NextInv, PTL DEF Spec

-----------------------------------------------------------------------------
(* The properties.                                                         *)

\* The transaction's state keeps its types, for any patch set and tree.
THEOREM TypeCorrect == Spec => []TypeOK
BY Invariance, PTL DEF IInv

\* A run that reports success left every file that nobody else wrote final,
\* however many runs crashed or failed before it.
THEOREM SuccessIsFinal == Spec => []SuccessIsComplete
BY Invariance, PTL DEF IInv

\* A failed commit without rollback errors left every file that nobody else
\* wrote as it was, but for the one an exception kept out of replaced.
THEOREM FailureIsUndone == Spec => []FailureRestores
<1>1. IInv => FailureRestores
  <2> SUFFICES ASSUME IInv, pc = "failed", unrestored = {}, NEW f \in Mine \ unrecorded
               PROVE  tree[f] = Before[f]
    BY DEF FailureRestores, Mine
  <2>1. f \in Files /\ tree[f] \in {Before[f], After(f)}
    BY DEF IInv, TwoForms, Mine
  <2>2. CASE Final[f] = Before[f].text
    BY <2>1, <2>2, Forms
  <2>3. CASE Final[f] # Before[f].text
    <3>1. PICK i \in 1..N : Changed[i] = f
      BY <2>1, <2>3, ChangedAssumption
    <3> QED BY <3>1, ChangedType DEF IInv, Progress, RolledBackTo
  <2> QED BY <2>2, <2>3
<1> QED BY <1>1, Invariance, PTL

\* The patcher writes only a tree whose files, but for those that others
\* wrote, are pristine or written by this very run.
THEOREM PristineIsPatched == Spec => OnlyPristineIsPatched
<1>1. IInv =>
        [pc = "checked" /\ pc' = "wrote" =>
           \A i \in 1..N : Changed[i] \in touched
             \/ tree[Changed[i]] = IF i <= done THEN After(Changed[i])
                                   ELSE Before[Changed[i]]]_vars
  BY ChangedType DEF IInv, Progress, Written, Mine
<1> QED BY <1>1, Invariance, PTL DEF OnlyPristineIsPatched

-----------------------------------------------------------------------------
(* The refinement.                                                         *)

Alone == drifts = 0 /\ touched = {}

LEMMA AloneAlways ==
  ASSUME MaxDrift = 0
  PROVE  Spec => []Alone
<1>1. Init => Alone
  BY DEF Init, Alone
<1>2. Alone /\ [Next]_vars => Alone'
  <2> SUFFICES ASSUME Alone, [Next]_vars PROVE UNCHANGED <<drifts, touched>>
    BY DEF Alone
  <2>1. ASSUME NEW f \in Files, Drift(f) PROVE FALSE
    BY <2>1 DEF Drift, Alone
  <2> QED
    BY <2>1 DEF Next, vars, run, outside, Plan, Replan, Capture, Stage, Check, Write,
       Record, Verify, Fail, Interrupt, Restore, RestoreFails, GiveUp, Again, Crash,
       DriftArtifacts
<1> QED BY <1>1, <1>2, PTL DEF Spec

\* A commit has something to change, so its pristine tree is not final.
LEMMA TreeTells ==
  ASSUME Alone, Progress, pc \in Committing \cup {"failed"}
  PROVE  (\A f \in Files : tree[f] = Before[f]) => IsPristine /\ ~IsFinal
BY DEF IsPristine, IsFinal, Progress

\* A step within a commit, or that reports nothing and leaves the tree.
LEMMA Stutter ==
  ASSUME \/ pc \in Committing /\ pc' \in Committing
         \/ /\ pc \in {"idle", "planned"} /\ pc' \in {"idle", "planned"}
            /\ UNCHANGED tree
  PROVE  UNCHANGED <<source, report>>
<1>1. CASE pc \in Committing /\ pc' \in Committing
  BY <1>1 DEF source, report, Committing, Reported
<1>2. CASE /\ pc \in {"idle", "planned"} /\ pc' \in {"idle", "planned"}
           /\ UNCHANGED tree
  BY <1>2 DEF source, report, Committing, Reported, IsFinal, IsPristine
<1> QED BY <1>1, <1>2

LEMMA StepRefines ==
  ASSUME MaxDrift = 0, ~Interrupts, IInv, IInv', Alone, Alone', [Next]_vars
  PROVE  [A!Next]_<<source, report>>
<1> USE DEF A!Next
<1>1. ASSUME NEW f \in Files, Drift(f) PROVE FALSE
  BY <1>1 DEF Drift, Alone
<1>2. CASE Plan
  <2>1. CASE pc' = "planned"
    BY <1>2, <2>1, Stutter DEF Plan
  <2>2. CASE pc' = "refused"
    <3>1. report = "none" /\ report' = "refused"
      BY <1>2, <2>2 DEF Plan, report, Reported
    <3>2. source' = source
      BY <1>2, <2>2 DEF Plan, source, Committing, IsFinal, IsPristine
    <3> QED BY <3>1, <3>2 DEF A!Refuse, A!Reporting
  <2> QED BY <1>2, <2>1, <2>2 DEF Plan
<1>3. CASE Replan
  <2>1. report = "none"
    BY <1>3 DEF Replan, report, Reported
  <2>2. CASE pc' = "refused"
    <3>1. report' = "refused"
      BY <2>2 DEF report, Reported
    <3>2. source' = source
      BY <1>3, <2>2 DEF Replan, source, Committing, IsFinal, IsPristine
    <3> QED BY <2>1, <3>1, <3>2 DEF A!Refuse, A!Reporting
  <2>3. CASE pc' = "already-applied"
    <3>1. IsFinal
      BY <1>3, <2>3 DEF Replan, Verdict
    <3>2. report' = "already-applied" /\ source = "patched" /\ source' = source
      BY <1>3, <2>3, <3>1 DEF Replan, report, Reported, source, Committing, IsFinal
    <3> QED BY <2>1, <3>2 DEF A!FindApplied, A!Reporting
  <2>4. CASE pc' = "capturing"
    <3>1. ~IsFinal /\ IsPristine
      BY <1>3, <2>4 DEF Replan, Verdict, IInv, TypeOK, Results, Progress
    <3>2. source = "pristine" /\ source' = "pristine"
      BY <1>3, <2>4, <3>1 DEF Replan, source, Committing
    <3>3. report' = "none"
      BY <2>4 DEF report, Reported
    <3> QED BY <2>1, <3>2, <3>3
  <2> QED BY <1>3, <2>2, <2>3, <2>4 DEF Replan
<1>4. CASE Capture \/ Stage \/ Check \/ Write \/ Record \/ Fail \/ Interrupt \/ Restore
             \/ RestoreFails
  <2>1. pc \in Committing /\ pc' \in Committing
    BY <1>4 DEF Capture, Stage, Check, Write, Record, Fail, Interrupt, Restore,
       RestoreFails, Committing
  <2> QED BY <2>1, Stutter
<1>5. CASE Verify
  <2>1. CASE pc' = "rolling"
    BY <1>5, <2>1, Stutter DEF Verify, Committing
  <2>2. CASE pc' = "applied"
    <3>1. \A f \in Files : tree'[f] = After(f)
      BY <2>2 DEF IInv, SuccessIsComplete, Alone, After
    <3>2. IsFinal'
      BY <3>1, Forms DEF IsFinal
    <3>3. report = "none" /\ report' = "applied"
      BY <1>5, <2>2 DEF Verify, report, Reported
    <3>4. source = "pristine" /\ source' = "patched"
      BY <1>5, <2>2, <3>2 DEF Verify, source, Committing
    <3> QED BY <3>3, <3>4 DEF A!Apply, A!Reporting
  <2> QED BY <1>5, <2>1, <2>2 DEF Verify
<1>6. CASE GiveUp
  <2>1. report = "none" /\ source = "pristine" /\ pc' = "failed"
    BY <1>6 DEF GiveUp, report, Reported, source, Committing
  <2>2. CASE unrestored = {}
    <3>1. \A f \in Files : tree[f] = Before[f]
      <4> SUFFICES ASSUME NEW f \in Files PROVE tree[f] = Before[f]
        OBVIOUS
      <4>1. tree[f] \in {Before[f], After(f)}
        BY DEF IInv, TwoForms, Mine, Alone
      <4>2. CASE Final[f] = Before[f].text
        BY <4>1, <4>2, Forms
      <4>3. CASE Final[f] # Before[f].text
        <5>1. PICK i \in 1..N : Changed[i] = f
          BY <4>3, ChangedAssumption
        <5> QED
          BY <1>6, <2>2, <5>1, ChangedType
          DEF GiveUp, IInv, Progress, RolledBackTo, Mine, Alone
      <4> QED BY <4>2, <4>3
    <3>2. IsPristine /\ ~IsFinal
      BY <1>6, <3>1, TreeTells DEF GiveUp, IInv, Committing
    <3>3. source' = "pristine" /\ report' = "restored"
      BY <1>6, <2>2, <3>2
      DEF GiveUp, run, source, report, Committing, IsPristine, IsFinal
    <3> QED BY <2>1, <3>3 DEF A!Restore, A!Reporting
  <2>3. CASE unrestored # {}
    <3>1. report' = "unrestored" /\ source' \in A!Sources
      BY <1>6, <2>3 DEF GiveUp, run, report, source, A!Sources
    <3> QED BY <2>1, <3>1 DEF A!Lose, A!Reporting
  <2> QED BY <2>2, <2>3
<1>7. CASE Again
  <2>1. report # "none" /\ report' = "none"
    BY <1>7 DEF Again, Reset, report, Reported
  <2>2. source' = source
    BY <1>7 DEF Again, Reset, Reported, source, Committing, IsFinal, IsPristine
  <2> QED BY <2>1, <2>2 DEF A!Again
<1>8. CASE Crash
  <2>1. CASE pc = "planned"
    BY <1>8, <2>1, Stutter DEF Crash, Reset
  <2>2. CASE pc \in Committing
    <3>1. report = "none" /\ report' = "none" /\ source = "pristine"
      BY <1>8, <2>2 DEF Crash, Reset, report, Reported, source, Committing
    <3>2. source' \in A!Sources
      BY DEF source, A!Sources
    <3> QED BY <3>1, <3>2 DEF A!Crash
  <2> QED BY <1>8, <2>1, <2>2 DEF Crash
<1>9. CASE DriftArtifacts \/ UNCHANGED vars
  BY <1>9 DEF DriftArtifacts, vars, run, source, report, IsFinal, IsPristine
<1> QED
  BY <1>1, <1>2, <1>3, <1>4, <1>5, <1>6, <1>7, <1>8, <1>9 DEF Next

\* On a tree nobody else writes, and where no exception is raised between two
\* statements, the transaction implements AtomicPatch, whatever step fails
\* and wherever the patcher is killed.
THEOREM PatchIsAtomic ==
  ASSUME MaxDrift = 0, ~Interrupts
  PROVE  Spec => PatchesAtomically
<1>1. Init => A!Init
  <2> SUFFICES ASSUME Init PROVE A!Init
    OBVIOUS
  <2>1. report = "none"
    BY DEF Init, report, Reported
  <2>2. IsPristine \/ IsFinal
    BY Forms DEF Init, IsPristine, IsFinal
  <2>3. source \in {"pristine", "patched"}
    BY <2>2 DEF Init, source, Committing
  <2> QED BY <2>1, <2>3 DEF A!Init
<1>2. Spec => []Alone
  BY AloneAlways
<1> QED
  BY <1>1, <1>2, StepRefines, Invariance, PTL DEF Spec, PatchesAtomically, A!Spec
=============================================================================
