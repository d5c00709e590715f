---------------------------- MODULE AtomicPatch ----------------------------
(***************************************************************************)
(* What apply_vllm_patchset promises of a source tree nobody else writes:  *)
(* a run patches the pristine tree as a whole, or reports why it did not.  *)
(* A tree left mixed, by a crash or a failed rollback, is refused from     *)
(* then on: no run finishes it, and none reports it patched.               *)
(***************************************************************************)

VARIABLES source, report

Sources == {"pristine", "patched", "mixed"}
Reports == {"none", "applied", "already-applied", "refused", "restored", "unrestored"}

Init == source \in {"pristine", "patched"} /\ report = "none"

Reporting(r) == report = "none" /\ report' = r

Apply == Reporting("applied") /\ source = "pristine" /\ source' = "patched"
FindApplied == Reporting("already-applied") /\ source = "patched" /\ UNCHANGED source
Refuse == Reporting("refused") /\ UNCHANGED source
Restore == Reporting("restored") /\ source = "pristine" /\ UNCHANGED source
Lose == Reporting("unrestored") /\ source = "pristine" /\ source' \in Sources
Crash == report = "none" /\ source = "pristine" /\ source' \in Sources /\ UNCHANGED report
Again == report # "none" /\ report' = "none" /\ UNCHANGED source

Next == Apply \/ FindApplied \/ Refuse \/ Restore \/ Lose \/ Crash \/ Again

Spec == Init /\ [][Next]_<<source, report>>
=============================================================================
