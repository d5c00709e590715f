--------------------------- MODULE MCSourcePatch ---------------------------
(***************************************************************************)
(* A patch set that changes one file, creates one and deletes one, beside  *)
(* a file it only identifies the tree by.                                  *)
(***************************************************************************)
EXTENDS SourcePatch

CONSTANTS edited, created, deleted, identity, old, new, foreign, plain, private, executable

MCChanged == <<edited, created, deleted>>
MCBefore ==
  [f \in Files |-> CASE f = edited -> [text |-> old, mode |-> private]
                     [] f = created -> [text |-> Absent, mode |-> NewMode]
                     [] OTHER -> [text |-> old, mode |-> plain]]
MCFinal ==
  [f \in Files |-> IF f \in {edited, created} THEN new
                   ELSE IF f = deleted THEN Absent ELSE old]
MCStated == [f \in Files |-> IF f = edited THEN AnyMode ELSE plain]
MCGitMode == [m \in Modes |-> IF m = executable THEN executable ELSE plain]
=============================================================================
