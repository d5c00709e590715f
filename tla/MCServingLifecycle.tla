------------------------- MODULE MCServingLifecycle -------------------------
(***************************************************************************)
(* Instances: one terminal with something else on the host, and two        *)
(* terminals whose commands overlap.                                       *)
(***************************************************************************)
EXTENDS ServingLifecycle, TLC

CONSTANTS t1, t2

OneShell == {t1}
TwoShells == {t1, t2}

Anything == Objects \union {"port", "volume"}
Nothing == {}
=============================================================================
