-------------------------- MODULE MCControlPlane --------------------------
(***************************************************************************)
(* Instances of ControlPlane for TLC.                                      *)
(***************************************************************************)
EXTENDS ControlPlane, TLC

CONSTANTS c0, c1, c2, d0, d1

(* c1 conflicts with the discovered routes d1; c2 does not render at all.  *)
Conflicts == {<<c1, d1>>, <<c2, d0>>, <<c2, d1>>}

(* All routes render on their own; one set conflicts with what may be      *)
(* discovered.                                                             *)
OneConflict == {<<c1, d1>>}

(* Discovery returns one set of routes and everything renders.             *)
NoConflicts == {}

=============================================================================
