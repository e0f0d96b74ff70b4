---------------------------- MODULE MCCloudSync ----------------------------
(***************************************************************************)
(* Instances of CloudSync for TLC.  Devices and events are interchangeable *)
(* for the safety properties; the liveness run uses no symmetry.           *)
(***************************************************************************)
EXTENDS CloudSync, TLC

\* A bound on histories: one event with disturbances, or two events without.
\* Which of the events comes first makes no difference.  No step that fairness
\* requires leaves the bound.
First == CHOOSE e \in Events : TRUE
OneDisturbed ==
  /\ written # {} => First \in written
  /\ disturbances = 0 \/ Cardinality(written) <= 1

Interchangeable == Permutations(Devices) \cup Permutations(Events)
=============================================================================
