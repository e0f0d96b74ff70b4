------------------------- MODULE MCCloudSyncControl -------------------------
(***************************************************************************)
(* Instances of CloudSyncControl for TLC.                                  *)
(***************************************************************************)
EXTENDS CloudSyncControl
=============================================================================
