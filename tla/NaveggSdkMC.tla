---------------------------- MODULE NaveggSdkMC ----------------------------
(***************************************************************************)
(* The symmetry of NaveggSdk.  Objects and user ids are compared for       *)
(* equality only, and no CHOOSE picks one of them.                         *)
(***************************************************************************)
EXTENDS NaveggSdk

LOCAL INSTANCE TLC

Interchangeable == Permutations(Instances) \cup Permutations(UserIds)

===========================================================================
