---------------------------- MODULE OnBoardingMC ----------------------------
(***************************************************************************)
(* The symmetry of OnBoardingHistory.  Objects, user ids, keys and values  *)
(* are compared for equality only, and no CHOOSE picks one of them.        *)
(***************************************************************************)
EXTENDS OnBoardingHistory

LOCAL INSTANCE TLC

Interchangeable ==
    Permutations(Instances) \cup Permutations(UserIds) \cup Permutations(Keys)
        \cup Permutations(Values)
===========================================================================
