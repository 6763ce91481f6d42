-------------------------- MODULE NaveggSdkHistory --------------------------
(***************************************************************************)
(* NaveggSdk with the history variable of OnBoardingHistory: what the host *)
(* set through NaveggApi reaches the service as OnboardingDelivery says,   *)
(* over objects that come by their id as UserIdentity says.                *)
(***************************************************************************)
EXTENDS NaveggSdk

VARIABLE written   \* written[k]: values addInfo has saved for k

OBH == INSTANCE OnBoardingHistory WITH
    dateLastSync <- dateOnBoarding, flight <- sendFlight

hvars == <<vars, written>>

HInit == Init /\ written = [k \in Keys |-> {}]

HNext == Next /\ OBH!Remember

HSpec == HInit /\ [][HNext]_hvars

HFairSpec == HSpec /\ Fairness

---------------------------------------------------------------------------
(***************************************************************************)
(* Properties                                                              *)
(***************************************************************************)

\* The SDK as a whole delivers on-boarding values as OnboardingDelivery
\* promises: across launches, identities and dying objects the service merges
\* each copy at most once, and no copy holds anything but values the host has
\* set for the same key.
DeliversOnBoarding == OBH!Delivery!Spec

===========================================================================
