------------------------- MODULE OnBoardingHistory -------------------------
(***************************************************************************)
(* OnBoardingSync with a history variable, the values written so far, and  *)
(* the refinement mapping under which it implements OnboardingDelivery.    *)
(***************************************************************************)
EXTENDS OnBoardingSync

VARIABLE written   \* written[k]: values addInfo has saved for k

hvars == <<vars, written>>

HInit == Init /\ written = [k \in Keys |-> {}]

\* written follows the suite and takes no part in any guard.
Remember == written' = [k \in Keys |-> written[k] \cup ({saved'[k]} \ {NoValue})]

HNext == Next /\ Remember

HSpec == HInit /\ [][HNext]_hvars

Delivery == INSTANCE OnboardingDelivery WITH
    latest   <- saved,
    underway <- transit,
    issued   <- sends

\* The suite, the objects and the requests of OnBoardingSync deliver values
\* as OnboardingDelivery promises.
ImplementsDelivery == Delivery!Spec

\* No object, no request and no profile, however far behind, holds a value
\* under a key for which the host never set it.
OnlyWrittenValues ==
    \A k \in Keys :
        /\ \A u \in UserIds : profile[u][k] \in written[k] \cup {NoValue}
        /\ \A i \in Instances : valueData[i][k] \in written[k] \cup {NoValue}
        /\ \A r \in flight \cup transit : r.data[k] \in written[k] \cup {NoValue}

===========================================================================
