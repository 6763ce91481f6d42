-------------------------- MODULE NetworkMonitorMC --------------------------
(***************************************************************************)
(* Values for the constants of NetworkMonitor.                             *)
(***************************************************************************)
EXTENDS NetworkMonitor

\* No network, two kinds of Wi-Fi, cellular.
DeviceFlags == {{}, {"reachable"}, {"reachable", "connectionRequired", "onTrafficOrDemand"},
                {"reachable", "isWWAN"}}
===========================================================================
