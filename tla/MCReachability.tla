--------------------------- MODULE MCReachability ---------------------------
(* Reachability for TLC: one combination of flags for each way to get a    *)
(* connection or to miss one, and two that mean the same connection.       *)
EXTENDS Reachability

MCFlagSets == { {},
                {"reachable"},
                {"reachable", "isDirect"},
                {"reachable", "connectionRequired", "isWWAN"},
                {"reachable", "connectionRequired", "connectionOnDemand"},
                {"reachable", "connectionRequired", "connectionOnTraffic",
                 "interventionRequired"} }
=============================================================================
