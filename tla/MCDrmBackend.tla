---------------------------- MODULE MCDrmBackend ----------------------------
(* Two connectors of one cell each; the second may be plugged in twice.    *)
EXTENDS DrmBackend, TLC

CONSTANTS a1, b1, b2

MCGeo == (a1 :> {1}) @@ (b1 :> {2}) @@ (b2 :> {2})
MCGeoTwo == (a1 :> {1}) @@ (b1 :> {2})
MCConnectorOf == (a1 :> 1) @@ (b1 :> 2) @@ (b2 :> 2)
MCScenarios ==
  {{"hotplug", "disable", "dpms"}, {"hotplug", "disable", "quit"},
   {"disable", "dpms"}, {"dpms", "standby", "session", "quit"}}
UnplugOnly == {{"hotplug"}}
NoWindows == <<>>
NoPlace == [w \in {} |-> {}]
=============================================================================
