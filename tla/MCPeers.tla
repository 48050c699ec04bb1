------------------------------- MODULE MCPeers -------------------------------
(* What a node does to reach other nodes, side by side: the wakeup floods,  *)
(* the sessions, the connection manager, route discovery and mDNS.  None of *)
(* these modules reads another's variables, so their product would only     *)
(* multiply their states: `turn` names the one that runs, for good, and the *)
(* others stay in their initial states.  A run names those that may have    *)
(* the turn.                                                                *)
EXTENDS Broadcast, Sessions, Connections, Routes, Discovery

MCPeering == {{1, 2}, {2, 3}, {2, 4}, {3, 4}}
MCTreeEdge == {{1, 2}, {2, 3}, {2, 4}}

Components == {"broadcast", "sessions", "connections", "routes", "discovery"}

CONSTANT Active  \* the components that may have the turn

ASSUME ActiveAssumption == Active \subseteq Components

VARIABLE turn

PeersInit ==
  /\ turn \in Active
  /\ WakeupInit /\ SessionsInit /\ ConnectionsInit /\ RoutesInit /\ DiscoveryInit

(* The components but c stay as they are. *)
Only(c) ==
  /\ turn = c /\ UNCHANGED turn
  /\ IF c = "broadcast" THEN TRUE ELSE UNCHANGED wakeupVars
  /\ IF c = "sessions" THEN TRUE ELSE UNCHANGED sessionVars
  /\ IF c = "connections" THEN TRUE ELSE UNCHANGED connectionsVars
  /\ IF c = "routes" THEN TRUE ELSE UNCHANGED routesVars
  /\ IF c = "discovery" THEN TRUE ELSE UNCHANGED discoveryVars

PeersNext ==
  \/ Only("broadcast") /\ WakeupNext
  \/ Only("sessions") /\ SessionsNext
  \/ Only("connections") /\ ConnectionsNext
  \/ Only("routes") /\ RoutesNext
  \/ Only("discovery") /\ DiscoveryNext

peersVars == <<turn, wakeupVars, sessionVars, connectionsVars, routesVars, discoveryVars>>

(* No action that is owed to a component can be taken in its initial state, *)
(* so the fairness of one says nothing while another has its turn.          *)
PeersSpec == PeersInit /\ [][PeersNext]_peersVars /\ SessionsFairness
RoutesSpec == PeersInit /\ [][PeersNext]_peersVars /\ RoutesFairness

(* The state of each component is well typed: in particular no queue, table
   or counter passes its limit. *)
PeersTypeOK ==
  /\ turn \in Components
  /\ WakeupTypeOK /\ SessionsTypeOK /\ ConnectionsTypeOK /\ RoutesTypeOK /\ DiscoveryTypeOK
=============================================================================
