------------------------------- MODULE Routes -------------------------------
(***************************************************************************)
(* Route discovery (route_discovery.go): how a node comes to dial the      *)
(* peers it needs, from router events, two tickers and the cache of peers  *)
(* that mDNS keeps (mdns_service.go), while links fail and answers are     *)
(* lost.  A discovery is a goroutine: it drops expired cache entries,      *)
(* waits five seconds for answers, and dials some of what the cache holds. *)
(*                                                                         *)
(* Left out: scores (any of the candidates may have the best ones), the    *)
(* intervals of the tickers with their fast mode, connections that others  *)
(* open, and the code that is commented out.  connectToStaticPeers never   *)
(* does anything: it refuses within ten seconds of the last discovery, and *)
(* each of its callers has noted one just before.  How mDNS comes to its   *)
(* answers, and how it stops answering, is the subject of Discovery.       *)
(***************************************************************************)
EXTENDS Naturals, Sequences, FiniteSets

CONSTANTS Remote,    \* the nodes in reach
          WorkSize,  \* the capacity of eventWorkQueue
          MinPeers, MaxPeers, \* minConnections and maxConnections: 3 and 8
          MaxNew,    \* maxNewConnections: how many a discovery dials, 3
          Targets,   \* targetConnections: 2, 3 or 5, by the network's quality
          MaxEvents  \* bound: router events not yet handled

ASSUME RoutesAssumption ==
  /\ IsFiniteSet(Remote) /\ WorkSize \in Nat /\ MaxEvents \in Nat
  /\ MaxPeers \in Nat /\ MinPeers \in 0..MaxPeers /\ MaxNew \in Nat \ {0} /\ Targets \subseteq Nat

VARIABLES link,     \* the connected peers
          found,    \* the peers in the mDNS cache
          failure,  \* routeFailures
          recent,   \* peers dialled less than 30 s ago
          events, work, \* the event subscription and the event work queue
          lookups,  \* discoveries under way: for more routes, or for one peer
          dials,    \* the peers that are being dialled
          running   \* of this service: new, running or stopped

routesVars == <<link, found, failure, recent, events, work, lookups, dials, running>>

Unknown == [known |-> FALSE, count |-> 0, black |-> FALSE]

RoutesInit ==
  /\ link = {} /\ found = {}
  /\ failure = [p \in Remote |-> Unknown]
  /\ recent = {}
  /\ events = <<>> /\ work = <<>>
  /\ lookups = {} /\ dials = {}
  /\ running = "new"

(* GetNetworkInfo reports no peers when the router is slow to answer *)
SeenPeers == {link, {}}

(* a count of 2 stands for every larger one *)
Failed(p) == [failure EXCEPT ![p] = [known |-> TRUE, count |-> IF @.count < 2 THEN @.count + 1 ELSE 2,
                                     black |-> @.black]]
Succeeded(p) == [failure EXCEPT ![p].count = 0, ![p].black = FALSE]

Publish(e) == events' = IF running = "running" THEN Append(events, e) ELSE events
Room == Len(events) < MaxEvents

-----------------------------------------------------------------------------
(* What happens around the service *)

LinkFails(p) ==
  /\ p \in link /\ Room
  /\ link' = link \ {p} /\ Publish(<<"removed", p>>)
  /\ UNCHANGED <<found, failure, recent, work, lookups, dials, running>>

(* the router reports a new parent or a new descending node *)
RouterUpdates(type) ==
  /\ running = "running" /\ Room /\ Publish(<<type>>)
  /\ UNCHANGED <<link, found, failure, recent, work, lookups, dials, running>>

(* addDiscoveredPeer: an announcement, or the answer to a query *)
Announced(p) ==
  /\ p \notin found
  /\ found' = found \cup {p}
  /\ UNCHANGED <<link, failure, recent, events, work, lookups, dials, running>>

(* An entry expires after 15 s.  Until another discovery begins and drops it, a
   discovery that waits may still use it. *)
Age(p) ==
  /\ p \in found /\ found' = found \ {p}
  /\ UNCHANGED <<link, failure, recent, events, work, lookups, dials, running>>

AttemptAges(p) ==
  /\ p \in recent /\ recent' = recent \ {p}
  /\ UNCHANGED <<link, found, failure, events, work, lookups, dials, running>>

-----------------------------------------------------------------------------
(* The steps that the handlers share *)

(* discoverMoreRoutes is a goroutine of its own *)
DiscoverMoreRoutes == {"more"}

(* performActiveDiscovery: without a connection it only asks
   connectToStaticPeers *)
ActiveDiscovery(count) ==
  IF count > 0 /\ \E target \in Targets : count < target THEN DiscoverMoreRoutes ELSE {}

(* triggerRouteDiscovery and forceReconnectPeer: p leaves the cache, and a
   discovery looks for it *)
TriggerRouteDiscovery(ps, count) ==
  /\ lookups' = lookups \cup ActiveDiscovery(count) \cup ps
  /\ found' = found \ ps

(* pingPeer: what counts is whether the router takes the packet *)
Pinged(p, fails) == IF fails THEN Failed(p) ELSE Succeeded(p)

-----------------------------------------------------------------------------
(* The event listener and the event worker *)

HandleRemoved(p, count) ==
  /\ failure' = Failed(p)
  /\ IF Len(work) < WorkSize
       THEN /\ work' = Append(work, <<"removed", p>>)
            /\ found' = found \ {p} /\ UNCHANGED lookups
       ELSE TriggerRouteDiscovery({p}, count) /\ UNCHANGED work

(* with a full queue the new peer is pinged at once *)
HandleAdded(p) ==
  /\ IF Len(work) < WorkSize
       THEN work' = Append(work, <<"added", p>>) /\ failure' = Succeeded(p)
       ELSE \E fails \in BOOLEAN :
              /\ failure' = IF fails THEN [failure EXCEPT ![p] =
                                             [known |-> TRUE, count |-> 1, black |-> FALSE]]
                                     ELSE Succeeded(p)
              /\ UNCHANGED work
  /\ UNCHANGED <<found, lookups>>

(* performActiveDiscovery: at once for a descending node, and for a parent only
   when the queue is full; the worker ignores such work *)
HandleUpdate(type, count) ==
  /\ IF type = "tree" /\ Len(work) < WorkSize
       THEN work' = Append(work, <<type>>) /\ UNCHANGED lookups
       ELSE lookups' = lookups \cup ActiveDiscovery(count) /\ UNCHANGED work
  /\ UNCHANGED <<failure, found>>

HandleRouterEvent ==
  /\ running = "running" /\ events # <<>>
  /\ events' = Tail(events)
  /\ LET e == Head(events) IN
     \E seen \in SeenPeers :
       CASE e[1] = "removed" -> HandleRemoved(e[2], Cardinality(seen))
         [] e[1] = "added"   -> HandleAdded(e[2])
         [] OTHER            -> HandleUpdate(e[1], Cardinality(seen))
  /\ UNCHANGED <<link, recent, dials, running>>

ProcessEventWork ==
  /\ running = "running" /\ work # <<>>
  /\ work' = Tail(work)
  /\ IF Head(work)[1] = "removed"
       THEN \E seen \in SeenPeers : TriggerRouteDiscovery({Head(work)[2]}, Cardinality(seen))
       ELSE UNCHANGED <<lookups, found>>
  /\ UNCHANGED <<link, failure, recent, events, dials, running>>

-----------------------------------------------------------------------------
(* The two tickers *)

(* monitorRouteHealth: the second time in a row that a known peer is not seen
   it is blacklisted and looked for, and counted no more; after ten failures,
   which a count of 2 may stand for, it is forgotten *)
MonitorRouteHealth ==
  /\ running = "running"
  /\ \E seen \in SeenPeers :
       LET missed == {p \in Remote \ seen : failure[p].known /\ ~failure[p].black}
           lost == {p \in missed : failure[p].count >= 1}
       IN /\ \E ten \in SUBSET {p \in Remote \ seen : failure[p].count = 2} :
               failure' = [p \in Remote |->
                 IF p \in seen THEN Succeeded(p)[p]
                 ELSE IF p \in ten THEN Unknown
                 ELSE IF p \in missed THEN [Failed(p)[p] EXCEPT !.black = p \in lost]
                 ELSE failure[p]]
          /\ lookups' = lookups \cup lost \cup (IF lost = {} THEN {} ELSE DiscoverMoreRoutes)
          /\ found' = found \ lost
  /\ UNCHANGED <<link, recent, events, work, dials, running>>

PerformActiveDiscovery ==
  /\ running = "running"
  /\ \E seen \in SeenPeers : lookups' = lookups \cup ActiveDiscovery(Cardinality(seen))
  /\ UNCHANGED <<link, found, failure, recent, events, work, dials, running>>

(* Mutant: too few connections are left to the discovery ticker *)
OptimizeLeavesItToDiscovery ==
  /\ running = "running"
  /\ \E seen \in SeenPeers, low \in BOOLEAN :
       lookups' = lookups \cup (IF Cardinality(seen) \in MinPeers..MaxPeers - 2 /\ low
                                  THEN DiscoverMoreRoutes ELSE {})
  /\ UNCHANGED <<link, found, failure, recent, events, work, dials, running>>

(* optimizeRouteSelection: too few connections, or not many of which some had
   poor answers, start a discovery *)
OptimizeRouteSelection ==
  /\ running = "running"
  /\ \E seen \in SeenPeers, low \in BOOLEAN :
       LET count == Cardinality(seen) IN
       lookups' = lookups \cup (IF count < MinPeers \/ (count <= MaxPeers - 2 /\ low)
                                  THEN DiscoverMoreRoutes ELSE {})
  /\ UNCHANGED <<link, found, failure, recent, events, work, dials, running>>

-----------------------------------------------------------------------------
(* The end of a discovery *)

(* connectToPeerWithSuppression for each of ps, which it sees again *)
ConnectWithSuppression(ps) ==
  \E seen \in SeenPeers :
    LET new == (ps \ seen) \ recent IN
    /\ failure' = [p \in Remote |-> IF p \in ps \ seen THEN [failure[p] EXCEPT !.known = TRUE]
                                                       ELSE failure[p]]
    /\ recent' = recent \cup new
    /\ dials' = dials \cup new

(* selectBestPeersToConnect, of the cached peers that are not seen: all that the
   limits allow; any of them may have the best scores *)
Selections(seen) ==
  LET free == MaxPeers - Cardinality(seen)
      limit == IF free > MaxNew THEN MaxNew ELSE free
      size == Cardinality(found \ seen)
  IN  IF limit <= 0 THEN {{}}
      ELSE { best \in SUBSET (found \ seen) :
               Cardinality(best) = IF size < limit THEN size ELSE limit }

(* discoverMoreRoutes has waited for answers *)
EndDiscoverMore(seen) ==
  /\ "more" \in lookups
  /\ lookups' = lookups \ {"more"}
  /\ \E best \in Selections(seen) : ConnectWithSuppression(best)
  /\ UNCHANGED <<link, found, events, work, running>>

(* forceReconnectPeer has: it dials the one peer, and suppresses nothing *)
EndForceReconnect(p) ==
  /\ p \in lookups
  /\ lookups' = lookups \ {p}
  /\ dials' = IF p \in found THEN dials \cup {p} ELSE dials
  /\ UNCHANGED <<link, found, failure, recent, events, work, running>>

(* connectToPeer ends; a forced dial that succeeds forgets the failures itself,
   and which dials are forced is not kept *)
DialEnds(p, success) ==
  /\ p \in dials /\ Room
  /\ dials' = dials \ {p}
  /\ IF success /\ p \notin link
       THEN link' = link \cup {p} /\ Publish(<<"added", p>>)
       ELSE UNCHANGED <<link, events>>
  /\ failure' \in {failure} \cup (IF success THEN {Succeeded(p)} ELSE {})
  /\ UNCHANGED <<found, recent, work, lookups, running>>

-----------------------------------------------------------------------------
StartRoutes ==
  /\ running = "new" /\ running' = "running"
  /\ UNCHANGED <<link, found, failure, recent, events, work, lookups, dials>>

Stop ==
  /\ running = "running" /\ running' = "stopped"
  /\ UNCHANGED <<link, found, failure, recent, events, work, lookups, dials>>

(* DiscoverRoute to p, called when a message has to be sent again, and by
   TriggerRouteRediscovery when a chunk of a file cannot be sent; the latter then
   calls mDNS's StartDiscovery, whose lock is never free again (Discovery shows
   why) *)
DiscoverRoute(p, fails) ==
  /\ running = "running"
  /\ \E seen \in SeenPeers : lookups' = lookups \cup ActiveDiscovery(Cardinality(seen))
  /\ failure' = Pinged(p, fails)
  /\ UNCHANGED <<link, found, recent, events, work, dials, running>>

RoutesNext ==
  \/ \E p \in Remote : LinkFails(p) \/ Announced(p) \/ Age(p) \/ AttemptAges(p)
  \/ \E type \in {"tree", "snake"} : RouterUpdates(type)
  \/ HandleRouterEvent \/ ProcessEventWork
  \/ MonitorRouteHealth \/ PerformActiveDiscovery \/ OptimizeRouteSelection
  \/ \E seen \in SeenPeers : EndDiscoverMore(seen)
  \/ \E p \in Remote : EndForceReconnect(p)
  \/ \E p \in Remote, success \in BOOLEAN : DialEnds(p, success)
  \/ \E p \in Remote, fails \in BOOLEAN : DiscoverRoute(p, fails)
  \/ StartRoutes \/ Stop

(* The tickers and goroutines run, dials end and time passes; and a discovery
   does not for ever miss the answers of every node, or that of the router. *)
RoutesFairness ==
  /\ WF_routesVars(OptimizeRouteSelection) /\ WF_routesVars(HandleRouterEvent)
  /\ SF_routesVars(found \ link # {} /\ EndDiscoverMore(link))
  /\ \A p \in Remote : /\ WF_routesVars(AttemptAges(p))
                     /\ SF_routesVars("more" \in lookups /\ Announced(p))
                     /\ WF_routesVars(\E success \in BOOLEAN : DialEnds(p, success))

(* A node with fewer than MinPeers connections, while there are others it could
   dial, comes to dial one of them, again and again until it has enough: events
   that are lost with a full queue, blacklisted or forgotten peers, dials
   suppressed for 30 s and the limits of one discovery do not leave it so for
   good.  (optimizeRouteSelection starts a discovery whenever it sees too few
   connections; route_discovery.go:342 is why the discovery ticker alone would
   not: without any connection it looks for nobody.) *)
FewPeersDialMore ==
  []<>(\/ running # "running"
       \/ Cardinality(link) >= MinPeers \/ link = Remote
       \/ dials \ link # {})

-----------------------------------------------------------------------------
RoutesTypeOK ==
  /\ link \subseteq Remote /\ found \subseteq Remote /\ recent \subseteq Remote
  /\ failure \in [Remote -> [known : BOOLEAN, count : 0..2, black : BOOLEAN]]
  /\ events \in Seq({"removed", "added"} \X Remote \cup {<<"tree">>, <<"snake">>})
  /\ work \in Seq({"removed", "added"} \X Remote \cup {<<"tree">>, <<"snake">>})
  /\ Len(events) <= MaxEvents /\ Len(work) <= WorkSize
  /\ lookups \subseteq {"more"} \cup Remote /\ dials \subseteq Remote
  /\ running \in {"new", "running", "stopped"}
=============================================================================
