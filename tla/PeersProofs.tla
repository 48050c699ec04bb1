----------------------------- MODULE PeersProofs -----------------------------
(* Theorems about what a node does to reach other nodes, for any nodes, links *)
(* and limits: the connection manager and the discovery by themselves, and    *)
(* the components side by side.                                               *)
EXTENDS MCPeers, FiniteSetTheorems, TLAPS

-----------------------------------------------------------------------------
(* The connection manager *)

Holders == {Free, [op |-> "cleanup"]} \cup [op : {"dial", "close", "drop"}, key : Key]

(* The types that the argument needs.                                        *)
ConnectionsTypes ==
  /\ table \in [Key -> Link \cup {NoLink}]
  /\ state \in [Link -> {"unused", "open", "dead", "closed"}]
  /\ holder \in Holders

(* The monitor that found a connection dead or closed keeps the lock until it *)
(* has forgotten it, so that what it forgets is still what it found; a        *)
(* connection that is closed to make room for a dial was not usable when the  *)
(* dial took the lock.  No link comes to life in between.                     *)
HoldsNoHealthyLink ==
  /\ holder.op = "drop" => /\ Listed(holder.key)
                           /\ state[table[holder.key]] \in {"dead", "closed"}
  /\ (holder.op = "dial" /\ Listed(holder.key)) => state[table[holder.key]] # "open"

ConnectionsIInv == ConnectionsTypes /\ HoldsNoHealthyLink

LEMMA LinkIsListed == ASSUME NEW c \in Link PROVE c # NoLink
<1>1. MaxLinks \in Nat
  BY ConnectionsAssumption
<1> QED
  BY <1>1 DEF Link, NoLink

LEMMA InitConnections == ConnectionsInit => ConnectionsIInv
BY DEF ConnectionsInit, ConnectionsIInv, ConnectionsTypes, Holders, HoldsNoHealthyLink, Free

(* A step of a call that takes the lock or gives it back.                     *)
LEMMA LockConnections ==
  ASSUME ConnectionsIInv, (\E k \in Key : Create(k) \/ Close(k)) \/ DialFails \/ Cleanup
  PROVE  ConnectionsIInv'
<1>1. ASSUME NEW k \in Key, Create(k) PROVE ConnectionsIInv'
  <2>1. holder' = [op |-> "dial", key |-> k] /\ holder'.op = "dial" /\ holder'.key = k
    BY <1>1 DEF Create
  <2>2. table' \in [Key -> Link \cup {NoLink}] /\ UNCHANGED state
    BY <1>1 DEF Create, Unlist, ConnectionsIInv, ConnectionsTypes
  <2>3. ConnectionsTypes'
    BY <2>1, <2>2 DEF ConnectionsIInv, ConnectionsTypes, Holders
  <2>4. Listed(k)' => table' = table /\ Listed(k)
    BY <1>1 DEF Create, Unlist, Listed, ConnectionsIInv, ConnectionsTypes
  <2>5. Listed(k)' => state'[table'[k]] # "open"
    BY <1>1, <2>2, <2>4 DEF Create, Usable, IsClosed
  <2> QED
    BY <2>1, <2>3, <2>5 DEF ConnectionsIInv, HoldsNoHealthyLink, Listed
<1>2. ASSUME NEW k \in Key, Close(k) PROVE ConnectionsIInv'
  <2>1. holder' = [op |-> "close", key |-> k] /\ holder'.op = "close"
    BY <1>2 DEF Close
  <2> QED
    BY <1>2, <2>1 DEF Close, ConnectionsIInv, ConnectionsTypes, Holders, HoldsNoHealthyLink
<1>3. CASE DialFails
  BY <1>3 DEF DialFails, ConnectionsIInv, ConnectionsTypes, Holders, HoldsNoHealthyLink, Free
<1>4. CASE Cleanup
  BY <1>4 DEF Cleanup, ConnectionsIInv, ConnectionsTypes, Holders, HoldsNoHealthyLink
<1> QED
  BY <1>1, <1>2, <1>3, <1>4

(* A step under the lock that leaves it free.                                 *)
LEMMA FreeConnections ==
  ASSUME ConnectionsIInv, holder' = Free,
         table' \in [Key -> Link \cup {NoLink}],
         state' \in [Link -> {"unused", "open", "dead", "closed"}]
  PROVE  ConnectionsIInv'
BY DEF ConnectionsIInv, ConnectionsTypes, Holders, HoldsNoHealthyLink, Free

LEMMA NextConnections == ConnectionsIInv /\ [ConnectionsNext]_connectionsVars => ConnectionsIInv'
<1> SUFFICES ASSUME ConnectionsIInv, [ConnectionsNext]_connectionsVars PROVE ConnectionsIInv'
  OBVIOUS
<1>1. CASE (\E k \in Key : Create(k) \/ Close(k)) \/ DialFails \/ Cleanup
  BY <1>1, LockConnections
<1>2. ASSUME NEW k \in Key, Get(k) PROVE ConnectionsIInv'
  BY <1>2, FreeConnections DEF Get, Unlist, ConnectionsIInv, ConnectionsTypes
<1>3. CASE Clean
  BY <1>3, FreeConnections DEF Clean, Unlist, ConnectionsIInv, ConnectionsTypes
<1>4. CASE EndClose
  BY <1>4, FreeConnections DEF EndClose, Unlist, ConnectionsIInv, ConnectionsTypes
<1>5. CASE EndCleanup
  BY <1>5, FreeConnections DEF EndCleanup, ConnectionsIInv, ConnectionsTypes
<1>6. CASE CloseUnhealthy
  <2>1. holder' = holder /\ holder.op = "dial" /\ holder.key \in Key
    BY <1>6 DEF CloseUnhealthy, ConnectionsIInv, ConnectionsTypes, Holders, Free
  <2>2. ConnectionsTypes' /\ ~Listed(holder.key)'
    BY <1>6, <2>1 DEF CloseUnhealthy, Unlist, Listed, ConnectionsIInv, ConnectionsTypes
  <2> QED
    BY <2>1, <2>2 DEF ConnectionsIInv, HoldsNoHealthyLink, Listed
<1>7. ASSUME NEW c \in Link, Dialled(c) PROVE ConnectionsIInv'
  BY <1>7, FreeConnections DEF Dialled, ConnectionsIInv, ConnectionsTypes
<1>8. ASSUME NEW c \in Link, NEW p \in Peer, Monitor(c, p) PROVE ConnectionsIInv'
  <2>1. p \in Key /\ c # NoLink
    BY LinkIsListed DEF Key
  <2>2. UNCHANGED <<table, state>> /\ state[c] \in {"dead", "closed"}
    BY <1>8 DEF Monitor
  <2>3. CASE table[p] = c
    <3>1. holder' = [op |-> "drop", key |-> p] /\ holder'.op = "drop" /\ holder'.key = p
      BY <1>8, <2>3 DEF Monitor
    <3> QED
      BY <2>1, <2>2, <2>3, <3>1 DEF ConnectionsIInv, ConnectionsTypes, Holders, HoldsNoHealthyLink, Listed
  <2>4. CASE table[p] # c
    BY <1>8, <2>2, <2>4, FreeConnections DEF Monitor, ConnectionsIInv, ConnectionsTypes
  <2> QED
    BY <2>3, <2>4
<1>9. ASSUME NEW c \in Link, OwnerCloses(c) \/ Die(c) PROVE ConnectionsIInv'
  <2>1. PICK s \in {"dead", "closed"} : state' = [state EXCEPT ![c] = s]
    BY <1>9 DEF OwnerCloses, Die
  <2>2. UNCHANGED <<table, holder>>
    BY <1>9 DEF OwnerCloses, Die
  <2>3. ConnectionsTypes'
    BY <2>1, <2>2 DEF ConnectionsIInv, ConnectionsTypes
  <2>4. \A d \in Link : state'[d] = IF d = c THEN s ELSE state[d]
    BY <2>1 DEF ConnectionsIInv, ConnectionsTypes
  <2>5. ASSUME holder.op \in {"drop", "dial"}, Listed(holder.key)
        PROVE  holder.key \in Key /\ table[holder.key] \in Link
    <3>1. holder.key \in Key
      BY <2>5 DEF ConnectionsIInv, ConnectionsTypes, Holders, Free
    <3> QED
      BY <2>5, <3>1 DEF ConnectionsIInv, ConnectionsTypes, Listed
  <2> QED
    BY <2>2, <2>3, <2>4, <2>5 DEF ConnectionsIInv, HoldsNoHealthyLink, Listed
<1>10. CASE UNCHANGED <<table, state, holder>>
  BY <1>10 DEF ConnectionsIInv, ConnectionsTypes, HoldsNoHealthyLink, Listed
<1>11. ASSUME NEW c \in Link, BeginRead(c) \/ EndRead(c) \/ \E p \in Peer : MonitorEnds(c, p)
       PROVE  ConnectionsIInv'
  BY <1>10, <1>11 DEF BeginRead, EndRead, MonitorEnds
<1>12. CASE UNCHANGED connectionsVars
  BY <1>10, <1>12 DEF connectionsVars
<1> QED
  BY <1>1, <1>2, <1>3, <1>4, <1>5, <1>6, <1>7, <1>8, <1>9, <1>11, <1>12
  DEF ConnectionsNext

(* What a step does to a listed, open link of a key.                          *)
KeepsHealthy ==
  \A k \in Key :
    (Listed(k) /\ state[table[k]] = "open" /\ table'[k] # table[k])
      => \/ holder.op \in {"close", "cleanup"}
         \/ tasks # <<>> /\ tasks' = Tail(tasks)

LEMMA NextKeepsHealthy ==
  ASSUME ConnectionsIInv, [ConnectionsNext]_connectionsVars PROVE KeepsHealthy
<1>1. ASSUME NEW k \in Key, Create(k) \/ Get(k) PROVE KeepsHealthy
  BY <1>1 DEF Create, Get, Unlist, IsClosed, ConnectionsIInv, ConnectionsTypes, KeepsHealthy
<1>2. CASE CloseUnhealthy \/ EndClose
  BY <1>2 DEF CloseUnhealthy, EndClose, Unlist, ConnectionsIInv, ConnectionsTypes, HoldsNoHealthyLink, KeepsHealthy
<1>3. CASE Clean
  BY <1>3 DEF Clean, KeepsHealthy
<1>4. CASE EndCleanup
  BY <1>4 DEF EndCleanup, KeepsHealthy
<1>5. ASSUME NEW c \in Link, Dialled(c) PROVE KeepsHealthy
  BY <1>5 DEF Dialled, ConnectionsIInv, ConnectionsTypes, KeepsHealthy
<1>6. CASE UNCHANGED table
  BY <1>6 DEF KeepsHealthy
<1>7. ASSUME NEW k \in Key, Close(k) PROVE KeepsHealthy
  BY <1>6, <1>7 DEF Close
<1>8. ASSUME NEW c \in Link, \/ BeginRead(c) \/ EndRead(c) \/ OwnerCloses(c) \/ Die(c)
                             \/ \E p \in Peer : Monitor(c, p) \/ MonitorEnds(c, p)
      PROVE  KeepsHealthy
  BY <1>6, <1>8 DEF BeginRead, EndRead, OwnerCloses, Die, Monitor, MonitorEnds
<1>9. CASE DialFails \/ Cleanup \/ UNCHANGED connectionsVars
  BY <1>6, <1>9 DEF DialFails, Cleanup, connectionsVars
<1> QED
  BY <1>1, <1>2, <1>3, <1>4, <1>5, <1>7, <1>8, <1>9 DEF ConnectionsNext

(* A healthy connection leaves the table only by a close, by the end of the   *)
(* manager, or by a queued clean-up: never by the monitor of a connection     *)
(* that it replaced, and never because its key is dialled again               *)
(* (monitorConnection, CreateConnection, GetConnection).                      *)
THEOREM HealthyConnectionStays == ConnectionsSpec => HealthyStays
<1>1. ConnectionsIInv /\ [ConnectionsNext]_connectionsVars
        => [\A k \in Key :
              (Listed(k) /\ state[table[k]] = "open" /\ table'[k] # table[k])
                => \/ holder.op \in {"close", "cleanup"}
                   \/ tasks # <<>> /\ tasks' = Tail(tasks)]_connectionsVars
  BY NextKeepsHealthy DEF KeepsHealthy
<1> QED
  BY <1>1, InitConnections, NextConnections, PTL DEF ConnectionsSpec, HealthyStays

(* The rest of the types: a link that somebody reads from is not closed, and  *)
(* the clean-up queue keeps to its capacity.                                  *)
ConnectionsLimits ==
  /\ reading \subseteq {c \in Link : state[c] \in {"open", "dead"}}
  /\ watched \subseteq Link \X Peer
  /\ tasks \in Seq(Key) /\ Len(tasks) <= CleanupSize
  /\ ended \in BOOLEAN

LEMMA TypesAndLimits == ConnectionsIInv /\ ConnectionsLimits => ConnectionsTypeOK
<1> SUFFICES ASSUME ConnectionsIInv, ConnectionsLimits PROVE ConnectionsTypeOK
  OBVIOUS
<1>1. holder \in {Free, [op |-> "cleanup"]} \cup [op : {"dial", "close", "drop"}, key : Key]
  BY DEF ConnectionsIInv, ConnectionsTypes, Holders
<1> QED
  BY <1>1 DEF ConnectionsIInv, ConnectionsTypes, ConnectionsLimits, ConnectionsTypeOK

LEMMA InitLimits == ConnectionsInit => ConnectionsLimits
<1> SUFFICES ASSUME ConnectionsInit PROVE ConnectionsLimits
  OBVIOUS
<1>1. tasks \in Seq(Key) /\ Len(tasks) = 0
  BY DEF ConnectionsInit
<1>2. reading = {} /\ watched = {}
  BY DEF ConnectionsInit
<1>3. ended \in BOOLEAN
  BY DEF ConnectionsInit
<1> QED
  BY <1>1, <1>2, <1>3, ConnectionsAssumption DEF ConnectionsLimits

LEMMA NextLimits ==
  ConnectionsIInv /\ ConnectionsLimits /\ [ConnectionsNext]_connectionsVars => ConnectionsLimits'
<1> SUFFICES ASSUME ConnectionsIInv, ConnectionsLimits, [ConnectionsNext]_connectionsVars
             PROVE  ConnectionsLimits'
  OBVIOUS
<1> USE ConnectionsAssumption
<1>1. ASSUME NEW k \in Key, Create(k) \/ Get(k) \/ Close(k) PROVE ConnectionsLimits'
  <2>1. UNCHANGED <<state, reading, watched, ended>>
    BY <1>1 DEF Create, Get, Close
  <2>2. tasks' \in Seq(Key) /\ Len(tasks') <= CleanupSize
    BY <1>1 DEF Create, Get, Close, ConnectionsLimits
  <2> QED
    BY <2>1, <2>2 DEF ConnectionsLimits
<1>2. CASE CloseUnhealthy \/ EndClose
  <2>1. holder.key \in Key /\ table[holder.key] \notin reading
    BY <1>2 DEF CloseUnhealthy, EndClose, ConnectionsIInv, ConnectionsTypes, Holders, Free
  <2>2. state' = [state EXCEPT ![table[holder.key]] = "closed"]
    BY <1>2 DEF CloseUnhealthy, EndClose
  <2>3. UNCHANGED <<reading, watched, tasks, ended>>
    BY <1>2 DEF CloseUnhealthy, EndClose
  <2> QED
    BY <2>1, <2>2, <2>3 DEF ConnectionsLimits, ConnectionsIInv, ConnectionsTypes
<1>3. ASSUME NEW c \in Link, Dialled(c) PROVE ConnectionsLimits'
  <2>1. state' = [state EXCEPT ![c] = "open"] /\ UNCHANGED <<reading, tasks, ended>>
    BY <1>3 DEF Dialled
  <2>2. watched' \subseteq Link \X Peer
    BY <1>3 DEF Dialled, ConnectionsLimits
  <2> QED
    BY <2>1, <2>2 DEF ConnectionsLimits, ConnectionsIInv, ConnectionsTypes
<1>4. CASE Clean
  <2>1. tasks # <<>> /\ tasks' = Tail(tasks) /\ UNCHANGED <<state, reading, watched, ended>>
    BY <1>4 DEF Clean
  <2>2. tasks' \in Seq(Key) /\ Len(tasks') <= CleanupSize
    BY <2>1 DEF ConnectionsLimits
  <2> QED
    BY <2>1, <2>2 DEF ConnectionsLimits
<1>5. ASSUME NEW c \in Link, NEW p \in Peer, Monitor(c, p) \/ MonitorEnds(c, p)
      PROVE  ConnectionsLimits'
  BY <1>5 DEF Monitor, MonitorEnds, ConnectionsLimits
<1>6. CASE EndCleanup
  <2>1. \A k \in Key : table[k] \notin reading
    BY <1>6 DEF EndCleanup
  <2>2. /\ state' = [c \in Link |-> IF \E k \in Key : table[k] = c THEN "closed" ELSE state[c]]
        /\ UNCHANGED <<reading, watched, tasks, ended>>
    BY <1>6 DEF EndCleanup
  <2>3. \A c \in reading : c \in Link /\ state'[c] = state[c]
    BY <2>1, <2>2 DEF ConnectionsLimits
  <2> QED
    BY <2>2, <2>3 DEF ConnectionsLimits
<1>7. ASSUME NEW c \in Link, BeginRead(c) \/ EndRead(c) PROVE ConnectionsLimits'
  BY <1>7 DEF BeginRead, EndRead, ConnectionsLimits
<1>8. ASSUME NEW c \in Link, OwnerCloses(c) \/ Die(c) PROVE ConnectionsLimits'
  BY <1>8 DEF OwnerCloses, Die, ConnectionsLimits, ConnectionsIInv, ConnectionsTypes
<1>9. CASE DialFails \/ Cleanup
  BY <1>9 DEF DialFails, Cleanup, ConnectionsLimits
<1>10. CASE UNCHANGED connectionsVars
  BY <1>10 DEF connectionsVars, ConnectionsLimits
<1> QED
  BY <1>1, <1>2, <1>3, <1>4, <1>5, <1>6, <1>7, <1>8, <1>9, <1>10 DEF ConnectionsNext

-----------------------------------------------------------------------------
(* Discovery *)

ContactStates == {"none", "fresh", "old"}

(* What keeps the goroutines of two reports from dialling both: the contact  *)
(* is stored in the step that decides to dial, and it is neither old nor     *)
(* forgotten while the dial lasts.                                           *)
DiallingIsContact ==
  /\ contact \in [Neighbour -> ContactStates] /\ dialling \in [Neighbour -> {0, 1}]
  /\ \A p \in Neighbour : dialling[p] = 1 => contact[p] = "fresh"

LEMMA InitDialling == DiscoveryInit => DiallingIsContact
BY DEF DiscoveryInit, DiallingIsContact, ContactStates

LEMMA ReportDialling ==
  ASSUME DiallingIsContact, NEW p \in Neighbour, HandleReport(p)
  PROVE  DiallingIsContact'
<1>1. contact' = [contact EXCEPT ![p] = "fresh"]
  BY DEF HandleReport
<1>2. contact' \in [Neighbour -> ContactStates]
  BY <1>1 DEF DiallingIsContact, ContactStates
<1>3. CASE contact[p] = "none"
  <2>1. dialling[p] = 0 /\ dialling' = [dialling EXCEPT ![p] = @ + 1]
    BY <1>3 DEF HandleReport, DiallingIsContact
  <2>2. dialling' = [dialling EXCEPT ![p] = 1]
    BY <2>1
  <2> QED
    BY <1>1, <1>2, <2>2 DEF DiallingIsContact
<1>4. CASE contact[p] # "none"
  <2>1. dialling' = dialling
    BY <1>4 DEF HandleReport
  <2> QED
    BY <1>1, <1>2, <2>1 DEF DiallingIsContact
<1> QED
  BY <1>3, <1>4

LEMMA NextDialling ==
  DiallingIsContact /\ [DiscoveryNext \/ EndSearch]_discoveryVars => DiallingIsContact'
<1> SUFFICES ASSUME DiallingIsContact, [DiscoveryNext \/ EndSearch]_discoveryVars
             PROVE  DiallingIsContact'
  OBVIOUS
<1>1. ASSUME NEW p \in Neighbour, HandleReport(p) PROVE DiallingIsContact'
  BY <1>1, ReportDialling
<1>2. ASSUME NEW p \in Neighbour, NEW success \in BOOLEAN, DialReturns(p, success)
      PROVE  DiallingIsContact'
  <2>1. dialling[p] - 1 = 0 /\ dialling' = [dialling EXCEPT ![p] = dialling[p] - 1]
    BY <1>2 DEF DialReturns, DiallingIsContact
  <2>2. dialling' = [dialling EXCEPT ![p] = 0]
    BY <2>1
  <2>3. UNCHANGED contact
    BY <1>2 DEF DialReturns
  <2> QED
    BY <2>2, <2>3 DEF DiallingIsContact
<1>3. ASSUME NEW p \in Neighbour, ContactAges(p) PROVE DiallingIsContact'
  BY <1>3 DEF ContactAges, DiallingIsContact, ContactStates
<1>4. CASE CleanupContacts
  BY <1>4 DEF CleanupContacts, DiallingIsContact, ContactStates
<1>5. ASSUME UNCHANGED <<contact, dialling>> PROVE DiallingIsContact'
  BY <1>5 DEF DiallingIsContact
<1>6. ASSUME NEW socket \in BOOLEAN, NEW port \in BOOLEAN,
             StartService(socket, port) \/ StartMDNS(socket)
      PROVE  UNCHANGED <<contact, dialling>>
  BY <1>6 DEF StartService, StartMDNS
<1>7. CASE \/ ManagerGoesOn \/ LoopBegins \/ SetMDNSService \/ StopService
           \/ CleanupExpired \/ BeginDiscovery \/ EndSearch \/ UNCHANGED discoveryVars
  <2>1. UNCHANGED <<contact, dialling>>
    BY <1>7 DEF ManagerGoesOn, LoopBegins, SetMDNSService, StopService, CleanupExpired,
                BeginDiscovery, EndSearch, discoveryVars
  <2> QED
    BY <2>1, <1>5
<1>8. ASSUME NEW p \in Neighbour,
             \/ \E answer \in Answer : HandleMessage(p, answer)
             \/ HandleAnnounce(p) \/ ForceCleanupPeer(p) \/ LinkIsLost(p) \/ CacheAges(p)
      PROVE  UNCHANGED <<contact, dialling>>
  BY <1>8 DEF HandleMessage, AddDiscoveredPeer, HandleAnnounce, ForceCleanupPeer, LinkIsLost, CacheAges
<1> QED
  BY <1>1, <1>2, <1>3, <1>4, <1>5, <1>6, <1>7, <1>8 DEF DiscoveryNext

(* However often a node leaves the mDNS cache and is found again, and however *)
(* the goroutines of its reports interleave, one dial to it is under way at   *)
(* most (handleMDNSDiscoveredPeer, connectToPeer, cleanupExpiredPeers).       *)
THEOREM OneDialAtATime ==
  DiscoveryInit /\ [][DiscoveryNext \/ EndSearch]_discoveryVars => []DialledOnce
<1>1. DiallingIsContact => DialledOnce
  BY DEF DiallingIsContact, DialledOnce
<1> QED
  BY <1>1, InitDialling, NextDialling, PTL

-----------------------------------------------------------------------------
(* Wakeup broadcasts *)

LEMMA FloodTypes ==
  ASSUME NEW n \in Router, NEW from, NEW tree, NEW frame,
         frame.source \in Router, frame.seq \in 1..MaxBroadcasts, frame.limit \in 1..Horizon
  PROVE  Flood(n, from, frame, tree)
           \subseteq [source : Router, seq : 1..MaxBroadcasts, limit : 1..Horizon,
                      from : Router, to : Router]
<1>1. FloodTargets(n, from, tree) \subseteq Router
  BY DEF FloodTargets
<1>2. ASSUME NEW m \in Router
      PROVE  [source |-> frame.source, seq |-> frame.seq, limit |-> frame.limit,
              from |-> n, to |-> m]
               \in [source : Router, seq : 1..MaxBroadcasts, limit : 1..Horizon,
                   from : Router, to : Router]
  OBVIOUS
<1> QED
  BY <1>1, <1>2 DEF Flood

LEMMA InitWakeup == WakeupInit => WakeupTypeOK
BY TreeIsOfPeerings DEF WakeupInit, WakeupTypeOK

LEMMA NextWakeup == WakeupTypeOK /\ [WakeupNext]_wakeupVars => WakeupTypeOK'
<1> SUFFICES ASSUME WakeupTypeOK, [WakeupNext]_wakeupVars PROVE WakeupTypeOK'
  OBVIOUS
<1> USE TreeIsOfPeerings
<1>1. ASSUME NEW n \in Router, n \in Sender, sent[n] < MaxBroadcasts
      PROVE  /\ sent[n] + 1 \in 1..MaxBroadcasts
             /\ [sent EXCEPT ![n] = @ + 1] \in [Router -> 0..MaxBroadcasts]
  BY <1>1 DEF WakeupTypeOK
<1>2. ASSUME NEW n \in Router, NEW old \in SUBSET Router, MaintainBroadcasts(n, old)
      PROVE  WakeupTypeOK'
  <2> DEFINE frame == [source |-> n, seq |-> sent[n] + 1, limit |-> Horizon]
  <2>1. /\ frame.source \in Router /\ frame.seq \in 1..MaxBroadcasts
        /\ frame.limit \in 1..Horizon
    BY <1>1, <1>2 DEF MaintainBroadcasts
  <2>2. Flood(n, n, frame, FALSE)
          \subseteq [source : Router, seq : 1..MaxBroadcasts, limit : 1..Horizon,
                     from : Router, to : Router]
    <3> HIDE DEF frame
    <3> QED
      BY <2>1, FloodTypes
  <2>3. seen' \in [Router -> [Router -> 0..MaxBroadcasts]]
    <3>1. [s \in Router |-> IF s \in old THEN 0 ELSE seen[n][s]]
            \in [Router -> 0..MaxBroadcasts]
      BY DEF WakeupTypeOK
    <3>2. seen' = [seen EXCEPT ![n] = [s \in Router |-> IF s \in old THEN 0 ELSE seen[n][s]]]
      BY <1>2 DEF MaintainBroadcasts
    <3> QED
      BY <3>1, <3>2 DEF WakeupTypeOK
  <2>4. sent' \in [Router -> 0..MaxBroadcasts] /\ UNCHANGED hot
    BY <1>1, <1>2 DEF MaintainBroadcasts
  <2>5. net' = net \cup Flood(n, n, frame, FALSE)
    BY <1>2 DEF MaintainBroadcasts
  <2>6. quiet' \subseteq Router
    BY <1>2 DEF MaintainBroadcasts, WakeupTypeOK
  <2> QED
    BY <2>2, <2>3, <2>4, <2>5, <2>6 DEF WakeupTypeOK
<1>3. ASSUME NEW n \in Router, NEW m \in Router, Greet(n, m) PROVE WakeupTypeOK'
  BY <1>1, <1>3 DEF Greet, WakeupTypeOK
<1>4. ASSUME NEW f \in net, HandleBroadcast(f) PROVE WakeupTypeOK'
  <2> DEFINE next == [f EXCEPT !.limit = @ - 1]
  <2>1. f \in [source : Router, seq : 1..MaxBroadcasts, limit : 1..Horizon,
               from : Router, to : Router]
    BY DEF WakeupTypeOK
  <2>2. CASE Filtered(f)
    BY <1>4, <2>2 DEF HandleBroadcast, WakeupTypeOK
  <2>3. CASE ~Filtered(f)
    <3>1. ASSUME f.limit > 1, NEW tree
          PROVE  Flood(f.to, f.from, next, tree)
                   \subseteq [source : Router, seq : 1..MaxBroadcasts, limit : 1..Horizon,
                              from : Router, to : Router]
      <4>1. /\ next.source \in Router /\ next.seq \in 1..MaxBroadcasts
            /\ next.limit \in 1..Horizon
        BY <2>1, <3>1
      <4> HIDE DEF next
      <4> QED
        BY <2>1, <4>1, FloodTypes
    <3>2. net' \subseteq net \cup (IF f.limit > 1
                 THEN Flood(f.to, f.from, next, f.limit - 1 < Horizon - 1) ELSE {})
      BY <1>4, <2>3 DEF HandleBroadcast
    <3>3. seen' \in [Router -> [Router -> 0..MaxBroadcasts]]
      BY <1>4, <2>1, <2>3 DEF HandleBroadcast, WakeupTypeOK
    <3>4. hot' \in [Router -> SUBSET Router]
      BY SMTT(60), <1>4, <2>1, <2>3 DEF HandleBroadcast, WakeupTypeOK
    <3>5. UNCHANGED <<sent, quiet>>
      BY <1>4 DEF HandleBroadcast
    <3> HIDE DEF next
    <3> QED
      BY <3>1, <3>2, <3>3, <3>4, <3>5 DEF WakeupTypeOK
  <2> QED
    BY <2>2, <2>3
<1>5. ASSUME NEW n \in Router, NEW s \in Router, Cool(n, s) PROVE WakeupTypeOK'
  BY <1>5 DEF Cool, WakeupTypeOK
<1>6. CASE UNCHANGED wakeupVars
  BY <1>6 DEF wakeupVars, WakeupTypeOK
<1> QED
  BY <1>2, <1>3, <1>4, <1>5, <1>6 DEF WakeupNext

(* How far a flood has come: who has a source's latest broadcast, and who has *)
(* it by hearing of it.                                                       *)
Reached(s) == { n \in Router : seen[n][s] = sent[s] }

Has(n, s) == n = s \/ n \in Reached(s)

(* No copy and no entry is newer than what its source last sent.              *)
FloodBounds ==
  /\ \A n, s \in Router : seen[n][s] <= sent[s]
  /\ \A f \in net : f.seq <= sent[f.source]

(* The flood of s, whose filters were all open when it began.  A copy comes   *)
(* from a node that has it, and each step a copy has come is a node that      *)
(* heard of it; only those filter; and at every edge of the tree between a    *)
(* node that has it and one that has not, a copy is on its way.               *)
FloodOf(s) ==
  /\ \A f \in net : f.source = s =>
       f.seq = sent[s] /\ Has(f.from, s) /\ Horizon - f.limit <= Cardinality(Reached(s))
  /\ \A n \in Router : s \in hot[n] => n \in Reached(s)
  /\ \A a, b \in Router : {a, b} \in TreeEdge /\ Has(a, s) /\ ~Has(b, s) =>
       \E f \in net : f.source = s /\ f.to = b

FloodsSpread == FloodBounds /\ \A s \in quiet : FloodOf(s)

LEMMA InitFloods == WakeupInit => FloodsSpread
BY DEF WakeupInit, FloodsSpread, FloodBounds

LEMMA FloodCopies ==
  ASSUME NEW n, NEW from, NEW tree, NEW frame, NEW f \in Flood(n, from, frame, tree)
  PROVE  f.source = frame.source /\ f.seq = frame.seq /\ f.limit = frame.limit /\ f.from = n
BY DEF Flood

(* A flood leaves nobody in the tree out but the node it came from.           *)
LEMMA FloodAlongTree ==
  ASSUME NEW n, NEW from, NEW tree, NEW frame,
         NEW b \in Router, b # from, {n, b} \in TreeEdge
  PROVE  \E f \in Flood(n, from, frame, tree) : f.source = frame.source /\ f.to = b
<1> DEFINE copy == [source |-> frame.source, seq |-> frame.seq, limit |-> frame.limit,
                    from |-> n, to |-> b]
<1>1. b \in FloodTargets(n, from, tree)
  BY TreeIsOfPeerings DEF FloodTargets
<1>2. copy \in Flood(n, from, frame, tree)
  BY <1>1 DEF Flood
<1>3. copy.source = frame.source /\ copy.to = b
  OBVIOUS
<1> QED
  BY <1>2, <1>3

(* What keeps the flood of s: its latest sequence stays, the nodes that heard *)
(* of it and the copies of it too, and no filter closes to it.                *)
LEMMA FloodKept ==
  ASSUME NEW s \in Router, FloodOf(s),
         sent'[s] = sent[s],
         \A n \in Router : seen'[n][s] = seen[n][s],
         \A f : f.source = s => (f \in net' <=> f \in net),
         \A n \in Router : s \in hot'[n] => s \in hot[n]
  PROVE  FloodOf(s)'
<1>1. Reached(s)' = Reached(s)
  BY DEF Reached
<1>2. \A n : Has(n, s)' <=> Has(n, s)
  BY <1>1 DEF Has
<1> QED
  BY <1>1, <1>2 DEF FloodOf

LEMMA BoundsMaintain ==
  ASSUME WakeupTypeOK, FloodBounds,
         NEW n \in Router, NEW old \in SUBSET Router, MaintainBroadcasts(n, old)
  PROVE  FloodBounds'
<1> USE TreeIsOfPeerings
<1>1. /\ sent' = [sent EXCEPT ![n] = @ + 1]
      /\ \A s \in Router : sent[s] \in Nat /\ sent'[s] \in Nat /\ sent[s] <= sent'[s]
  BY DEF MaintainBroadcasts, WakeupTypeOK
<1>2. ASSUME NEW m \in Router, NEW s \in Router PROVE seen'[m][s] <= sent'[s]
  <2>1. seen'[m][s] \in {0, seen[m][s]}
    <3>1. seen' = [seen EXCEPT ![n] = [r \in Router |-> IF r \in old THEN 0 ELSE @[r]]]
      BY DEF MaintainBroadcasts
    <3>2. seen \in [Router -> [Router -> 0..MaxBroadcasts]]
      BY DEF WakeupTypeOK
    <3> QED
      BY <3>1, <3>2
  <2>2. seen[m][s] <= sent[s] /\ seen[m][s] \in Nat
    BY DEF FloodBounds, WakeupTypeOK
  <2> QED
    BY <1>1, <2>1, <2>2
<1>3. ASSUME NEW f \in net' PROVE f.seq <= sent'[f.source]
  <2> DEFINE frame == [source |-> n, seq |-> sent[n] + 1, limit |-> Horizon]
  <2>1. CASE f \in net
    <3>1. f.source \in Router /\ f.seq \in Nat /\ f.seq <= sent[f.source]
      BY <2>1 DEF FloodBounds, WakeupTypeOK
    <3> QED
      BY <1>1, <3>1
  <2>2. CASE f \in Flood(n, n, frame, FALSE)
    <3>1. f.source = n /\ f.seq = sent[n] + 1
      <4>1. frame.source = n /\ frame.seq = sent[n] + 1
        OBVIOUS
      <4> DEFINE tree == FALSE
      <4>2. f \in Flood(n, n, frame, tree)
        BY <2>2
      <4> HIDE DEF frame, tree
      <4>3. f.source = frame.source /\ f.seq = frame.seq
        BY <4>2, FloodCopies
      <4> QED
        BY <4>1, <4>3
    <3>2. sent'[n] = sent[n] + 1
      BY <1>1 DEF WakeupTypeOK
    <3> QED
      BY <1>1, <3>1, <3>2
  <2> QED
    BY <2>1, <2>2 DEF MaintainBroadcasts
<1> QED
  BY <1>2, <1>3 DEF FloodBounds

LEMMA FloodsMaintain ==
  ASSUME WakeupTypeOK, FloodsSpread,
         NEW n \in Router, NEW old \in SUBSET Router, MaintainBroadcasts(n, old)
  PROVE  FloodsSpread'
<1> USE TreeIsOfPeerings
<1> DEFINE frame == [source |-> n, seq |-> sent[n] + 1, limit |-> Horizon]
           tree == FALSE
           copies == Flood(n, n, frame, tree)
<1>1. /\ net' = net \cup copies
      /\ sent' = [sent EXCEPT ![n] = @ + 1]
      /\ seen' = [seen EXCEPT ![n] = [r \in Router |-> IF r \in old THEN 0 ELSE @[r]]]
      /\ hot' = hot
      /\ quiet' \subseteq quiet \cup {n} /\ quiet' \cap old = {}
      /\ n \in quiet' => net = {} /\ \A m \in Router : n \notin hot[m]
  BY DEF MaintainBroadcasts
<1>2. /\ sent \in [Router -> Nat] /\ seen \in [Router -> [Router -> Nat]]
      /\ quiet \subseteq Router
  BY DEF WakeupTypeOK
<1>3. \A f \in copies :
        f.source = n /\ f.seq = sent[n] + 1 /\ f.limit = Horizon /\ f.from = n
  <2>1. frame.source = n /\ frame.seq = sent[n] + 1 /\ frame.limit = Horizon
    OBVIOUS
  <2> HIDE DEF frame, tree
  <2>2. \A f \in copies :
          f.source = frame.source /\ f.seq = frame.seq /\ f.limit = frame.limit /\ f.from = n
    BY FloodCopies
  <2> QED
    BY <2>1, <2>2
<1>4. ASSUME NEW s \in quiet', s # n PROVE FloodOf(s)'
  <2>1. s \in Router /\ FloodOf(s) /\ s \notin old
    BY <1>1, <1>2, <1>4 DEF FloodsSpread
  <2>2. sent'[s] = sent[s] /\ \A m \in Router : seen'[m][s] = seen[m][s]
    BY <1>1, <1>2, <1>4, <2>1
  <2>3. \A f : f.source = s => (f \in net' <=> f \in net)
    <3> HIDE DEF frame, copies
    <3> QED
      BY <1>1, <1>3, <1>4
  <2> QED
    BY <1>1, <2>1, <2>2, <2>3, FloodKept
<1>5. ASSUME n \in quiet' PROVE FloodOf(n)'
  <2>1. sent'[n] = sent[n] + 1 /\ net' = copies
    BY <1>1, <1>2, <1>5
  <2>2. \A m \in Router : m \notin Reached(n)'
    <3> SUFFICES ASSUME NEW m \in Router PROVE seen'[m][n] # sent'[n]
      BY DEF Reached
    <3>1. seen[m][n] \in Nat /\ seen[m][n] <= sent[n] /\ sent[n] \in Nat
      BY <1>2 DEF FloodsSpread, FloodBounds
    <3>2. seen'[m][n] \in {0, seen[m][n]}
      BY <1>1, <1>2
    <3> QED
      BY <2>1, <3>1, <3>2
  <2>3. \A m : Has(m, n)' <=> m = n
    BY <2>2 DEF Has, Reached
  <2>4. Reached(n)' = {} /\ Cardinality(Reached(n)') = 0
    <3>1. Reached(n)' = {}
      BY <2>2 DEF Reached
    <3> QED
      BY <3>1, FS_EmptySet
  <2>5. ASSUME NEW f \in net'
        PROVE  f.seq = sent'[n] /\ Has(f.from, n)' /\ Horizon - f.limit <= 0
    <3>1. f.seq = sent[n] + 1 /\ f.limit = Horizon /\ f.from = n
      BY <1>3, <2>1
    <3> QED
      BY <2>1, <2>3, <3>1
  <2>6. ASSUME NEW a \in Router, NEW b \in Router, {a, b} \in TreeEdge,
               Has(a, n)', ~Has(b, n)'
        PROVE  \E f \in net' : f.source = n /\ f.to = b
    <3>1. a = n /\ b # n /\ {n, b} \in TreeEdge
      BY <2>3, <2>6
    <3> HIDE DEF frame, tree
    <3>2. \E f \in copies : f.source = frame.source /\ f.to = b
      BY <3>1, FloodAlongTree
    <3>3. frame.source = n
      BY DEF frame
    <3> QED
      BY <2>1, <3>2, <3>3
  <2> QED
    BY <1>1, <1>5, <2>4, <2>5, <2>6 DEF FloodOf
<1>6. FloodBounds'
  BY BoundsMaintain DEF FloodsSpread
<1> QED
  BY <1>4, <1>5, <1>6 DEF FloodsSpread

LEMMA FloodsGreet ==
  ASSUME WakeupTypeOK, FloodsSpread,
         NEW n \in Router, NEW m \in Router, Greet(n, m)
  PROVE  FloodsSpread'
<1> USE TreeIsOfPeerings
<1> DEFINE copy == [source |-> n, seq |-> sent[n] + 1, limit |-> Horizon, from |-> n, to |-> m]
<1>1. /\ net' = net \cup {copy}
      /\ sent' = [sent EXCEPT ![n] = @ + 1]
      /\ quiet' = quiet \ {n} /\ seen' = seen /\ hot' = hot
  BY DEF Greet
<1>2. /\ sent \in [Router -> Nat] /\ seen \in [Router -> [Router -> Nat]]
      /\ quiet \subseteq Router
      /\ \A f \in net : f.source \in Router /\ f.seq \in Nat
  BY DEF WakeupTypeOK
<1>3. copy.source = n /\ copy.seq = sent[n] + 1
  OBVIOUS
<1> HIDE DEF copy
<1>4. sent'[n] = sent[n] + 1 /\ \A s \in Router \ {n} : sent'[s] = sent[s]
  BY <1>1, <1>2
<1>5. FloodBounds'
  <2>1. \A a, s \in Router : seen[a][s] <= sent[s] /\ seen[a][s] \in Nat
    BY <1>2 DEF FloodsSpread, FloodBounds
  <2>2. \A f \in net : f.seq <= sent[f.source]
    BY DEF FloodsSpread, FloodBounds
  <2>3. \A s \in Router : sent[s] <= sent'[s] /\ sent[s] \in Nat /\ sent'[s] \in Nat
    BY <1>2, <1>4
  <2>4. \A a, s \in Router : seen'[a][s] <= sent'[s]
    BY <1>1, <2>1, <2>3
  <2>5. \A f \in net' : f.seq <= sent'[f.source]
    BY <1>1, <1>2, <1>3, <1>4, <2>2, <2>3
  <2> QED
    BY <2>4, <2>5 DEF FloodBounds
<1>6. ASSUME NEW s \in quiet' PROVE FloodOf(s)'
  <2>1. s \in Router /\ s # n /\ FloodOf(s)
    BY <1>1, <1>2, <1>6 DEF FloodsSpread
  <2> QED
    BY <1>1, <1>3, <1>4, <2>1, FloodKept
<1> QED
  BY <1>5, <1>6 DEF FloodsSpread

(* A copy of a flood that is filtered comes to a node that has heard of it.   *)
LEMMA FloodsFilter ==
  ASSUME WakeupTypeOK, FloodsSpread, NEW f \in net, HandleBroadcast(f), Filtered(f)
  PROVE  FloodsSpread'
<1>1. net' = net \ {f} /\ UNCHANGED <<sent, seen, hot, quiet>>
  BY DEF HandleBroadcast
<1>2. f.source \in Router /\ f.to \in Router /\ f.seq \in Nat
  BY TreeIsOfPeerings DEF WakeupTypeOK
<1>3. FloodBounds'
  BY <1>1 DEF FloodsSpread, FloodBounds
<1>4. ASSUME NEW s \in quiet PROVE FloodOf(s)'
  <2>1. s \in Router /\ FloodOf(s)
    BY DEF WakeupTypeOK, FloodsSpread
  <2>2. CASE f.source # s
    BY <1>1, <2>1, <2>2, FloodKept
  <2>3. CASE f.source = s
    <3>1. f.to \in Reached(s)
      <4>1. CASE s \in hot[f.to]
        BY <1>2, <2>1, <4>1 DEF FloodOf
      <4>2. CASE f.seq <= seen[f.to][s]
        <5>1. f.seq = sent[s] /\ seen[f.to][s] <= sent[s]
          BY <1>2, <2>1, <2>3 DEF FloodOf, FloodsSpread, FloodBounds
        <5>2. seen[f.to][s] \in Nat
          BY <1>2, <2>1, TreeIsOfPeerings DEF WakeupTypeOK
        <5>3. seen[f.to][s] = sent[s]
          BY <1>2, <4>2, <5>1, <5>2
        <5> QED
          BY <1>2, <5>3 DEF Reached
      <4> QED
        BY <2>3, <4>1, <4>2 DEF Filtered
    <3>2. Reached(s)' = Reached(s) /\ \A n : Has(n, s)' <=> Has(n, s)
      BY <1>1 DEF Reached, Has
    <3>3. ASSUME NEW a \in Router, NEW b \in Router, {a, b} \in TreeEdge,
                 Has(a, s), ~Has(b, s)
          PROVE  \E g \in net' : g.source = s /\ g.to = b
      <4>1. PICK g \in net : g.source = s /\ g.to = b
        BY <2>1, <3>3 DEF FloodOf
      <4>2. g # f
        BY <3>1, <3>3, <4>1 DEF Has
      <4> QED
        BY <1>1, <4>1, <4>2
    <3> QED
      BY <1>1, <2>1, <3>2, <3>3 DEF FloodOf
  <2> QED
    BY <2>2, <2>3
<1> QED
  BY <1>1, <1>3, <1>4 DEF FloodsSpread

(* The first copy that a node hears of makes one node more that has heard;    *)
(* it goes on to the node's other neighbours in the tree, or it has come      *)
(* Horizon nodes far, and then there is nobody left.                          *)
LEMMA FloodGoesOn ==
  ASSUME Cardinality(Router) <= Horizon,
         WakeupTypeOK, FloodsSpread, NEW f \in net, HandleBroadcast(f), ~Filtered(f),
         f.source \in quiet
  PROVE  FloodOf(f.source)'
<1> USE TreeIsOfPeerings
<1> DEFINE s == f.source
           t == f.to
           next == [f EXCEPT !.limit = @ - 1]
           onward == IF f.limit > 1
                     THEN Flood(t, f.from, next, f.limit - 1 < Horizon - 1) ELSE {}
<1>1. /\ s \in Router /\ t \in Router /\ f.seq \in Nat /\ f.limit \in Nat /\ f.from \in Router
      /\ f.limit >= 1 /\ next.source = s /\ next.seq = f.seq /\ next.limit = f.limit - 1
  BY DEF WakeupTypeOK
<1>2. /\ sent' = sent /\ seen' = [seen EXCEPT ![t][s] = f.seq]
      /\ hot' = [hot EXCEPT ![t] = @ \cup {s}]
      /\ net' = (net \ {f}) \cup onward
  BY DEF HandleBroadcast
<1>3. FloodOf(s) /\ f.seq = sent[s] /\ Has(f.from, s)
      /\ Horizon - f.limit <= Cardinality(Reached(s))
  BY DEF FloodsSpread, FloodOf
<1>4. \A g \in onward : g.source = s /\ g.seq = f.seq /\ g.limit = f.limit - 1 /\ g.from = t
  <2> HIDE DEF s, t, next
  <2> QED
    BY <1>1, FloodCopies
<1>5. t \notin Reached(s)
  <2>1. ~(f.seq <= seen[t][s])
    BY DEF Filtered
  <2> QED
    BY <1>1, <1>3, <2>1 DEF Reached
<1>6. Reached(s)' = Reached(s) \cup {t}
  <2>1. \A n \in Router : seen'[n][s] = IF n = t THEN f.seq ELSE seen[n][s]
    BY <1>1, <1>2 DEF WakeupTypeOK
  <2> HIDE DEF s, t
  <2> QED
    BY <1>1, <1>2, <1>3, <2>1 DEF Reached
<1> HIDE DEF onward, next, s, t
<1>7. /\ Cardinality(Reached(s)) \in Nat
      /\ Cardinality(Reached(s)') = Cardinality(Reached(s)) + 1
      /\ Cardinality(Reached(s)') <= Cardinality(Router)
      /\ Cardinality(Reached(s)') = Cardinality(Router) => Router = Reached(s)'
  <2>1. Reached(s) \in SUBSET Router /\ Reached(s)' \in SUBSET Router
    BY <1>1, <1>6 DEF Reached
  <2>2. IsFiniteSet(Reached(s))
    BY <2>1, FS_Subset
  <2>3. Cardinality(Reached(s)) \in Nat
    BY <2>2, FS_CardinalityType
  <2>4. Cardinality(Reached(s) \cup {t}) = Cardinality(Reached(s)) + 1
    BY <1>5, <2>2, FS_AddElement
  <2>5. Cardinality(Reached(s)') = Cardinality(Reached(s)) + 1
    BY <1>6, <2>4
  <2>6. /\ Cardinality(Reached(s)') <= Cardinality(Router)
        /\ Cardinality(Router) = Cardinality(Reached(s)') => Router = Reached(s)'
    BY <2>1, FS_Subset
  <2> QED
    BY <2>3, <2>5, <2>6
<1>8. \A n : Has(n, s)' <=> Has(n, s) \/ n = t
  BY <1>6 DEF Has
<1>9. ASSUME NEW g \in net', g.source = s
      PROVE  g.seq = sent'[s] /\ Has(g.from, s)' /\ Horizon - g.limit <= Cardinality(Reached(s)')
  <2>1. Horizon \in Nat
    OBVIOUS
  <2>2. CASE g \in onward
    <3>1. g.seq = f.seq /\ g.limit = f.limit - 1 /\ g.from = t
      BY <1>4, <2>2
    <3>2. Horizon - (f.limit - 1) <= Cardinality(Reached(s)) + 1
      BY <1>1, <1>3, <1>7, <2>1
    <3> QED
      BY <1>2, <1>3, <1>7, <1>8, <3>1, <3>2
  <2>3. CASE g \in net
    <3>1. g.seq = sent[s] /\ Has(g.from, s) /\ Horizon - g.limit <= Cardinality(Reached(s))
      BY <1>3, <1>9, <2>3 DEF FloodOf
    <3>2. g.limit \in Nat
      BY <2>3 DEF WakeupTypeOK
    <3>3. Horizon - g.limit <= Cardinality(Reached(s)) + 1
      BY <1>7, <2>1, <3>1, <3>2
    <3> QED
      BY <1>2, <1>7, <1>8, <3>1, <3>3
  <2> QED
    BY <1>2, <1>9, <2>2, <2>3
<1>10. ASSUME NEW n \in Router, s \in hot'[n] PROVE n \in Reached(s)'
  <2>1. n = t \/ s \in hot[n]
    BY <1>1, <1>2, <1>10 DEF WakeupTypeOK
  <2> QED
    BY <1>3, <1>6, <2>1 DEF FloodOf
<1>11. ASSUME NEW a \in Router, NEW b \in Router, {a, b} \in TreeEdge,
              Has(a, s)', ~Has(b, s)'
       PROVE  \E g \in net' : g.source = s /\ g.to = b
  <2>1. ~Has(b, s) /\ b # t
    BY <1>8, <1>11
  <2>2. CASE Has(a, s)
    <3>1. PICK g \in net : g.source = s /\ g.to = b
      BY <1>3, <1>11, <2>1, <2>2 DEF FloodOf
    <3>2. g # f
      BY <2>1, <3>1 DEF t
    <3> QED
      BY <1>2, <3>1, <3>2
  <2>3. CASE a = t
    <3>1. f.limit > 1
      <4> SUFFICES ASSUME f.limit = 1 PROVE FALSE
        BY <1>1
      <4>1. Horizon - 1 <= Cardinality(Reached(s))
        BY <1>3
      <4>2. Cardinality(Router) \in Nat
        BY FS_CardinalityType
      <4>3. Cardinality(Reached(s)') = Cardinality(Router)
        BY <1>7, <4>1, <4>2
      <4>4. b \in Reached(s)'
        BY <1>7, <4>3
      <4> QED
        BY <1>6, <1>8, <1>11, <4>4 DEF Has
    <3>2. b # f.from
      BY <1>3, <2>1
    <3>3. \E g \in Flood(t, f.from, next, f.limit - 1 < Horizon - 1) :
            g.source = next.source /\ g.to = b
      BY <1>11, <2>3, <3>2, FloodAlongTree
    <3> QED
      BY <1>1, <1>2, <3>1, <3>3 DEF onward
  <2> QED
    BY <1>8, <1>11, <2>2, <2>3
<1>12. FloodOf(s)'
  BY <1>9, <1>10, <1>11 DEF FloodOf
<1> QED
  BY <1>12 DEF s

LEMMA FloodsHandle ==
  ASSUME Cardinality(Router) <= Horizon,
         WakeupTypeOK, FloodsSpread, NEW f \in net, HandleBroadcast(f), ~Filtered(f)
  PROVE  FloodsSpread'
<1> USE TreeIsOfPeerings
<1> DEFINE next == [f EXCEPT !.limit = @ - 1]
           onward == IF f.limit > 1
                     THEN Flood(f.to, f.from, next, f.limit - 1 < Horizon - 1) ELSE {}
<1>1. /\ sent' = sent /\ quiet' = quiet /\ seen' = [seen EXCEPT ![f.to][f.source] = f.seq]
      /\ hot' = [hot EXCEPT ![f.to] = @ \cup {f.source}]
      /\ net' = (net \ {f}) \cup onward
  BY DEF HandleBroadcast
<1>2. /\ f.source \in Router /\ f.to \in Router /\ f.seq \in Nat
      /\ next.source = f.source /\ next.seq = f.seq
      /\ seen \in [Router -> [Router -> Nat]] /\ hot \in [Router -> SUBSET Router]
      /\ quiet \subseteq Router
  BY DEF WakeupTypeOK
<1>3. \A g \in onward : g.source = f.source /\ g.seq = f.seq
  <2> HIDE DEF next
  <2> QED
    BY <1>2, FloodCopies
<1> HIDE DEF onward, next
<1>4. FloodBounds'
  <2>1. f.seq <= sent[f.source]
    BY DEF FloodsSpread, FloodBounds
  <2>2. \A n, s \in Router : seen'[n][s] <= sent'[s]
    BY <1>1, <1>2, <2>1 DEF FloodsSpread, FloodBounds
  <2>3. \A g \in net' : g.seq <= sent'[g.source]
    BY <1>1, <1>3, <2>1 DEF FloodsSpread, FloodBounds
  <2> QED
    BY <2>2, <2>3 DEF FloodBounds
<1>5. ASSUME NEW s \in quiet PROVE FloodOf(s)'
  <2>1. CASE s = f.source
    BY <2>1, FloodGoesOn
  <2>2. CASE s # f.source
    <3>1. s \in Router /\ FloodOf(s)
      BY <1>2 DEF FloodsSpread
    <3>2. \A n \in Router : seen'[n][s] = seen[n][s] /\ (s \in hot'[n] => s \in hot[n])
      BY <1>1, <1>2, <2>2, <3>1
    <3>3. \A g : g.source = s => (g \in net' <=> g \in net)
      BY <1>1, <1>3, <2>2
    <3> QED
      BY <1>1, <3>1, <3>2, <3>3, FloodKept
  <2> QED
    BY <2>1, <2>2
<1> QED
  BY <1>1, <1>4, <1>5 DEF FloodsSpread

LEMMA NextFloods ==
  ASSUME Cardinality(Router) <= Horizon, WakeupTypeOK, FloodsSpread, [WakeupNext]_wakeupVars
  PROVE  FloodsSpread'
<1>1. ASSUME NEW n \in Router, NEW old \in SUBSET Router, MaintainBroadcasts(n, old)
      PROVE  FloodsSpread'
  BY <1>1, FloodsMaintain
<1>2. ASSUME NEW n \in Router, NEW m \in Router, Greet(n, m) PROVE FloodsSpread'
  BY <1>2, FloodsGreet
<1>3. ASSUME NEW f \in net, HandleBroadcast(f) PROVE FloodsSpread'
  BY <1>3, FloodsFilter, FloodsHandle
<1>4. ASSUME NEW n \in Router, NEW s \in Router, Cool(n, s) PROVE FloodsSpread'
  <2>1. UNCHANGED <<net, sent, seen, quiet>> /\ \A m \in Router : hot'[m] \subseteq hot[m]
    BY <1>4 DEF Cool, WakeupTypeOK
  <2>2. \A r \in quiet : r \in Router /\ FloodOf(r)
    BY DEF WakeupTypeOK, FloodsSpread
  <2>3. \A r \in quiet : FloodOf(r)'
    BY <2>1, <2>2, FloodKept
  <2> QED
    BY <2>1, <2>3 DEF FloodsSpread, FloodBounds
<1>5. CASE UNCHANGED wakeupVars
  BY <1>5 DEF wakeupVars, FloodsSpread, FloodBounds, FloodOf, Has, Reached
<1> QED
  BY <1>1, <1>2, <1>3, <1>4, <1>5 DEF WakeupNext

(* A flood that has spent itself left no edge of the tree half way.           *)
LEMMA SpentFloodsReach == FloodsSpread /\ quiet \subseteq Router => BroadcastReaches
<1> SUFFICES ASSUME FloodsSpread, quiet \subseteq Router, net = {},
                    NEW s \in quiet, NEW n \in Router \ {s}
             PROVE  seen[n][s] = sent[s]
  BY DEF BroadcastReaches
<1> DEFINE there == { m \in Router : Has(m, s) }
<1>1. there \in SUBSET Router /\ s \in there
  BY DEF Has
<1>2. ASSUME there # Router PROVE FALSE
  <2>1. PICK a \in there, b \in Router \ there : {a, b} \in TreeEdge
    BY <1>1, <1>2, TreeSpans
  <2> QED
    BY <2>1 DEF FloodsSpread, FloodOf
<1> QED
  BY <1>2 DEF Has, Reached

-----------------------------------------------------------------------------
(* Sessions *)

Dialling == {"idle", "rlock", "lock", "handshake", "check", "open", "again"}

(* The connections ever made are counted up to the bound, and every goroutine *)
(* that is under way refers to a session.                                     *)
SessionsTypes ==
  /\ SessionsTypeOK
  /\ opened \in 0..MaxConnections
  /\ dialler \in [Dialler -> [at : Dialling, session : Session \cup {NoSession},
                              retrying : BOOLEAN]]
  /\ \A d \in Dialler : dialler[d].at \in Dialling \ {"idle", "again"}
                           => dialler[d].session \in Session
  /\ accepting \in [at : {"idle", "lock"}, session : Session \cup {NoSession},
                    con : 0..MaxConnections, found : BOOLEAN]
  /\ accepting.at = "lock" => accepting.session \in Session
  /\ loops \subseteq [session : Session, con : Connection \cup {NoConnection}]

LEMMA InitSessions == SessionsInit => SessionsTypes
BY SessionsAssumption
DEF SessionsInit, SessionsTypes, SessionsTypeOK, NotDialling, NotAccepting, Dialling,
    NoSession, NoConnection

LEMMA GetSessionTypes ==
  ASSUME SessionsTypes, NEW s \in Session, NEW known \in BOOLEAN, GetSession(s, known)
  PROVE  /\ entry' \in Session \cup {NoSession}
         /\ conn' \in [Session -> Connection \cup {NoConnection}]
BY DEF GetSession, SessionsTypes, SessionsTypeOK

LEMMA LookUpTypes ==
  ASSUME SessionsTypes, NEW d \in Dialler, LookUp(d) PROVE SessionsTypes'
<1>1. PICK s \in Session, known \in BOOLEAN :
        /\ GetSession(s, known)
        /\ dialler' = [dialler EXCEPT ![d].at = IF known THEN "rlock" ELSE "lock",
                                     ![d].session = s]
  BY DEF LookUp
<1>2. /\ entry' \in Session \cup {NoSession}
      /\ conn' \in [Session -> Connection \cup {NoConnection}]
  BY <1>1, GetSessionTypes
<1>3. UNCHANGED <<writer, readers, opened, alive, accepting, loops>>
  BY DEF LookUp
<1>4. /\ dialler' \in [Dialler -> [at : Dialling, session : Session \cup {NoSession},
                                   retrying : BOOLEAN]]
      /\ \A e \in Dialler : dialler'[e].at \in Dialling \ {"idle", "again"}
                                => dialler'[e].session \in Session
  <2>1. dialler' = [dialler EXCEPT ![d] = [dialler[d] EXCEPT
                      !.at = IF known THEN "rlock" ELSE "lock", !.session = s]]
    BY <1>1
  <2>2. dialler[d] \in [at : Dialling, session : Session \cup {NoSession}, retrying : BOOLEAN]
    BY DEF SessionsTypes
  <2> QED
    BY <2>1, <2>2 DEF SessionsTypes, Dialling
<1> QED
  BY <1>2, <1>3, <1>4 DEF SessionsTypes, SessionsTypeOK

(* A dialler that only moves, or gives up and returns its read locks.         *)
LEMMA DiallerMoves ==
  ASSUME SessionsTypes, NEW d \in Dialler, NEW next,
         next \in [at : Dialling, session : Session \cup {NoSession}, retrying : BOOLEAN],
         next.at \in Dialling \ {"idle", "again"} => next.session \in Session
  PROVE  /\ [dialler EXCEPT ![d] = next]
              \in [Dialler -> [at : Dialling, session : Session \cup {NoSession},
                               retrying : BOOLEAN]]
         /\ \A e \in Dialler :
              [dialler EXCEPT ![d] = next][e].at \in Dialling \ {"idle", "again"}
                => [dialler EXCEPT ![d] = next][e].session \in Session
BY DEF SessionsTypes

LEMMA FewerReaders ==
  ASSUME SessionsTypes, NEW d \in Dialler
  PROVE  /\ ReadersWithout(d) \in [Session -> SUBSET Dialler]
         /\ \A s \in Session : readers[s] = {} => ReadersWithout(d)[s] = {}
BY DEF SessionsTypes, SessionsTypeOK, ReadersWithout

LEMMA NextSessions == SessionsTypes /\ [SessionsNext]_sessionVars => SessionsTypes'
<1> SUFFICES ASSUME SessionsTypes, [SessionsNext]_sessionVars PROVE SessionsTypes'
  OBVIOUS
<1> USE SessionsAssumption
<1> DEFINE DiallerState ==
             [at : Dialling, session : Session \cup {NoSession}, retrying : BOOLEAN]
<1>1. \A d \in Dialler : dialler[d] \in DiallerState
  BY DEF SessionsTypes
<1>2. ASSUME NEW d \in Dialler, Dial(d) \/ Retry(d) PROVE SessionsTypes'
  BY <1>2, LookUpTypes DEF Dial, Retry
<1>3. ASSUME NEW d \in Dialler, Lock(d) PROVE SessionsTypes'
  <2>1. dialler' = [dialler EXCEPT ![d] = [dialler[d] EXCEPT !.at = "handshake"]]
    BY <1>3 DEF Lock
  <2>2. dialler[d].session \in Session /\ readers[dialler[d].session] = {}
    BY <1>3 DEF Lock, Unlocked, SessionsTypes, Dialling
  <2>3. writer' \subseteq Session /\ \A s \in writer' : readers[s] = {}
    BY <1>3, <2>2 DEF Lock, SessionsTypes, SessionsTypeOK
  <2>4. UNCHANGED <<entry, conn, readers, opened, alive, accepting, loops>>
    BY <1>3 DEF Lock
  <2>5. [dialler[d] EXCEPT !.at = "handshake"] \in DiallerState
    BY <1>1 DEF Dialling
  <2> QED
    BY <2>1, <2>2, <2>3, <2>4, <2>5, DiallerMoves DEF SessionsTypes, SessionsTypeOK
<1>4. ASSUME NEW d \in Dialler, Handshake(d) PROVE SessionsTypes'
  <2> DEFINE s == dialler[d].session
  <2>1. s \in Session
    BY <1>4 DEF Handshake, SessionsTypes, Dialling
  <2>2. writer' \subseteq writer /\ UNCHANGED <<entry, accepting>>
    BY <1>4 DEF Handshake
  <2>3. CASE opened' # opened
    <3>1. /\ opened < MaxConnections /\ opened' = opened + 1
          /\ alive' = alive \cup {opened + 1}
          /\ conn' = [conn EXCEPT ![s] = opened + 1]
          /\ loops' = loops \cup {[session |-> s, con |-> NoConnection]}
          /\ dialler' = [dialler EXCEPT ![d] = [dialler[d] EXCEPT !.at = "check"]]
          /\ UNCHANGED readers
      BY <1>4, <2>3 DEF Handshake
    <3>2. [dialler[d] EXCEPT !.at = "check"] \in DiallerState
      BY <1>1 DEF Dialling
    <3>3. opened + 1 \in Connection /\ opened' \in 0..MaxConnections /\ alive' \subseteq 1..opened'
      BY <3>1 DEF SessionsTypes, SessionsTypeOK, Connection
    <3> QED
      BY <2>1, <2>2, <3>1, <3>2, <3>3, DiallerMoves DEF SessionsTypes, SessionsTypeOK
  <2>4. CASE opened' = opened
    <3>1. opened # opened + 1
      BY DEF SessionsTypes
    <3>2. /\ conn' = [conn EXCEPT ![s] = NoConnection]
          /\ dialler' = [dialler EXCEPT ![d] = NotDialling]
          /\ readers' = ReadersWithout(d)
          /\ UNCHANGED <<opened, alive, loops>>
      BY <1>4, <2>4, <3>1 DEF Handshake
    <3>3. NotDialling \in DiallerState /\ NotDialling.at = "idle"
      BY DEF NotDialling, Dialling
    <3> QED
      BY <2>1, <2>2, <3>2, <3>3, DiallerMoves, FewerReaders DEF SessionsTypes, SessionsTypeOK
  <2> QED
    BY <2>3, <2>4
<1>5. ASSUME NEW d \in Dialler, RLock(d) PROVE SessionsTypes'
  <2> DEFINE s == dialler[d].session
  <2>1. s \in Session /\ s \notin writer
    BY <1>5 DEF RLock, SessionsTypes, Dialling
  <2>2. /\ readers' = [readers EXCEPT ![s] = @ \cup {d}]
        /\ dialler' = [dialler EXCEPT ![d] = [dialler[d] EXCEPT !.at = "check"]]
        /\ UNCHANGED <<entry, conn, writer, opened, alive, accepting, loops>>
    BY <1>5 DEF RLock
  <2>3. [dialler[d] EXCEPT !.at = "check"] \in DiallerState
    BY <1>1 DEF Dialling
  <2> QED
    BY <2>1, <2>2, <2>3, DiallerMoves DEF SessionsTypes, SessionsTypeOK
<1>6. ASSUME NEW d \in Dialler, Check(d) \/ OpenStream(d) PROVE SessionsTypes'
  <2>1. entry' \in Session \cup {NoSession}
    BY <1>6 DEF Check, OpenStream, SessionsTypes, SessionsTypeOK
  <2>2. readers' \in {readers, ReadersWithout(d)}
    BY <1>6 DEF Check, OpenStream
  <2>3. UNCHANGED <<conn, writer, opened, alive, accepting, loops>>
    BY <1>6 DEF Check, OpenStream
  <2>4. dialler[d].session \in Session
    BY <1>6 DEF Check, OpenStream, SessionsTypes, Dialling
  <2>5. PICK next \in {NotDialling, [dialler[d] EXCEPT !.at = "open"],
                        [dialler[d] EXCEPT !.at = "again", !.retrying = TRUE]} :
          dialler' = [dialler EXCEPT ![d] = next]
    BY <1>6 DEF Check, OpenStream
  <2>6. next \in DiallerState
        /\ (next.at \in Dialling \ {"idle", "again"} => next.session \in Session)
    <3>1. dialler[d] \in DiallerState
      BY <1>1
    <3>2. CASE next = NotDialling
      BY <3>2 DEF NotDialling, Dialling
    <3>3. CASE next = [dialler[d] EXCEPT !.at = "open"]
      BY <2>4, <3>1, <3>3 DEF Dialling
    <3>4. CASE next = [dialler[d] EXCEPT !.at = "again", !.retrying = TRUE]
      BY <3>1, <3>4 DEF Dialling
    <3> QED
      BY <2>5, <3>2, <3>3, <3>4
  <2>7. readers' \in [Session -> SUBSET Dialler] /\ \A s \in writer' : readers'[s] = {}
    BY <2>2, <2>3, FewerReaders DEF SessionsTypes, SessionsTypeOK
  <2> QED
    BY <2>1, <2>3, <2>5, <2>6, <2>7, DiallerMoves DEF SessionsTypes, SessionsTypeOK
<1>7. CASE Accept
  <2>1. PICK s \in Session, known \in BOOLEAN :
          /\ GetSession(s, known)
          /\ accepting' = [at |-> "lock", session |-> s, con |-> opened + 1, found |-> known]
    BY <1>7 DEF Accept
  <2>2. /\ opened < MaxConnections /\ opened' = opened + 1
        /\ alive' = alive \cup {opened + 1}
        /\ UNCHANGED <<writer, readers, dialler, loops>>
    BY <1>7 DEF Accept
  <2>3. opened + 1 \in 0..MaxConnections /\ alive' \subseteq 1..opened'
    BY <2>2 DEF SessionsTypes, SessionsTypeOK
  <2>4. /\ accepting' \in [at : {"idle", "lock"}, session : Session \cup {NoSession},
                           con : 0..MaxConnections, found : BOOLEAN]
        /\ accepting'.session \in Session
    BY <2>1, <2>3
  <2> QED
    BY <2>1, <2>2, <2>3, <2>4, GetSessionTypes DEF SessionsTypes, SessionsTypeOK
<1>8. CASE Install
  <2> DEFINE s == accepting.session
  <2>1. s \in Session /\ accepting.con \in Connection \cup {NoConnection}
    BY <1>8 DEF Install, SessionsTypes, Connection, NoConnection
  <2>2. /\ alive' \subseteq alive
        /\ conn' = [conn EXCEPT ![s] = accepting.con]
        /\ loops' = loops \cup {[session |-> s, con |-> NoConnection]}
        /\ accepting' = NotAccepting
        /\ UNCHANGED <<entry, writer, readers, opened, dialler>>
    BY <1>8 DEF Install
  <2>3. /\ accepting' \in [at : {"idle", "lock"}, session : Session \cup {NoSession},
                           con : 0..MaxConnections, found : BOOLEAN]
        /\ accepting'.at = "idle"
    BY <2>2 DEF NotAccepting, NoConnection
  <2> QED
    BY <2>1, <2>2, <2>3 DEF SessionsTypes, SessionsTypeOK
<1>9. ASSUME NEW l \in loops, StartLoop(l) \/ EndLoop(l) PROVE SessionsTypes'
  <2>1. l \in [session : Session, con : Connection \cup {NoConnection}]
    BY DEF SessionsTypes
  <2>2. conn[l.session] \in Connection \cup {NoConnection}
    BY <2>1 DEF SessionsTypes, SessionsTypeOK
  <2>3. loops' \subseteq loops \cup {[l EXCEPT !.con = conn[l.session]]}
    BY <1>9 DEF StartLoop, EndLoop
  <2>4. entry' \in Session \cup {NoSession}
    BY <1>9 DEF StartLoop, EndLoop, SessionsTypes, SessionsTypeOK
  <2>5. UNCHANGED <<conn, writer, readers, opened, alive, dialler, accepting>>
    BY <1>9 DEF StartLoop, EndLoop
  <2> QED
    BY <2>1, <2>2, <2>3, <2>4, <2>5 DEF SessionsTypes, SessionsTypeOK
<1>10. ASSUME NEW c \in alive, ConnectionDies(c) PROVE SessionsTypes'
  BY <1>10 DEF ConnectionDies, SessionsTypes, SessionsTypeOK
<1>11. CASE UNCHANGED sessionVars
  BY <1>11 DEF sessionVars, SessionsTypes, SessionsTypeOK
<1> QED
  BY <1>2, <1>3, <1>4, <1>5, <1>6, <1>7, <1>8, <1>9, <1>10, <1>11
  DEF SessionsNext, DialStep

-----------------------------------------------------------------------------
(* Types of the discovery *)

Count(b) == IF b THEN 1 ELSE 0

(* An announce loop is started by the goroutine that calls Start, which ends, *)
(* and by main's StartMDNS, which calls it once.                              *)
DiscoveryTypes ==
  /\ DiscoveryTypeOK
  /\ service.loops <= Count(starting = "ended") + Count(boot \in {"configured", "wired", "stopped"})

ServiceType ==
  [running : BOOLEAN, conn : BOOLEAN, announcing : BOOLEAN, loops : 0..2, fallback : BOOLEAN,
   late : BOOLEAN]

LEMMA InitDiscoveryTypes == DiscoveryInit => DiscoveryTypes
<1> SUFFICES ASSUME DiscoveryInit PROVE DiscoveryTypes
  OBVIOUS
<1>1. service \in ServiceType /\ service.loops = 0
  BY DEF DiscoveryInit, NotStarted, ServiceType
<1>2. callback \in BOOLEAN
  BY DEF DiscoveryInit
<1>3. /\ reporting \in [Neighbour -> 0..MaxReports] /\ dialling \in [Neighbour -> Nat]
      /\ cache \in [Neighbour -> {"none", "fresh", "old"}] /\ local \subseteq Neighbour
      /\ contact \in [Neighbour -> {"none", "fresh", "old"}] /\ linked \subseteq Neighbour
  BY DiscoveryAssumption DEF DiscoveryInit
<1>4. boot = "starting" /\ starting = "ready" /\ lock = "nobody"
  BY DEF DiscoveryInit
<1> QED
  BY <1>1, <1>2, <1>3, <1>4 DEF DiscoveryTypes, DiscoveryTypeOK, ServiceType, Count

(* How a service changes with the count of its loops.                        *)
Started(s, socket, fallback, n) ==
  [s EXCEPT !.running = TRUE, !.conn = socket, !.fallback = fallback, !.loops = n]
Connected(s, socket, n) == [s EXCEPT !.conn = socket, !.loops = n]
Looping(s, n) == [s EXCEPT !.loops = n]

LEMMA ServiceFields ==
  \A s \in ServiceType, socket, fallback \in BOOLEAN, n \in 0..2 :
         /\ Started(s, socket, fallback, n) \in ServiceType
         /\ Started(s, socket, fallback, n).loops = n
         /\ Connected(s, socket, n) \in ServiceType /\ Connected(s, socket, n).loops = n
         /\ Looping(s, n) \in ServiceType /\ Looping(s, n).loops = n
BY ZenonT(60) DEF ServiceType, Started, Connected, Looping

LEMMA ServiceTypes ==
  ASSUME DiscoveryTypes, NEW socket \in BOOLEAN, NEW port \in BOOLEAN,
         StartService(socket, port) \/ StartMDNS(socket)
  PROVE  DiscoveryTypes'
<1>1. CASE StartService(socket, port)
  <2>1. /\ starting = "ready" /\ starting' = "ended"
        /\ UNCHANGED <<boot, lock, callback, cache, local, reporting, contact, dialling, linked>>
    BY <1>1 DEF StartService
  <2>2. service.loops \in 0..2 /\ service.loops + 1 <= 2
    BY <2>1 DEF DiscoveryTypes, DiscoveryTypeOK, Count
  <2>3. FallbackStarts(socket, port) \in BOOLEAN
    BY DEF FallbackStarts
  <2>4. service' = [service EXCEPT !.running = TRUE, !.conn = socket,
                      !.fallback = FallbackStarts(socket, port),
                      !.loops = IF socket THEN service.loops + 1 ELSE service.loops]
    BY <1>1 DEF StartService
  <2>5. PICK n \in {service.loops, service.loops + 1}, fallback \in BOOLEAN :
          service' = Started(service, socket, fallback, n)
    BY <2>3, <2>4 DEF Started
  <2>6. service \in ServiceType /\ n \in 0..2
    BY <2>2 DEF DiscoveryTypes, DiscoveryTypeOK, ServiceType
  <2>7. service' \in ServiceType /\ service'.loops = n
    <3>1. /\ Started(service, socket, fallback, n) \in ServiceType
          /\ Started(service, socket, fallback, n).loops = n
      BY ZenonT(60), <2>6, ServiceFields
    <3> QED
      BY <2>5, <3>1
  <2>8. service'.loops <= service.loops + 1
    BY <2>2, <2>5, <2>7
  <2> QED
    BY <2>1, <2>7, <2>8 DEF DiscoveryTypes, DiscoveryTypeOK, ServiceType, Count
<1>2. CASE StartMDNS(socket)
  <2>1. /\ boot = "started" /\ boot' = "configured"
        /\ UNCHANGED <<starting, lock, callback, cache, local, reporting, contact, dialling, linked>>
    BY <1>2 DEF StartMDNS, MainGoesOn, WithConnection
  <2>2. service.loops \in 0..2 /\ service.loops + 1 <= 2
    BY <2>1 DEF DiscoveryTypes, DiscoveryTypeOK, Count
  <2>3. service' = IF service.conn
          THEN [service EXCEPT !.loops = IF service.announcing THEN service.loops ELSE service.loops + 1]
          ELSE [service EXCEPT !.conn = socket,
                               !.loops = IF socket THEN service.loops + 1 ELSE service.loops]
    BY <1>2 DEF StartMDNS, MainGoesOn, WithConnection
  <2>4. PICK n \in {service.loops, service.loops + 1} :
          service' = Looping(service, n) \/ service' = Connected(service, socket, n)
    BY <2>3 DEF Looping, Connected
  <2>5. service \in ServiceType /\ n \in 0..2
    BY <2>2 DEF DiscoveryTypes, DiscoveryTypeOK, ServiceType
  <2>6. service' \in ServiceType /\ service'.loops = n
    BY <2>4, <2>5, ServiceFields
  <2>7. service'.loops <= service.loops + 1
    BY <2>2, <2>4, <2>6
  <2> QED
    BY <2>1, <2>6, <2>7 DEF DiscoveryTypes, DiscoveryTypeOK, ServiceType, Count
<1> QED
  BY <1>1, <1>2

LEMMA NextDiscoveryTypes ==
  DiallingIsContact /\ DiscoveryTypes /\ [DiscoveryNext]_discoveryVars => DiscoveryTypes'
<1> SUFFICES ASSUME DiallingIsContact, DiscoveryTypes, [DiscoveryNext]_discoveryVars
             PROVE  DiscoveryTypes'
  OBVIOUS
<1> USE DEF ServiceType
<1>1. ASSUME NEW socket \in BOOLEAN, NEW port \in BOOLEAN,
             StartService(socket, port) \/ StartMDNS(socket)
      PROVE  DiscoveryTypes'
  BY <1>1, ServiceTypes
<1>2. CASE ManagerGoesOn
  BY <1>2 DEF ManagerGoesOn, MainGoesOn, DiscoveryTypes, DiscoveryTypeOK, Count
<1>3. CASE LoopBegins
  <2>1. service' = [service EXCEPT !.announcing = TRUE]
        /\ UNCHANGED <<boot, starting, lock, callback, cache, local, reporting, contact, dialling,
                       linked>>
    BY <1>3 DEF LoopBegins
  <2>2. service' \in ServiceType /\ service'.loops = service.loops
    BY <2>1 DEF DiscoveryTypes, DiscoveryTypeOK
  <2> QED
    BY <2>1, <2>2 DEF DiscoveryTypes, DiscoveryTypeOK, Count
<1>4. CASE SetMDNSService
  <2>1. /\ boot = "configured" /\ boot' = "wired" /\ callback' \in BOOLEAN
        /\ UNCHANGED <<starting, service, lock, cache, local, reporting, contact, dialling, linked>>
    BY <1>4 DEF SetMDNSService, MainGoesOn
  <2> QED
    BY <2>1 DEF DiscoveryTypes, DiscoveryTypeOK, Count
<1>5. CASE StopService
  <2>1. /\ boot = "wired" /\ boot' = "stopped"
        /\ UNCHANGED <<starting, lock, callback, local, reporting, contact, dialling, linked>>
    BY <1>5 DEF StopService
  <2>2. service' \in ServiceType /\ (service'.loops = service.loops \/ service'.loops = 0)
    <3>1. service \in ServiceType
      BY DEF DiscoveryTypes, DiscoveryTypeOK
    <3>2. ASSUME NEW late \in BOOLEAN
          PROVE  /\ [NotStarted EXCEPT !.late = late] \in ServiceType
                 /\ [NotStarted EXCEPT !.late = late].loops = 0
      <4>1. NotStarted \in ServiceType /\ NotStarted.loops = 0
        BY DEF NotStarted
      <4> QED
        BY <3>2, <4>1
    <3>3. service.conn \in BOOLEAN
      BY <3>1
    <3>4. service' = service \/ service' = [NotStarted EXCEPT !.late = service.conn]
      BY <1>5 DEF StopService
    <3> HIDE DEF ServiceType
    <3> QED
      BY <3>1, <3>2, <3>3, <3>4
  <2>3. cache' \in [Neighbour -> {"none", "fresh", "old"}]
    BY <1>5 DEF StopService, DiscoveryTypes, DiscoveryTypeOK
  <2> QED
    BY <2>1, <2>2, <2>3 DEF DiscoveryTypes, DiscoveryTypeOK, Count
<1>6. ASSUME NEW p \in Neighbour, NEW answer \in Answer, HandleMessage(p, answer)
      PROVE  DiscoveryTypes'
  <2>1. /\ service' = [service EXCEPT !.late = FALSE]
        /\ UNCHANGED <<boot, starting, lock, callback, local, contact, dialling, linked>>
    BY <1>6 DEF HandleMessage, AddDiscoveredPeer
  <2>2. service' \in ServiceType /\ service'.loops = service.loops
    BY <2>1 DEF DiscoveryTypes, DiscoveryTypeOK
  <2>3. reporting[p] \in 0..MaxReports /\ reporting[p] < MaxReports
    BY <1>6 DEF HandleMessage, AddDiscoveredPeer, DiscoveryTypes, DiscoveryTypeOK
  <2>4. reporting' \in {reporting, [reporting EXCEPT ![p] = reporting[p] + 1]}
    BY <1>6 DEF HandleMessage, AddDiscoveredPeer
  <2>5. reporting' \in [Neighbour -> 0..MaxReports]
    BY <2>3, <2>4, DiscoveryAssumption DEF DiscoveryTypes, DiscoveryTypeOK
  <2>6. cache' \in [Neighbour -> {"none", "fresh", "old"}]
    BY <1>6 DEF HandleMessage, AddDiscoveredPeer, DiscoveryTypes, DiscoveryTypeOK
  <2> QED
    BY <2>1, <2>2, <2>5, <2>6 DEF DiscoveryTypes, DiscoveryTypeOK, Count
<1>7. ASSUME NEW p \in Neighbour, HandleReport(p) PROVE DiscoveryTypes'
  <2>1. DiallingIsContact'
    BY <1>7, ReportDialling
  <2>2. contact' \in [Neighbour -> {"none", "fresh", "old"}] /\ dialling' \in [Neighbour -> Nat]
    BY <2>1 DEF DiallingIsContact, ContactStates
  <2>3. reporting' \in [Neighbour -> 0..MaxReports]
    BY <1>7, DiscoveryAssumption DEF HandleReport, DiscoveryTypes, DiscoveryTypeOK
  <2>4. UNCHANGED <<boot, starting, service, lock, callback, cache, local, linked>>
    BY <1>7 DEF HandleReport
  <2> QED
    BY <2>2, <2>3, <2>4 DEF DiscoveryTypes, DiscoveryTypeOK
<1>8. ASSUME NEW p \in Neighbour, NEW success \in BOOLEAN, DialReturns(p, success)
      PROVE  DiscoveryTypes'
  <2>1. dialling' \in [Neighbour -> Nat] /\ linked' \subseteq Neighbour
    BY <1>8 DEF DialReturns, DiscoveryTypes, DiscoveryTypeOK
  <2>2. UNCHANGED <<boot, starting, service, lock, callback, cache, local, reporting, contact>>
    BY <1>8 DEF DialReturns
  <2> QED
    BY <2>1, <2>2 DEF DiscoveryTypes, DiscoveryTypeOK
<1>9. ASSUME NEW p \in Neighbour,
             \/ HandleAnnounce(p) \/ ForceCleanupPeer(p) \/ LinkIsLost(p) \/ CacheAges(p)
             \/ ContactAges(p)
      PROVE  DiscoveryTypes'
  <2>1. UNCHANGED <<boot, starting, service, lock, callback, reporting, dialling>>
    BY <1>9 DEF HandleAnnounce, ForceCleanupPeer, LinkIsLost, CacheAges, ContactAges
  <2>2. /\ cache' \in [Neighbour -> {"none", "fresh", "old"}] /\ local' \subseteq Neighbour
        /\ contact' \in [Neighbour -> {"none", "fresh", "old"}] /\ linked' \subseteq Neighbour
    BY <1>9
    DEF HandleAnnounce, ForceCleanupPeer, LinkIsLost, CacheAges, ContactAges, DiscoveryTypes,
        DiscoveryTypeOK
  <2> QED
    BY <2>1, <2>2 DEF DiscoveryTypes, DiscoveryTypeOK
<1>10. CASE CleanupExpired \/ CleanupContacts
  <2>1. UNCHANGED <<boot, starting, service, lock, callback, local, reporting, dialling, linked>>
    BY <1>10 DEF CleanupExpired, CleanupContacts
  <2>2. /\ cache' \in [Neighbour -> {"none", "fresh", "old"}]
        /\ contact' \in [Neighbour -> {"none", "fresh", "old"}]
    BY <1>10 DEF CleanupExpired, CleanupContacts, DiscoveryTypes, DiscoveryTypeOK
  <2> QED
    BY <2>1, <2>2 DEF DiscoveryTypes, DiscoveryTypeOK
<1>11. CASE BeginDiscovery
  BY <1>11 DEF BeginDiscovery, DiscoveryTypes, DiscoveryTypeOK
<1>12. CASE UNCHANGED discoveryVars
  BY <1>12 DEF discoveryVars, DiscoveryTypes, DiscoveryTypeOK
<1> QED
  BY <1>1, <1>2, <1>3, <1>4, <1>5, <1>6, <1>7, <1>8, <1>9, <1>10, <1>11, <1>12 DEF DiscoveryNext

-----------------------------------------------------------------------------
(* Route discovery *)

Event == {"removed", "added"} \X Remote \cup {<<"tree">>, <<"snake">>}
Lookup == {"more"} \cup Remote
FailureType == [known : BOOLEAN, count : 0..2, black : BOOLEAN]

LEMMA InitRoutes == RoutesInit => RoutesTypeOK
<1> SUFFICES ASSUME RoutesInit PROVE RoutesTypeOK
  OBVIOUS
<1>1. failure \in [Remote -> FailureType]
  BY DEF RoutesInit, Unknown, FailureType
<1>2. /\ events \in Seq(Event) /\ work \in Seq(Event)
      /\ Len(events) <= MaxEvents /\ Len(work) <= WorkSize
  BY RoutesAssumption DEF RoutesInit
<1>3. /\ link \subseteq Remote /\ recent \subseteq Remote /\ found \subseteq Remote
      /\ lookups \subseteq Lookup /\ dials \subseteq Remote /\ running = "new"
  BY DEF RoutesInit, Lookup
<1> QED
  BY <1>1, <1>2, <1>3 DEF RoutesTypeOK, Event, FailureType, Lookup

LEMMA PublishTypes ==
  ASSUME RoutesTypeOK, Room, NEW e \in Event, Publish(e)
  PROVE  events' \in Seq(Event) /\ Len(events') <= MaxEvents
BY RoutesAssumption DEF RoutesTypeOK, Room, Publish, Event

LEMMA TailTypes ==
  ASSUME NEW q \in Seq(Event), q # <<>>, NEW n \in Nat, Len(q) <= n
  PROVE  Head(q) \in Event /\ Tail(q) \in Seq(Event) /\ Len(Tail(q)) <= n
OBVIOUS

LEMMA TwoFieldsChange ==
  ASSUME NEW B, NEW N, NEW r \in [known : B, count : N, black : B], NEW c \in N, NEW b \in B
  PROVE  [[r EXCEPT !.count = c] EXCEPT !.black = b] \in [known : B, count : N, black : B]
OBVIOUS

LEMMA FailedTypes ==
  ASSUME RoutesTypeOK, NEW p \in Remote
  PROVE  Failed(p) \in [Remote -> FailureType] /\ Succeeded(p) \in [Remote -> FailureType]
<1>1. failure[p] \in FailureType
  BY DEF RoutesTypeOK, FailureType
<1>2. [known |-> TRUE, count |-> IF failure[p].count < 2 THEN failure[p].count + 1 ELSE 2,
       black |-> failure[p].black] \in FailureType
  BY <1>1 DEF FailureType
<1>3. [[failure[p] EXCEPT !.count = 0] EXCEPT !.black = FALSE] \in FailureType
  <2>1. 0 \in 0..2 /\ FALSE \in BOOLEAN
    OBVIOUS
  <2> QED
    BY <1>1, <2>1, TwoFieldsChange, Zenon DEF FailureType
<1>4. failure \in [Remote -> FailureType]
  BY DEF RoutesTypeOK, FailureType
<1>5. Failed(p) = [failure EXCEPT ![p] =
        [known |-> TRUE, count |-> IF failure[p].count < 2 THEN failure[p].count + 1 ELSE 2,
         black |-> failure[p].black]]
  BY DEF Failed
<1>6. Succeeded(p) = [failure EXCEPT ![p] = [[failure[p] EXCEPT !.count = 0] EXCEPT !.black = FALSE]]
  BY <1>4 DEF Succeeded
<1> QED
  BY <1>2, <1>3, <1>4, <1>5, <1>6

LEMMA ActiveDiscoveryTypes ==
  ASSUME NEW count PROVE ActiveDiscovery(count) \subseteq Lookup
BY DEF ActiveDiscovery, DiscoverMoreRoutes, Lookup

LEMMA TriggerTypes ==
  ASSUME RoutesTypeOK, NEW ps \in SUBSET Remote, NEW count, TriggerRouteDiscovery(ps, count)
  PROVE  lookups' \subseteq Lookup /\ found' \subseteq Remote
BY ActiveDiscoveryTypes DEF TriggerRouteDiscovery, RoutesTypeOK, Lookup

LEMMA SuppressionTypes ==
  ASSUME RoutesTypeOK, NEW ps \in SUBSET Remote, ConnectWithSuppression(ps)
  PROVE  failure' \in [Remote -> FailureType] /\ recent' \subseteq Remote /\ dials' \subseteq Remote
<1>1. failure \in [Remote -> FailureType]
  BY DEF RoutesTypeOK, FailureType
<1>2. \A p \in Remote : [failure[p] EXCEPT !.known = TRUE] \in FailureType
  BY <1>1 DEF FailureType
<1>3. failure' \in [Remote -> FailureType]
  BY <1>1, <1>2 DEF ConnectWithSuppression
<1>4. recent' \subseteq Remote /\ dials' \subseteq Remote
  BY DEF ConnectWithSuppression, RoutesTypeOK
<1> QED
  BY <1>3, <1>4

LEMMA EventTypes ==
  ASSUME RoutesTypeOK, HandleRouterEvent PROVE RoutesTypeOK'
<1> USE RoutesAssumption
<1>1. /\ events # <<>> /\ events \in Seq(Event) /\ work \in Seq(Event)
      /\ events' = Tail(events) /\ UNCHANGED <<link, recent, dials, running>>
  BY DEF HandleRouterEvent, RoutesTypeOK, Event
<1> DEFINE e == Head(events)
<1>2. e \in Event /\ events' \in Seq(Event) /\ Len(events') <= MaxEvents
  BY <1>1, TailTypes DEF RoutesTypeOK
<1>3. e[1] \in {"removed", "added"} => e[2] \in Remote
  BY <1>2 DEF Event
<1>4. PICK online \in SeenPeers :
        CASE e[1] = "removed" -> HandleRemoved(e[2], Cardinality(online))
          [] e[1] = "added"   -> HandleAdded(e[2])
          [] OTHER            -> HandleUpdate(e[1], Cardinality(online))
  BY DEF HandleRouterEvent
<1>5. e[1] \in {"removed", "added"} => e = <<e[1], e[2]>>
  BY <1>2 DEF Event
<1> DEFINE Rest == /\ failure' \in [Remote -> FailureType]
                   /\ found' \subseteq Remote
                   /\ lookups' \subseteq Lookup
                   /\ work' \in Seq(Event) /\ Len(work') <= WorkSize
<1>6. /\ failure \in [Remote -> FailureType] /\ found \subseteq Remote
      /\ lookups \subseteq Lookup
      /\ work \in Seq(Event) /\ Len(work) <= WorkSize
  BY DEF RoutesTypeOK, FailureType, Lookup, Event
<1> HIDE DEF e
<1>7. ASSUME e[1] = "removed" PROVE Rest
  <2>1. HandleRemoved(e[2], Cardinality(online)) /\ e[2] \in Remote
    BY <1>3, <1>4, <1>7
  <2>2. failure' \in [Remote -> FailureType]
    BY <2>1, FailedTypes DEF HandleRemoved
  <2>3. CASE Len(work) < WorkSize
    <3>1. <<"removed", e[2]>> \in Event
      BY <2>1 DEF Event
    <3>2. /\ work' = Append(work, <<"removed", e[2]>>) /\ found' = found \ {e[2]}
          /\ UNCHANGED lookups
      BY <2>1, <2>3 DEF HandleRemoved
    <3>3. work' \in Seq(Event) /\ Len(work') <= WorkSize
      BY <1>6, <2>3, <3>1, <3>2
    <3> QED
      BY <1>6, <2>2, <3>2, <3>3
  <2>4. CASE ~(Len(work) < WorkSize)
    <3>1. TriggerRouteDiscovery({e[2]}, Cardinality(online)) /\ UNCHANGED work
      BY <2>1, <2>4 DEF HandleRemoved
    <3>2. {e[2]} \in SUBSET Remote
      BY <2>1
    <3> QED
      BY <1>6, <2>2, <3>1, <3>2, TriggerTypes
  <2> QED
    BY <2>3, <2>4
<1>8. ASSUME e[1] = "added" PROVE Rest
  <2>1. HandleAdded(e[2]) /\ e[2] \in Remote
    BY <1>3, <1>4, <1>8
  <2>2. [known |-> TRUE, count |-> 1, black |-> FALSE] \in FailureType
    BY DEF FailureType
  <2>3. failure' \in {Succeeded(e[2]),
                     [failure EXCEPT ![e[2]] = [known |-> TRUE, count |-> 1, black |-> FALSE]]}
    BY <2>1 DEF HandleAdded
  <2>4. failure' \in [Remote -> FailureType]
    BY <1>6, <2>1, <2>2, <2>3, FailedTypes
  <2>5. UNCHANGED <<found, lookups>>
    BY <2>1 DEF HandleAdded
  <2>6. <<"added", e[2]>> \in Event
    BY <2>1 DEF Event
  <2>7. work' \in Seq(Event) /\ Len(work') <= WorkSize
    <3>1. \/ Len(work) < WorkSize /\ work' = Append(work, <<"added", e[2]>>)
          \/ UNCHANGED work
      <4>1. CASE Len(work) < WorkSize
        BY <2>1, <4>1 DEF HandleAdded
      <4>2. CASE ~(Len(work) < WorkSize)
        BY <2>1, <4>2, Zenon DEF HandleAdded
      <4> QED
        BY <4>1, <4>2
    <3>2. CASE Len(work) < WorkSize /\ work' = Append(work, <<"added", e[2]>>)
      BY <1>6, <2>6, <3>2
    <3>3. CASE UNCHANGED work
      BY <1>6, <3>3
    <3> QED
      BY <3>1, <3>2, <3>3
  <2> QED
    BY <1>6, <2>4, <2>5, <2>7
<1>9. ASSUME e[1] \notin {"removed", "added"} PROVE Rest
  <2>1. HandleUpdate(e[1], Cardinality(online))
    BY <1>4, <1>9
  <2>2. UNCHANGED <<failure, found>>
    BY <2>1 DEF HandleUpdate
  <2>3. lookups' \subseteq Lookup
    BY <1>6, <2>1, ActiveDiscoveryTypes DEF HandleUpdate
  <2>4. e[1] = "tree" => <<e[1]>> \in Event
    BY DEF Event
  <2>5. work' \in Seq(Event) /\ Len(work') <= WorkSize
    BY <1>6, <2>1, <2>4 DEF HandleUpdate
  <2> QED
    BY <1>6, <2>2, <2>3, <2>5
<1>10. Rest
  BY <1>7, <1>8, <1>9
<1> QED
  BY <1>1, <1>2, <1>10 DEF RoutesTypeOK, FailureType, Lookup, Event

LEMMA HealthTypes ==
  ASSUME RoutesTypeOK, MonitorRouteHealth PROVE RoutesTypeOK'
<1>1. UNCHANGED <<link, recent, events, work, dials, running>>
  BY DEF MonitorRouteHealth
<1>2. PICK online \in SeenPeers :
        LET missed == {p \in Remote \ online : failure[p].known /\ ~failure[p].black}
            lost == {p \in missed : failure[p].count >= 1}
        IN /\ \E ten \in SUBSET {p \in Remote \ online : failure[p].count = 2} :
                failure' = [p \in Remote |->
                  IF p \in online THEN Succeeded(p)[p]
                  ELSE IF p \in ten THEN Unknown
                  ELSE IF p \in missed THEN [Failed(p)[p] EXCEPT !.black = p \in lost]
                  ELSE failure[p]]
           /\ lookups' = lookups \cup lost \cup (IF lost = {} THEN {} ELSE DiscoverMoreRoutes)
           /\ found' = found \ lost
  BY DEF MonitorRouteHealth
<1> DEFINE missed == {p \in Remote \ online : failure[p].known /\ ~failure[p].black}
           lost == {p \in missed : failure[p].count >= 1}
<1>3. lost \subseteq Remote
  OBVIOUS
<1>4. \A p \in Remote : [Failed(p)[p] EXCEPT !.black = p \in lost] \in FailureType
  <2> SUFFICES ASSUME NEW p \in Remote
               PROVE  [Failed(p)[p] EXCEPT !.black = p \in lost] \in FailureType
    OBVIOUS
  <2>1. Failed(p)[p] \in FailureType
    BY FailedTypes
  <2>2. (p \in lost) \in BOOLEAN
    OBVIOUS
  <2> QED
    BY <2>1, <2>2 DEF FailureType
<1>5. /\ \A p \in Remote : Succeeded(p)[p] \in FailureType /\ failure[p] \in FailureType
      /\ Unknown \in FailureType
  BY FailedTypes DEF RoutesTypeOK, FailureType, Unknown
<1>6. failure' \in [Remote -> FailureType]
  <2> HIDE DEF missed, lost
  <2>1. PICK ten : failure' = [p \in Remote |->
                IF p \in online THEN Succeeded(p)[p]
                ELSE IF p \in ten THEN Unknown
                ELSE IF p \in missed THEN [Failed(p)[p] EXCEPT !.black = p \in lost]
                ELSE failure[p]]
    BY <1>2 DEF missed, lost
  <2> QED
    BY <1>4, <1>5, <2>1
<1>7. lookups' \subseteq Lookup /\ found' \subseteq Remote
  BY <1>2, <1>3 DEF DiscoverMoreRoutes, RoutesTypeOK, Lookup
<1> QED
  BY <1>1, <1>6, <1>7 DEF RoutesTypeOK, FailureType, Lookup

LEMMA SelectionTypes ==
  ASSUME RoutesTypeOK, NEW online, NEW best \in Selections(online) PROVE best \in SUBSET Remote
<1>1. Selections(online) \subseteq {{}} \cup SUBSET found
  BY DEF Selections
<1> QED
  BY <1>1 DEF RoutesTypeOK

LEMMA EndDiscoverMoreTypes ==
  ASSUME RoutesTypeOK, NEW online, EndDiscoverMore(online) PROVE RoutesTypeOK'
<1>1. lookups' = lookups \ {"more"} /\ UNCHANGED <<link, found, events, work, running>>
  BY DEF EndDiscoverMore
<1>2. PICK best \in Selections(online) : ConnectWithSuppression(best)
  BY DEF EndDiscoverMore
<1>3. failure' \in [Remote -> FailureType] /\ recent' \subseteq Remote /\ dials' \subseteq Remote
  BY <1>2, SelectionTypes, SuppressionTypes
<1> QED
  BY <1>1, <1>3 DEF RoutesTypeOK, FailureType

LEMMA DialEndsTypes ==
  ASSUME RoutesTypeOK, NEW p, NEW success, DialEnds(p, success) PROVE RoutesTypeOK'
<1>1. p \in Remote /\ Room
  BY DEF DialEnds, RoutesTypeOK
<1>2. dials' \subseteq dials /\ UNCHANGED <<found, recent, work, lookups, running>>
  BY DEF DialEnds
<1>3. failure' \in {failure, Succeeded(p)}
  BY DEF DialEnds
<1>4. failure' \in [Remote -> FailureType]
  BY <1>1, <1>3, FailedTypes DEF RoutesTypeOK, FailureType
<1>5. \/ link' = link \cup {p} /\ Publish(<<"added", p>>)
      \/ UNCHANGED <<link, events>>
  BY DEF DialEnds
<1>6. <<"added", p>> \in Event
  BY <1>1 DEF Event
<1>7. link' \subseteq Remote /\ events' \in Seq(Event) /\ Len(events') <= MaxEvents
  BY <1>1, <1>5, <1>6, PublishTypes DEF RoutesTypeOK, Event
<1> QED
  BY <1>2, <1>4, <1>7 DEF RoutesTypeOK, FailureType, Event

LEMMA NextRoutes == RoutesTypeOK /\ [RoutesNext]_routesVars => RoutesTypeOK'
<1> SUFFICES ASSUME RoutesTypeOK, [RoutesNext]_routesVars PROVE RoutesTypeOK'
  OBVIOUS
<1>1. ASSUME NEW p \in Remote, LinkFails(p) PROVE RoutesTypeOK'
  <2>1. link' \subseteq Remote /\ Room /\ Publish(<<"removed", p>>)
        /\ UNCHANGED <<found, failure, recent, work, lookups, dials, running>>
    BY <1>1 DEF LinkFails, RoutesTypeOK
  <2>2. <<"removed", p>> \in Event
    BY DEF Event
  <2>3. events' \in Seq(Event) /\ Len(events') <= MaxEvents
    BY <2>1, <2>2, PublishTypes
  <2> QED
    BY <2>1, <2>3 DEF RoutesTypeOK, Event
<1>2. ASSUME NEW type \in {"tree", "snake"}, RouterUpdates(type) PROVE RoutesTypeOK'
  <2>1. Room /\ Publish(<<type>>)
        /\ UNCHANGED <<link, found, failure, recent, work, lookups, dials, running>>
    BY <1>2 DEF RouterUpdates
  <2>2. <<type>> \in Event
    BY DEF Event
  <2>3. events' \in Seq(Event) /\ Len(events') <= MaxEvents
    BY <2>1, <2>2, PublishTypes
  <2> QED
    BY <2>1, <2>3 DEF RoutesTypeOK, Event
<1>3. ASSUME NEW p \in Remote, Announced(p) \/ Age(p) \/ AttemptAges(p) PROVE RoutesTypeOK'
  <2>1. found' \subseteq Remote /\ recent' \subseteq Remote
    BY <1>3 DEF Announced, Age, AttemptAges, RoutesTypeOK
  <2>2. UNCHANGED <<link, failure, events, work, lookups, dials, running>>
    BY <1>3 DEF Announced, Age, AttemptAges
  <2> QED
    BY <2>1, <2>2 DEF RoutesTypeOK
<1>4. CASE HandleRouterEvent
  BY <1>4, EventTypes
<1>5. CASE ProcessEventWork
  <2>1. /\ work # <<>> /\ work \in Seq(Event) /\ work' = Tail(work)
        /\ UNCHANGED <<link, failure, recent, events, dials, running>>
    BY <1>5 DEF ProcessEventWork, RoutesTypeOK, Event
  <2>2. Head(work) \in Event /\ work' \in Seq(Event) /\ Len(work') <= WorkSize
    BY <2>1, TailTypes, RoutesAssumption DEF RoutesTypeOK
  <2>3. lookups' \subseteq Lookup /\ found' \subseteq Remote
    <3>1. CASE Head(work)[1] = "removed"
      <4>1. PICK online \in SeenPeers : TriggerRouteDiscovery({Head(work)[2]}, Cardinality(online))
        BY <1>5, <3>1 DEF ProcessEventWork
      <4>2. {Head(work)[2]} \in SUBSET Remote
        BY <2>2, <3>1 DEF Event
      <4> QED
        BY <4>1, <4>2, TriggerTypes
    <3>2. CASE Head(work)[1] # "removed"
      <4>1. UNCHANGED <<lookups, found>>
        BY <1>5, <3>2 DEF ProcessEventWork
      <4> QED
        BY <4>1 DEF RoutesTypeOK, Lookup
    <3> QED
      BY <3>1, <3>2
  <2> QED
    BY <2>1, <2>2, <2>3 DEF RoutesTypeOK, Event, Lookup
<1>6. CASE MonitorRouteHealth
  BY <1>6, HealthTypes
<1>7. CASE PerformActiveDiscovery \/ OptimizeRouteSelection
  <2>1. UNCHANGED <<link, found, failure, recent, events, work, dials, running>>
    BY <1>7 DEF PerformActiveDiscovery, OptimizeRouteSelection
  <2>2. lookups' \subseteq Lookup
    BY <1>7, ActiveDiscoveryTypes
    DEF PerformActiveDiscovery, OptimizeRouteSelection, DiscoverMoreRoutes, RoutesTypeOK, Lookup
  <2> QED
    BY <2>1, <2>2 DEF RoutesTypeOK, Lookup
<1>8. ASSUME NEW online, EndDiscoverMore(online) PROVE RoutesTypeOK'
  BY <1>8, EndDiscoverMoreTypes
<1>9. ASSUME NEW p \in Remote, EndForceReconnect(p) PROVE RoutesTypeOK'
  BY <1>9 DEF EndForceReconnect, RoutesTypeOK
<1>10. ASSUME NEW p \in Remote, NEW success, DialEnds(p, success) PROVE RoutesTypeOK'
  BY <1>10, DialEndsTypes
<1>11. ASSUME NEW p \in Remote, NEW fails \in BOOLEAN, DiscoverRoute(p, fails) PROVE RoutesTypeOK'
  <2>1. UNCHANGED <<link, found, recent, events, work, dials, running>>
    BY <1>11 DEF DiscoverRoute
  <2>2. lookups' \subseteq Lookup
    BY <1>11, ActiveDiscoveryTypes DEF DiscoverRoute, RoutesTypeOK, Lookup
  <2>3. failure' \in [Remote -> FailureType]
    BY <1>11, FailedTypes DEF DiscoverRoute, Pinged
  <2> QED
    BY <2>1, <2>2, <2>3 DEF RoutesTypeOK, Lookup, FailureType
<1>12. CASE StartRoutes \/ Stop
  <2>1. running' \in {"running", "stopped"}
        /\ UNCHANGED <<link, found, failure, recent, events, work, lookups, dials>>
    BY <1>12 DEF StartRoutes, Stop
  <2> QED
    BY <2>1 DEF RoutesTypeOK
<1>13. CASE UNCHANGED routesVars
  BY <1>13 DEF routesVars, RoutesTypeOK
<1> QED
  BY <1>1, <1>2, <1>3, <1>4, <1>5, <1>6, <1>7, <1>8, <1>9, <1>10, <1>11, <1>12, <1>13
  DEF RoutesNext

-----------------------------------------------------------------------------
(* The components side by side *)

(* A step of the whole is a step or a stutter of each component.              *)
LEMMA StepOfEach ==
  ASSUME [PeersNext]_peersVars
  PROVE  /\ turn' = turn
         /\ [WakeupNext]_wakeupVars /\ [SessionsNext]_sessionVars
         /\ [ConnectionsNext]_connectionsVars /\ [RoutesNext]_routesVars
         /\ [DiscoveryNext]_discoveryVars
BY DEF PeersNext, peersVars, Only

PeersIInv ==
  /\ turn \in Components
  /\ WakeupTypeOK /\ SessionsTypes /\ ConnectionsIInv /\ ConnectionsLimits
  /\ RoutesTypeOK /\ DiallingIsContact /\ DiscoveryTypes

(* In every reachable state of the components each is well typed: no queue,   *)
(* table or counter passes its limit, nobody reads from a closed link, and    *)
(* no session's lock is held for writing and for reading at once.             *)
THEOREM PeersTypes == PeersSpec => []PeersTypeOK
<1>1. PeersInit => PeersIInv
  BY InitWakeup, InitSessions, InitConnections, InitLimits, InitRoutes, InitDialling,
     InitDiscoveryTypes, ActiveAssumption
  DEF PeersInit, PeersIInv
<1>2. PeersIInv /\ [PeersNext]_peersVars => PeersIInv'
  <2> SUFFICES ASSUME PeersIInv, [PeersNext]_peersVars PROVE PeersIInv'
    OBVIOUS
  <2>1. [DiscoveryNext \/ EndSearch]_discoveryVars
    BY StepOfEach
  <2> QED
    BY <2>1, StepOfEach, NextWakeup, NextSessions, NextConnections, NextLimits, NextRoutes,
       NextDialling, NextDiscoveryTypes
    DEF PeersIInv
<1>3. PeersIInv => PeersTypeOK
  BY TypesAndLimits DEF PeersIInv, PeersTypeOK, SessionsTypes, DiscoveryTypes
<1> QED
  BY <1>1, <1>2, <1>3, PTL DEF PeersSpec

(* When a broadcast that found every filter open has spent itself, every node *)
(* has it, in any settled network of at most Horizon nodes (the code's        *)
(* NetworkHorizonDistance is 5) and whatever the order the copies come in:    *)
(* each node passes on only the first of them, with what is left of its hop   *)
(* limit, and all but the first two hops follow the tree.                     *)
THEOREM BroadcastsReach ==
  ASSUME Cardinality(Router) <= Horizon
  PROVE  PeersSpec => []BroadcastReaches
<1> DEFINE Inv == WakeupTypeOK /\ FloodsSpread
<1>1. PeersInit => Inv
  BY InitWakeup, InitFloods DEF PeersInit
<1>2. Inv /\ [PeersNext]_peersVars => Inv'
  BY StepOfEach, NextWakeup, NextFloods
<1>3. Inv => BroadcastReaches
  BY SpentFloodsReach DEF WakeupTypeOK
<1> QED
  BY <1>1, <1>2, <1>3, PTL DEF PeersSpec
=============================================================================
