------------------------------- MODULE Discovery -------------------------------
(***************************************************************************)
(* How a node finds others on its network: the start of the program        *)
(* (main.go), which starts the services through the service manager        *)
(* (service.go) and only later connects mDNS (mdns_service.go) to the       *)
(* Pinecone service; the caches of mDNS and of its local fallback           *)
(* (local_discovery.go); the callback for a new node; and the contacts      *)
(* that the Pinecone service keeps of the nodes it dialled.                *)
(*                                                                         *)
(* Left out: DNS and JSON encoding, this node's own announcements, and     *)
(* functions nothing calls (StopMDNS, Configure, GetDiscoveredPeers).      *)
(***************************************************************************)
EXTENDS Naturals, FiniteSets

CONSTANTS Neighbour, \* the other nodes
          MaxReports \* bound: reports of one node not yet handled

ASSUME DiscoveryAssumption == IsFiniteSet(Neighbour) /\ MaxReports \in Nat \ {0}

VARIABLES boot,       \* the main goroutine: starting, started, configured, wired, stopped
          starting,   \* the goroutine that calls mDNS's Start: ready or ended
          service,       \* running, conn, announcing, the number of announce loops,
                      \* fallback (local discovery runs), and late (a message that
                      \* the receive loop read before the service was stopped)
          lock,       \* who holds ms.mu across calls: nobody, or StartDiscovery
          callback,   \* discoveryCallback is set
          cache,      \* discoveredPeers: per peer none, fresh or old (over 15 s)
          local,      \* the peers that local discovery has found
          reporting,    \* callbacks under way, per peer
          contact,    \* ps.peers: per peer none, fresh or old (over ten minutes)
          dialling,   \* dials that reports started, per peer
          linked        \* the connected peers

discoveryVars == <<boot, starting, service, lock, callback, cache, local, reporting, contact,
                   dialling, linked>>

NotStarted == [running |-> FALSE, conn |-> FALSE, announcing |-> FALSE, loops |-> 0,
               fallback |-> FALSE, late |-> FALSE]

DiscoveryInit ==
  /\ boot = "starting" /\ starting = "ready"
  /\ service = NotStarted
  /\ lock = "nobody" /\ callback = FALSE
  /\ cache = [p \in Neighbour |-> "none"] /\ local = {}
  /\ reporting = [p \in Neighbour |-> 0] /\ contact = [p \in Neighbour |-> "none"]
  /\ dialling = [p \in Neighbour |-> 0] /\ linked = {}

LockIsFree == lock = "nobody"

-----------------------------------------------------------------------------
(* The start and the end of the program *)

(* local discovery starts after mDNS's own socket, when its port can be had *)
FallbackStarts(socket, port) == socket /\ port

(* mDNS's Start: without a socket it fails, but counts as running; without a
   port only local discovery does not run *)
StartService(socket, port) ==
  /\ starting = "ready" /\ LockIsFree
  /\ starting' = "ended"
  /\ service' = [service EXCEPT !.running = TRUE, !.conn = socket, !.fallback = FallbackStarts(socket, port),
                          !.loops = IF socket THEN @ + 1 ELSE @]
  /\ UNCHANGED <<boot, lock, callback, cache, local, reporting, contact, dialling, linked>>

(* initializeNetworkServices: main starts the service manager, calls StartMDNS
   with the account and the port, and hands mDNS to the Pinecone service *)
MainGoesOn(from, to) == boot = from /\ boot' = to

(* ServiceManager.Start goes on without a service that is slow to start *)
ManagerGoesOn ==
  /\ MainGoesOn("starting", "started")
  /\ UNCHANGED <<starting, service, lock, callback, cache, local, reporting, contact, dialling, linked>>

(* announceLoop sets isAnnouncing itself, after it has started *)
LoopBegins ==
  /\ service.loops > 0 /\ ~service.announcing /\ LockIsFree
  /\ service' = [service EXCEPT !.announcing = TRUE]
  /\ UNCHANGED <<boot, starting, lock, callback, cache, local, reporting, contact, dialling, linked>>

(* startMDNSConnection: a connection, and the loops that use it *)
WithConnection(socket) ==
  [service EXCEPT !.conn = socket, !.loops = IF socket THEN @ + 1 ELSE @]

(* main calls StartMDNS: a connection of its own if there is none, and loops
   that do not seem to run are started *)
StartMDNS(socket) ==
  /\ MainGoesOn("started", "configured") /\ LockIsFree
  /\ service' = IF service.conn
               THEN [service EXCEPT !.loops = IF service.announcing THEN @ ELSE @ + 1]
               ELSE WithConnection(socket)
  /\ UNCHANGED <<starting, lock, callback, cache, local, reporting, contact, dialling, linked>>

(* main calls SetMDNSService *)
SetMDNSService ==
  /\ MainGoesOn("configured", "wired") /\ LockIsFree
  /\ callback' = TRUE
  /\ UNCHANGED <<starting, service, lock, cache, local, reporting, contact, dialling, linked>>

(* cleanup: ServiceManager.Stop stops mDNS if it is running.  A goroutine that
   is late with Start finds the service stopped, and starts it. *)
StopService ==
  /\ boot = "wired" /\ LockIsFree
  /\ boot' = "stopped"
  /\ IF service.running
       THEN /\ service' = [NotStarted EXCEPT !.late = service.conn]
            /\ cache' = [p \in Neighbour |-> "none"]
       ELSE UNCHANGED <<service, cache>>
  /\ UNCHANGED <<starting, lock, callback, local, reporting, contact, dialling, linked>>

-----------------------------------------------------------------------------
(* Answers and announcements *)

(* What an answer may be: one of another node, one whose records name no user
   (its sender has not called StartMDNS yet), or one with this node's own key *)
Answer == {"named", "nameless", "own"}
Parsed(answer) == answer # "nameless"
Foreign(answer) == answer # "own"

(* a report for a node that is not in the cache *)
AddDiscoveredPeer(p) ==
  /\ cache' = [cache EXCEPT ![p] = "fresh"]
  /\ reporting' = IF cache[p] = "none" /\ callback
                  THEN [reporting EXCEPT ![p] = @ + 1] ELSE reporting

(* receiveLoop, handleMessage: the loop may have read the message before the
   service was stopped *)
HandleMessage(p, answer) ==
  /\ LockIsFree /\ (service.conn \/ service.late)
  /\ reporting[p] < MaxReports
  /\ service' = [service EXCEPT !.late = FALSE]
  /\ IF Parsed(answer) /\ Foreign(answer)
       THEN AddDiscoveredPeer(p)
       ELSE UNCHANGED <<cache, reporting>>
  /\ UNCHANGED <<boot, starting, lock, callback, local, contact, dialling, linked>>

(* handleAnnounce of local discovery: mDNS's Start gave it the callback of that
   moment, and there was none yet *)
HandleAnnounce(p) ==
  /\ service.fallback
  /\ local' = local \cup {p}
  /\ UNCHANGED <<boot, starting, service, lock, callback, cache, reporting, contact, dialling, linked>>

(* CleanupExpiredPeers *)
CleanupExpired ==
  /\ LockIsFree
  /\ cache' = [p \in Neighbour |-> IF cache[p] = "old" THEN "none" ELSE cache[p]]
  /\ UNCHANGED <<boot, starting, service, lock, callback, local, reporting, contact, dialling, linked>>

ForceCleanupPeer(p) ==
  /\ LockIsFree /\ cache[p] # "none"
  /\ cache' = [cache EXCEPT ![p] = "none"]
  /\ UNCHANGED <<boot, starting, service, lock, callback, local, reporting, contact, dialling, linked>>

(* StartDiscovery holds the lock that Query waits for *)
BeginDiscovery ==
  /\ boot = "wired" /\ LockIsFree /\ lock' = "StartDiscovery"
  /\ UNCHANGED <<boot, starting, service, callback, cache, local, reporting, contact, dialling, linked>>

(* Query takes and releases the lock, and nothing of it remains *)
Query == LockIsFree

EndSearch ==
  /\ lock = "StartDiscovery" /\ Query /\ lock' = "nobody"
  /\ UNCHANGED <<boot, starting, service, callback, cache, local, reporting, contact, dialling, linked>>

-----------------------------------------------------------------------------
(* The Pinecone service *)

(* Mutant: the contact is not stored before the dial *)
HandleReportStoresLater(p) ==
  /\ reporting[p] > 0 /\ reporting' = [reporting EXCEPT ![p] = @ - 1]
  /\ dialling' = IF contact[p] = "none" THEN [dialling EXCEPT ![p] = @ + 1] ELSE dialling
  /\ UNCHANGED <<boot, starting, service, lock, callback, cache, local, contact, linked>>

(* handleMDNSDiscoveredPeer: a contact is not dialled again *)
HandleReport(p) ==
  /\ reporting[p] > 0 /\ reporting' = [reporting EXCEPT ![p] = @ - 1]
  /\ contact' = [contact EXCEPT ![p] = "fresh"]
  /\ dialling' = IF contact[p] = "none" THEN [dialling EXCEPT ![p] = @ + 1] ELSE dialling
  /\ UNCHANGED <<boot, starting, service, lock, callback, cache, local, linked>>

(* connectToPeer, which does nothing for a connected address *)
DialReturns(p, success) ==
  /\ dialling[p] > 0 /\ dialling' = [dialling EXCEPT ![p] = @ - 1]
  /\ linked' = IF success THEN linked \cup {p} ELSE linked
  /\ UNCHANGED <<boot, starting, service, lock, callback, cache, local, reporting, contact>>

LinkIsLost(p) ==
  /\ p \in linked /\ linked' = linked \ {p}
  /\ UNCHANGED <<boot, starting, service, lock, callback, cache, local, reporting, contact, dialling>>

(* cleanupExpiredPeers: an old contact that is not connected *)
CleanupContacts ==
  /\ boot # "stopped"
  /\ contact' = [p \in Neighbour |-> IF contact[p] = "old" /\ p \notin linked THEN "none" ELSE contact[p]]
  /\ UNCHANGED <<boot, starting, service, lock, callback, cache, local, reporting, dialling, linked>>

(* Time passes; no dial lasts ten minutes *)
CacheAges(p) ==
  /\ cache[p] = "fresh" /\ cache' = [cache EXCEPT ![p] = "old"]
  /\ UNCHANGED <<boot, starting, service, lock, callback, local, reporting, contact, dialling, linked>>

ContactAges(p) ==
  /\ contact[p] = "fresh" /\ dialling[p] = 0 /\ contact' = [contact EXCEPT ![p] = "old"]
  /\ UNCHANGED <<boot, starting, service, lock, callback, cache, local, reporting, dialling, linked>>

DiscoveryNext ==
  \/ \E socket, port \in BOOLEAN : StartService(socket, port)
  \/ \E socket \in BOOLEAN : StartMDNS(socket)
  \/ ManagerGoesOn \/ LoopBegins \/ SetMDNSService \/ StopService
  \/ \E p \in Neighbour : \/ \E answer \in Answer : HandleMessage(p, answer)
                     \/ HandleAnnounce(p) \/ ForceCleanupPeer(p) \/ HandleReport(p)
                     \/ LinkIsLost(p) \/ CacheAges(p) \/ ContactAges(p)
  \/ CleanupExpired \/ CleanupContacts \/ BeginDiscovery
  \/ \E p \in Neighbour, success \in BOOLEAN : DialReturns(p, success)

(* EndSearch is no disjunct of its own: it can never be taken *)
FairDiscovery ==
  /\ DiscoveryInit /\ [][DiscoveryNext \/ EndSearch]_discoveryVars
  /\ WF_discoveryVars(EndSearch)

-----------------------------------------------------------------------------
DiscoveryTypeOK ==
  /\ boot \in {"starting", "started", "configured", "wired", "stopped"}
  /\ starting \in {"ready", "ended"}
  /\ service \in [running : BOOLEAN, conn : BOOLEAN, announcing : BOOLEAN, loops : 0..2,
               fallback : BOOLEAN, late : BOOLEAN]
  /\ lock \in {"nobody", "StartDiscovery"} /\ callback \in BOOLEAN
  /\ cache \in [Neighbour -> {"none", "fresh", "old"}] /\ local \subseteq Neighbour
  /\ reporting \in [Neighbour -> 0..MaxReports]
  /\ contact \in [Neighbour -> {"none", "fresh", "old"}]
  /\ dialling \in [Neighbour -> Nat] /\ linked \subseteq Neighbour

(* However often a node leaves the mDNS cache and is found again, and however
   the goroutines of its reports interleave, it is never dialled twice at once. *)
DialledOnce == \A p \in Neighbour : dialling[p] <= 1

(* "Set the MDNS discovery callback, so that a connection to a new node is
   tried automatically".  A node that answered before, or that only local
   discovery found, is not reported. *)
NewIsReported ==
  [][\A p \in Neighbour :
       (cache[p] = "none" /\ cache'[p] # "none") \/ (p \notin local /\ p \in local')
         => reporting'[p] > reporting[p] \/ contact[p] # "none"]_discoveryVars

(* "Rediscover the nodes with mDNS": StartDiscovery returns.  It does not: it
   holds the lock that its own query waits for. *)
RediscoveryReturns == [](lock = "StartDiscovery" => <>(lock = "nobody"))
=============================================================================
