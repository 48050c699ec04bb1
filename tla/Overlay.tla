------------------------------ MODULE Overlay ------------------------------
(***************************************************************************)
(* The overlay network: the routers of TreeNetwork with their virtual      *)
(* snakes (SnakeState) and the traffic they forward                        *)
(* (internal/pinecone/router/state_forward.go, packetconn.go).             *)
(*                                                                         *)
(* Bootstraps share each peer's protocol queue with tree announcements and *)
(* arrive in the order of pushing: each remembers how many announcements   *)
(* it is behind.  One frame of traffic at a time is under way.  A link     *)
(* end's clean-up of tree and snake is one step.                           *)
(***************************************************************************)
EXTENDS TreeNetwork

CONSTANTS
  NoEntry, Local, FullMask, NoFrame,
  MaxClock,     \* bound: the bootstraps a node sends
  MaxMishaps,   \* bound: links that fail and table entries that expire, together
  MaxHops,      \* bound: how often one frame is forwarded
  MaxCached     \* bound: coordinates in all caches at one time

ASSUME OverlayAssumption ==
  /\ FullMask \in Nat /\ \A k \in Node : k < FullMask
  /\ Local \notin Peers
  /\ NoEntry \notin [key : Node, source : Peers, destination : Peers \cup {NoPeer, Local},
                     root : Nat, rseq : Nat, seq : Nat, expired : BOOLEAN]
  /\ NoFrame \notin [at : Node, from : Peers \cup {Local}, dest : Node, coords : Seq(Nat),
                     sender : Node, source : Seq(Nat),
                     mark : [key : Nat, seq : Nat], hops : Nat, calm : BOOLEAN]
  /\ MaxCached \in Nat /\ MaxHops \in Nat /\ Cardinality(Node) <= MaxHops

VARIABLES
  boots,     \* per node and peer, the bootstraps on their way to it
  snake,     \* per node its SnakeState record
  clock,     \* per node the wall clock of its last bootstrap
  expiries,
  frame,     \* the traffic frame under way, or NoFrame
  cache,     \* per node and key, the coordinates learnt of it, or <<>>
  fresh      \* nodes whose bootstrap set out, after those of all nodes above
             \* them, since the tree or a bootstrap out of turn last disturbed them

overlayVars == <<vars, boots, snake, clock, expiries, frame, cache, fresh>>

Snake(n) == INSTANCE SnakeState WITH
  Self <- n, Key <- Node, Peer <- Peers, PeerKey <- NeighbourOf

RootOf(n) == LET a == Tree(n)!RootAnnouncement(state[n]) IN [root |-> a.root, rseq |-> a.seq]

NoCoords == [k \in Node |-> <<>>]

OverlayInit ==
  /\ Init
  /\ boots = [n \in Node |-> None]
  /\ snake = [n \in Node |-> Snake(n)!EmptySnake]
  /\ clock = [n \in Node |-> 0]
  /\ expiries = 0
  /\ frame = NoFrame
  /\ cache = [n \in Node |-> NoCoords]
  /\ fresh = {}

NoBootstraps == \A n \in Node : boots[n] = None

(* The tree is quiet, every bootstrap has arrived, and all nodes that send  *)
(* any have done so in turn.                                                *)
Settled ==
  /\ Quiet /\ NoBootstraps
  /\ \A n \in Node : n \in fresh \/ state[n].parent = NoPeer

(* The next frame from peer p of n is a bootstrap.                          *)
BootstrapIsNext(n, p) == boots[n][p] # <<>> /\ Head(boots[n][p]).behind = 0

(* What is under way is no longer under way in a settled network.           *)
Disturbed == IF frame = NoFrame THEN NoFrame ELSE [frame EXCEPT !.calm = FALSE]

----------------------------------------------------------------------------
(* The tree moves.                                                          *)

(* _setParent changes the root, or _start clears all: the one and only way  *)
(* in which a step forgets coordinates.  An update of the parent that has   *)
(* another root is no such change.                                          *)
RootChanged(n) ==
  LET s == state'[n]
      before == [s EXCEPT !.parent = state[n].parent]
  IN  up'[n] = {} \/ Tree(n)!RootAnnouncement(before).root # Tree(n)!RootAnnouncement(s).root

ForgetOldRoots ==
  cache' = [n \in Node |-> IF RootChanged(n) THEN NoCoords ELSE cache[n]]

TreeStep ==
  /\ \/ /\ \/ \E l \in Links : Connect(l) \/ Break(l)
           \/ \E n \in Node : EndWait(n) \/ MaintainTree(n)
        /\ UNCHANGED boots
     \/ \E n \in Node, p \in Peers :
           /\ ~BootstrapIsNext(n, p)
           /\ Deliver(n, p)
           /\ boots' = [boots EXCEPT ![n][p] =
                         [i \in DOMAIN @ |-> [@[i] EXCEPT !.behind = @ - 1]]]
  /\ failures' + expiries <= MaxMishaps
  /\ fresh' = {}
  /\ frame' = Disturbed
  /\ ForgetOldRoots
  /\ UNCHANGED <<snake, clock, expiries>>

(* A peering ends at n; what was on its way from there is lost.             *)
LosePeer(n, p) ==
  /\ Disconnect(n, p) \/ (~BootstrapIsNext(n, p) /\ Refuse(n, p))
  /\ boots' = [boots EXCEPT ![n][p] = <<>>]
  /\ snake' = [snake EXCEPT ![n] = Snake(n)!SnakePortDisconnected(@, p, up[n] \ {p})]
  /\ fresh' = {}
  /\ frame' = IF frame = NoFrame THEN NoFrame
              ELSE IF frame.at = n /\ frame.from = p THEN NoFrame ELSE Disturbed
  /\ ForgetOldRoots
  /\ UNCHANGED <<clock, expiries>>

----------------------------------------------------------------------------
(* Bootstraps.                                                              *)

(* Bootstrap b is pushed on peer p of node n.                               *)
Push(queues, n, p, b) ==
  IF p \in Peers /\ <<n, p[2]>> \in up[p[1]]
  THEN [queues EXCEPT ![p[1]][<<n, p[2]>>] =
          Append(@, [frame |-> b, behind |-> Len(chan[p[1]][<<n, p[2]>>])])]
  ELSE queues

NextHopsSNEK(n, s, dest, bootstrap, mark) ==
  Snake(n)!NextHopsSNEK(state[n], s, up[n], RootOf(n).root, dest, bootstrap, mark)

(* It is the turn of n: the tree is quiet, no other bootstrap is under way  *)
(* and all nodes above n have sent theirs.  A round begins when the entries *)
(* from before it have expired.                                             *)
InOrderOf(n) ==
  /\ Quiet /\ NoBootstraps
  /\ \A m \in Component(n) : m > n => m \in fresh \/ state[m].parent = NoPeer
  /\ fresh = {} => \A m \in Node : snake[m] = Snake(m)!EmptySnake

(* Maintenance, with or without a bootstrap: only two seconds since the     *)
(* last one, or an earlier call of _bootstrapSoon, make it due.             *)
MaintainSnake(n) ==
  LET s == Snake(n)!MaintainSnake(snake[n], RootOf(n))
      b == Snake(n)!NewBootstrap(RootOf(n), clock[n] + 1)
  IN  /\ snake' = [snake EXCEPT ![n] = s]
      /\ \/ UNCHANGED <<clock, boots, frame, fresh>>
         \/ /\ state[n].parent # NoPeer
            /\ clock[n] < MaxClock
            /\ clock' = [clock EXCEPT ![n] = @ + 1]
            /\ \E h \in NextHopsSNEK(n, s, n, TRUE, b.mark) :
                 boots' = Push(boots, n, h.peer, [b EXCEPT !.mark = h.mark])
            /\ fresh' = IF InOrderOf(n) THEN fresh \cup {n} ELSE {}
            /\ frame' = Disturbed
      /\ UNCHANGED <<vars, expiries, cache>>

(* Whether _forward passes a handled bootstrap from p on to next hop h.     *)
ForwardsBootstrap(n, p, h, b) ==
  /\ h.peer \notin {NoPeer, Local, p}
  /\ ~Snake(n)!WorseThan(h.mark, b.mark)

(* The next hop is chosen before the table changes.                         *)
HandleBootstrap(n, p) ==
  /\ p \in up[n]
  /\ BootstrapIsNext(n, p)
  /\ LET b == Head(boots[n][p]).frame
         rest == [boots EXCEPT ![n][p] = Tail(@)]
     IN  IF Snake(n)!AcceptsBootstrap(snake[n], RootOf(n), b)
         THEN \E h \in NextHopsSNEK(n, snake[n], b.dest, TRUE, b.mark) :
                /\ snake' = [snake EXCEPT ![n] = Snake(n)!HandleBootstrap(@, p, h.peer, b)]
                /\ boots' = IF ForwardsBootstrap(n, p, h, b)
                            THEN Push(rest, n, h.peer, [b EXCEPT !.mark = h.mark]) ELSE rest
         ELSE boots' = rest /\ UNCHANGED snake
  /\ UNCHANGED <<vars, clock, expiries, frame, cache, fresh>>

(* Four seconds pass without a new bootstrap of key k reaching n.           *)
Expire(n, k) ==
  LET old(e) == IF e = NoEntry THEN NoEntry
                ELSE IF e.key = k THEN [e EXCEPT !.expired = TRUE] ELSE e
  IN  /\ failures + expiries < MaxMishaps
      /\ expiries' = expiries + 1
      /\ [table |-> [snake[n].table EXCEPT ![k] = old(@)], descending |-> old(snake[n].descending)]
           # snake[n]
      /\ snake' = [snake EXCEPT ![n].table[k] = old(@), ![n].descending = old(@)]
      /\ fresh' = {}
      /\ frame' = Disturbed
      /\ UNCHANGED <<vars, boots, clock, cache>>

----------------------------------------------------------------------------
(* Traffic.                                                                 *)

(* WriteTo at n, with the coordinates it has cached of d, however old, up   *)
(* to its call of _forward.  Its three visits to the state actor are one    *)
(* step: a step between them can only make the cached ones older.  Traffic  *)
(* to n itself never leaves it.                                             *)
WriteTo(n, d) ==
  /\ frame = NoFrame
  /\ frame' = [at |-> n, from |-> Local, dest |-> d, coords |-> cache[n][d],
               sender |-> n, source |-> Coords(n), mark |-> Snake(n)!FirstWatermark,
               hops |-> 0, calm |-> Settled /\ cache[n][d] \in {<<>>, Coords(d)}]
  /\ UNCHANGED <<vars, boots, snake, clock, expiries, cache, fresh>>

(* Half a minute has passed since n last heard from k.                      *)
ForgetCoords(n, k) ==
  /\ cache[n][k] # <<>>
  /\ cache' = [cache EXCEPT ![n][k] = <<>>]
  /\ UNCHANGED <<vars, boots, snake, clock, expiries, frame, fresh>>

(* The next hops of a frame that is not for n: by its coordinates while     *)
(* the tree leads closer to them, by the snake and without them otherwise.  *)
TrafficHops(n, f) ==
  LET tree == IF f.coords = <<>> THEN {}
              ELSE IF f.coords = Coords(n) THEN {Local}
              ELSE Tree(n)!NextHopsTree(state[n], f.from, f.coords, up[n])
  IN  IF tree # {} THEN { [peer |-> p, mark |-> f.mark, coords |-> f.coords] : p \in tree }
      ELSE { [peer |-> h.peer, mark |-> h.mark, coords |-> <<>>] :
             h \in NextHopsSNEK(n, snake[n], f.dest, FALSE, f.mark) }

(* Whether _forward drops a frame with next hop h.                          *)
DropsFrame(n, f, h) ==
  h.peer \in {NoPeer, f.from} \/ Snake(n)!WorseThan(h.mark, f.mark)

(* The frame f, sent from n over hop h, as its peer unmarshals it: a frame  *)
(* that has coordinates travels without its watermark.                      *)
OnWire(n, f, h) ==
  [at |-> h.peer[1], from |-> <<n, h.peer[2]>>, dest |-> f.dest, coords |-> h.coords,
   sender |-> f.sender, source |-> f.source,
   mark |-> IF h.coords = <<>> THEN h.mark ELSE Snake(n)!FirstWatermark,
   hops |-> f.hops + 1, calm |-> f.calm]

(* The frame has arrived, and the coordinates of its sender are cached.     *)
Learn(n, f) ==
  /\ cache' = IF f.source = <<>> THEN cache ELSE [cache EXCEPT ![n][f.sender] = f.source]
  /\ Cardinality({e \in Node \X Node : cache'[e[1]][e[2]] # <<>>}) <= MaxCached

(* _forward at the node the frame has reached: it is delivered to the local *)
(* peer, here or because the hop is the local peer, or sent on, or dropped. *)
Forward ==
  /\ frame # NoFrame
  /\ LET n == frame.at
         f == frame
     IN  IF f.dest = n THEN frame' = NoFrame /\ Learn(n, f)
         ELSE /\ \E h \in TrafficHops(n, f) :
                   frame' =
                     IF DropsFrame(n, f, h) \/ h.peer = Local \/ f.hops = MaxHops THEN NoFrame
                     ELSE IF <<n, h.peer[2]>> \notin up[h.peer[1]] THEN NoFrame
                     ELSE OnWire(n, f, h)
              /\ UNCHANGED cache
  /\ UNCHANGED <<vars, boots, snake, clock, expiries, fresh>>

OverlayNext ==
  \/ TreeStep
  \/ \E n \in Node, p \in Peers : LosePeer(n, p) \/ HandleBootstrap(n, p)
  \/ \E n \in Node : MaintainSnake(n)
  \/ \E n, k \in Node : Expire(n, k)
  \/ \E n \in Node : \E d \in Node \ {n} : WriteTo(n, d) \/ ForgetCoords(n, d)
  \/ Forward

OverlaySpec == OverlayInit /\ [][OverlayNext]_overlayVars

----------------------------------------------------------------------------
(* Once settled the snake is in order: each node's descending node is the   *)
(* nearest below it, as _maintainSnake's comment has it.                    *)
SnakeIsOrdered ==
  Settled => \A n \in Node :
    LET below == { m \in Component(n) : m < n }
    IN  below # {} => /\ snake[n].descending # NoEntry
                      /\ \A m \in below : m <= snake[n].descending.key

(* A frame sent in a settled network that stays so, without coordinates or  *)
(* with those its addressee has, reaches the node it is for, whichever next *)
(* hop is chosen: the watermarks that stop loops drop nothing that could    *)
(* arrive.  With cached coordinates that the addressee has left it may be   *)
(* dropped, or given to the local peer of another node.                     *)
SettledDelivers ==
  [][ frame # NoFrame =>
        \/ ~frame.calm \/ frame' # NoFrame
        \/ frame.at = frame.dest \/ frame.dest \notin Component(frame.at) ]_overlayVars

(* What does not hold, and is why SettledDelivers needs its condition: in a *)
(* settled network a node may still have coordinates of another that moved  *)
(* below the same root, since only a change of root clears the cache.       *)
CacheIsCurrent ==
  Settled => \A n, k \in Node : cache[n][k] \in {<<>>, Coords(k)}
=============================================================================
