---------------------------- MODULE Connections ----------------------------
(***************************************************************************)
(* The connection manager of connection_manager.go: two tables under one   *)
(* lock, one monitor per connection, a bounded queue of clean-up tasks     *)
(* that name a table entry by its key, and wrappers whose Close waits for  *)
(* the Read or Accept that holds their read lock.                          *)
(*                                                                         *)
(* A link is a wrapped connection (key: the peer) or a wrapped listener    *)
(* (key: its address).  Left out: the limits on the number and the rate of *)
(* dials, and the retries of one dial, which only add failures.            *)
(***************************************************************************)
EXTENDS Naturals, Sequences

CONSTANTS Peer, Address, \* the keys of the two tables
          MaxLinks,      \* bound: links ever made
          CleanupSize    \* the capacity of cleanupQueue

ASSUME ConnectionsAssumption ==
  /\ Peer \cap Address = {}
  /\ MaxLinks \in Nat /\ CleanupSize \in Nat

Key == Peer \cup Address
Link == 1..MaxLinks
NoLink == 0

VARIABLES table,   \* connections and listeners: the link of each key
          state,   \* of each link: unused, open, dead (its peer is gone) or closed
          reading, \* the links whose read lock a Read or an Accept holds
          watched, \* the connections with a running monitor, each with its peer
          tasks,   \* cleanupQueue
          holder,  \* the call that holds the manager's lock and waits
          ended    \* the context is cancelled

connectionsVars == <<table, state, reading, watched, tasks, holder, ended>>

Free == [op |-> "none"]

ConnectionsInit ==
  /\ table = [k \in Key |-> NoLink]
  /\ state = [c \in Link |-> "unused"]
  /\ reading = {} /\ watched = {}
  /\ tasks = <<>>
  /\ holder = Free /\ ended = FALSE

Listed(k) == table[k] # NoLink
IsClosed(c) == state[c] = "closed"
Usable(k) == Listed(k) /\ IF k \in Peer THEN state[table[k]] = "open"
                                         ELSE ~IsClosed(table[k])
Unlist(k) == table' = [table EXCEPT ![k] = NoLink]

(* CreateConnection and CreateListener: a usable link is returned as it is; a
   closed one is forgotten; a connection that fails its heartbeat is closed *)
Create(k) ==
  /\ holder = Free
  /\ ~Usable(k)
  /\ holder' = [op |-> "dial", key |-> k]
  /\ IF Listed(k) /\ IsClosed(table[k]) THEN Unlist(k) ELSE UNCHANGED table
  /\ UNCHANGED <<state, reading, watched, tasks, ended>>

(* the lock is held while the old connection closes ... *)
CloseUnhealthy ==
  /\ holder.op = "dial" /\ Listed(holder.key)
  /\ table[holder.key] \notin reading
  /\ state' = [state EXCEPT ![table[holder.key]] = "closed"]
  /\ Unlist(holder.key)
  /\ UNCHANGED <<reading, watched, tasks, holder, ended>>

(* ... and for the whole dial, which a cancelled context ends *)
Dialled(c) ==
  /\ holder.op = "dial" /\ ~Listed(holder.key)
  /\ state[c] = "unused" /\ \A d \in Link : state[d] = "unused" => c <= d
  /\ holder.key \in Peer => ~ended
  /\ state' = [state EXCEPT ![c] = "open"]
  /\ table' = [table EXCEPT ![holder.key] = c]
  /\ watched' = IF holder.key \in Peer THEN watched \cup {<<c, holder.key>>} ELSE watched
  /\ holder' = Free
  /\ UNCHANGED <<reading, tasks, ended>>

DialFails ==
  /\ holder.op = "dial" /\ ~Listed(holder.key)
  /\ holder' = Free
  /\ UNCHANGED <<table, state, reading, watched, tasks, ended>>

(* Mutant: the queue is taken to have one place more than it has. *)
GetOneTooMany(k) ==
  /\ holder = Free /\ Listed(k) /\ IsClosed(table[k])
  /\ IF Len(tasks) <= CleanupSize
       THEN tasks' = Append(tasks, k) /\ UNCHANGED table
       ELSE Unlist(k) /\ UNCHANGED tasks
  /\ UNCHANGED <<state, reading, watched, holder, ended>>

(* GetConnection and GetListener: a closed link becomes a task, or is
   forgotten at once when the queue is full *)
Get(k) ==
  /\ holder = Free /\ Listed(k) /\ IsClosed(table[k])
  /\ IF Len(tasks) < CleanupSize
       THEN tasks' = Append(tasks, k) /\ UNCHANGED table
       ELSE Unlist(k) /\ UNCHANGED tasks
  /\ UNCHANGED <<state, reading, watched, holder, ended>>

Clean ==
  /\ holder = Free /\ tasks # <<>> /\ ~ended
  /\ Unlist(Head(tasks)) /\ tasks' = Tail(tasks)
  /\ UNCHANGED <<state, reading, watched, holder, ended>>

(* CloseConnection, CloseListener *)
Close(k) ==
  /\ holder = Free /\ Listed(k)
  /\ holder' = [op |-> "close", key |-> k]
  /\ UNCHANGED <<table, state, reading, watched, tasks, ended>>

EndClose ==
  /\ holder.op \in {"close", "drop"} /\ table[holder.key] \notin reading
  /\ state' = [state EXCEPT ![table[holder.key]] = "closed"]
  /\ Unlist(holder.key)
  /\ holder' = Free
  /\ UNCHANGED <<reading, watched, tasks, ended>>

(* Mutant: whatever connection the peer has is forgotten. *)
MonitorDropsByPeer(c, p) ==
  /\ <<c, p>> \in watched /\ holder = Free /\ ~ended
  /\ state[c] \in {"dead", "closed"}
  /\ holder' = IF Listed(p) THEN [op |-> "drop", key |-> p] ELSE Free
  /\ watched' = watched \ {<<c, p>>}
  /\ UNCHANGED <<table, state, reading, tasks, ended>>

(* monitorConnection: an unhealthy connection is closed and forgotten, if it
   is still the one of its peer *)
Monitor(c, p) ==
  /\ <<c, p>> \in watched /\ holder = Free /\ ~ended
  /\ state[c] \in {"dead", "closed"}
  /\ holder' = IF table[p] = c THEN [op |-> "drop", key |-> p] ELSE Free
  /\ watched' = watched \ {<<c, p>>}
  /\ UNCHANGED <<table, state, reading, tasks, ended>>

MonitorEnds(c, p) ==
  /\ <<c, p>> \in watched /\ ended
  /\ watched' = watched \ {<<c, p>>}
  /\ UNCHANGED <<table, state, reading, tasks, holder, ended>>

(* Cleanup cancels the context and then closes every link under the lock *)
Cleanup ==
  /\ holder = Free
  /\ holder' = [op |-> "cleanup"] /\ ended' = TRUE
  /\ UNCHANGED <<table, state, reading, watched, tasks>>

EndCleanup ==
  /\ holder.op = "cleanup" /\ \A k \in Key : table[k] \notin reading
  /\ state' = [c \in Link |-> IF \E k \in Key : table[k] = c THEN "closed" ELSE state[c]]
  /\ table' = [k \in Key |-> NoLink]
  /\ holder' = Free
  /\ UNCHANGED <<reading, watched, tasks, ended>>

(* What the owner of a link does with it, and what its peer does *)
BeginRead(c) ==
  /\ state[c] \in {"open", "dead"} /\ reading' = reading \cup {c}
  /\ UNCHANGED <<table, state, watched, tasks, holder, ended>>

EndRead(c) ==
  /\ c \in reading /\ reading' = reading \ {c}
  /\ UNCHANGED <<table, state, watched, tasks, holder, ended>>

OwnerCloses(c) ==
  /\ state[c] \in {"open", "dead"} /\ c \notin reading
  /\ state' = [state EXCEPT ![c] = "closed"]
  /\ UNCHANGED <<table, reading, watched, tasks, holder, ended>>

Die(c) ==
  /\ state[c] = "open" /\ state' = [state EXCEPT ![c] = "dead"]
  /\ UNCHANGED <<table, reading, watched, tasks, holder, ended>>

ConnectionsNext ==
  \/ \E k \in Key : Create(k) \/ Get(k) \/ Close(k)
  \/ CloseUnhealthy \/ DialFails \/ Clean \/ EndClose \/ Cleanup \/ EndCleanup
  \/ \E c \in Link : \/ Dialled(c) \/ BeginRead(c) \/ EndRead(c) \/ OwnerCloses(c) \/ Die(c)
                     \/ \E p \in Peer : Monitor(c, p) \/ MonitorEnds(c, p)

ConnectionsSpec == ConnectionsInit /\ [][ConnectionsNext]_connectionsVars

-----------------------------------------------------------------------------
ConnectionsTypeOK ==
  /\ table \in [Key -> Link \cup {NoLink}]
  /\ state \in [Link -> {"unused", "open", "dead", "closed"}]
  /\ reading \subseteq {c \in Link : state[c] \in {"open", "dead"}}
  /\ watched \subseteq Link \X Peer
  /\ tasks \in Seq(Key) /\ Len(tasks) <= CleanupSize
  /\ holder \in {Free, [op |-> "cleanup"]} \cup [op : {"dial", "close", "drop"}, key : Key]
  /\ ended \in BOOLEAN

(* An open, healthy connection leaves the table only when the user closes it,
   the manager is cleaned up, or a queued clean-up of an older connection to
   the same peer comes too late: the monitor of a connection that was replaced
   never removes its successor. *)
HealthyStays ==
  [][\A k \in Key :
       (Listed(k) /\ state[table[k]] = "open" /\ table'[k] # table[k])
         => \/ holder.op \in {"close", "cleanup"}
            \/ tasks # <<>> /\ tasks' = Tail(tasks)]_connectionsVars

(* A queued clean-up "asynchronously cleans the invalid connection": it never
   takes an open one out of the table.  It does, when the peer was dialled
   again between the task and its execution. *)
CleansOnlyInvalid ==
  [][(tasks # <<>> /\ tasks' = Tail(tasks))
       => LET c == table[Head(tasks)] IN c = NoLink \/ state[c] # "open"]_connectionsVars
=============================================================================
