------------------------------ MODULE Sessions ------------------------------
(***************************************************************************)
(* Sessions of one protocol with one remote node                           *)
(* (internal/pinecone/sessions): diallers, the listener that accepts       *)
(* connections, and one goroutine per connection that accepts its streams. *)
(* They share the entry of a sync.Map, whose lookups are one step, and the *)
(* lock of the session found there, which is taken later.                  *)
(*                                                                         *)
(* QUIC is external: a handshake succeeds or fails, a connection may die   *)
(* at any time, and opening a stream fails when it has.                    *)
(***************************************************************************)
EXTENDS Integers, FiniteSets

CONSTANTS
  Dialler,      \* goroutines that dial the node
  MaxSessions,  \* bound: activeSession objects in use at a time
  MaxConnections

ASSUME SessionsAssumption == MaxSessions \in Nat /\ MaxConnections \in Nat

Session == 1..MaxSessions
Connection == 1..MaxConnections
NoSession == 0
NoConnection == 0

VARIABLES
  entry,      \* the session the map holds for the node, or NoSession
  conn,       \* per session its Connection
  writer,     \* sessions whose lock is taken for writing
  readers,    \* per session the diallers that hold its read lock
  opened,     \* how many connections were ever established
  alive,      \* those that still are
  dialler,    \* per dialler where it is, its session and whether it retries
  accepting,  \* the listener: where it is, its connection and session
  loops       \* the goroutines of sessionlistener: the session and the connection
              \* whose context they wait on, NoConnection before they start

sessionVars == <<entry, conn, writer, readers, opened, alive, dialler, accepting, loops>>

NotDialling == [at |-> "idle", session |-> NoSession, retrying |-> FALSE]
NotAccepting == [at |-> "idle", session |-> NoSession, con |-> NoConnection, found |-> FALSE]

SessionsTypeOK ==
  /\ entry \in Session \cup {NoSession}
  /\ conn \in [Session -> Connection \cup {NoConnection}]
  /\ writer \subseteq Session
  /\ readers \in [Session -> SUBSET Dialler]
  /\ alive \subseteq 1..opened
  /\ \A s \in writer : readers[s] = {}

SessionsInit ==
  /\ entry = NoSession
  /\ conn = [s \in Session |-> NoConnection]
  /\ writer = {}
  /\ readers = [s \in Session |-> {}]
  /\ opened = 0 /\ alive = {}
  /\ dialler = [d \in Dialler |-> NotDialling]
  /\ accepting = NotAccepting
  /\ loops = {}

(* Session objects that nobody refers to any more; a new one starts empty.  *)
InUse(s) ==
  \/ s = entry \/ s = accepting.session \/ readers[s] # {}
  \/ \E d \in Dialler : dialler[d].session = s
  \/ \E l \in loops : l.session = s

NewSession == CHOOSE s \in Session : ~InUse(s) /\ \A r \in Session : ~InUse(r) => s <= r

(* getSession returns s, and whether it was there before.                   *)
GetSession(s, found) ==
  /\ found = (entry # NoSession)
  /\ IF found THEN s = entry /\ UNCHANGED <<entry, conn>>
     ELSE /\ \E r \in Session : ~InUse(r)
          /\ s = NewSession
          /\ entry' = s
          /\ conn' = [conn EXCEPT ![s] = NoConnection]

Unlocked(s) == s \notin writer /\ readers[s] = {}

LookUp(d) ==
  /\ \E s \in Session, found \in BOOLEAN :
       /\ GetSession(s, found)
       /\ dialler' = [dialler EXCEPT ![d].at = IF found THEN "rlock" ELSE "lock",
                                     ![d].session = s]
  /\ UNCHANGED <<writer, readers, opened, alive, accepting, loops>>

Dial(d) == dialler[d].at = "idle" /\ LookUp(d)

(* The retry keeps the read lock of the first session until it returns.     *)
Retry(d) == dialler[d].at = "again" /\ LookUp(d)

Lock(d) ==
  /\ dialler[d].at = "lock"
  /\ Unlocked(dialler[d].session)
  /\ writer' = writer \cup {dialler[d].session}
  /\ dialler' = [dialler EXCEPT ![d].at = "handshake"]
  /\ UNCHANGED <<entry, conn, readers, opened, alive, accepting, loops>>

ReadersWithout(d) == [s \in Session |-> readers[s] \ {d}]

(* Mutant: a failed handshake returns without unlocking the session.        *)
HandshakeKeepsLock(d) ==
  LET s == dialler[d].session
  IN  /\ dialler[d].at = "handshake"
      /\ \/ /\ opened < MaxConnections
            /\ opened' = opened + 1
            /\ alive' = alive \cup {opened + 1}
            /\ conn' = [conn EXCEPT ![s] = opened + 1]
            /\ writer' = writer \ {s}
            /\ loops' = loops \cup {[session |-> s, con |-> NoConnection]}
            /\ dialler' = [dialler EXCEPT ![d].at = "check"]
            /\ UNCHANGED readers
         \/ /\ conn' = [conn EXCEPT ![s] = NoConnection]
            /\ dialler' = [dialler EXCEPT ![d] = NotDialling]
            /\ readers' = ReadersWithout(d)
            /\ UNCHANGED <<opened, alive, loops, writer>>
      /\ UNCHANGED <<entry, accepting>>

(* The handshake is over.  When it failed the map keeps the session.        *)
Handshake(d) ==
  LET s == dialler[d].session
  IN  /\ dialler[d].at = "handshake"
      /\ writer' = writer \ {s}
      /\ \/ /\ opened < MaxConnections
            /\ opened' = opened + 1
            /\ alive' = alive \cup {opened + 1}
            /\ conn' = [conn EXCEPT ![s] = opened + 1]
            /\ loops' = loops \cup {[session |-> s, con |-> NoConnection]}
            /\ dialler' = [dialler EXCEPT ![d].at = "check"]
            /\ UNCHANGED readers
         \/ /\ conn' = [conn EXCEPT ![s] = NoConnection]
            /\ dialler' = [dialler EXCEPT ![d] = NotDialling]
            /\ readers' = ReadersWithout(d)
            /\ UNCHANGED <<opened, alive, loops>>
      /\ UNCHANGED <<entry, accepting>>

(* Go lets no new reader in once a writer waits.                            *)
WriterWaits(s) ==
  \/ accepting.at = "lock" /\ accepting.session = s
  \/ \E d \in Dialler : dialler[d].at = "lock" /\ dialler[d].session = s

RLock(d) ==
  LET s == dialler[d].session
  IN  /\ dialler[d].at = "rlock"
      /\ s \notin writer
      /\ ~WriterWaits(s)
      /\ readers' = [readers EXCEPT ![s] = @ \cup {d}]
      /\ dialler' = [dialler EXCEPT ![d].at = "check"]
      /\ UNCHANGED <<entry, conn, writer, opened, alive, accepting, loops>>

(* A session that nobody has connected yet ends the dial, and is forgotten  *)
(* together with whatever its own dialler will make of it.                  *)
Check(d) ==
  /\ dialler[d].at = "check"
  /\ IF conn[dialler[d].session] = NoConnection
     THEN /\ entry' = NoSession
          /\ dialler' = [dialler EXCEPT ![d] = NotDialling]
          /\ readers' = ReadersWithout(d)
     ELSE /\ dialler' = [dialler EXCEPT ![d].at = "open"]
          /\ UNCHANGED <<entry, readers>>
  /\ UNCHANGED <<conn, writer, opened, alive, accepting, loops>>

(* A session whose connection fails is forgotten and dialled once more.     *)
OpenStream(d) ==
  /\ dialler[d].at = "open"
  /\ IF conn[dialler[d].session] \in alive
     THEN /\ dialler' = [dialler EXCEPT ![d] = NotDialling]
          /\ readers' = ReadersWithout(d)
          /\ UNCHANGED entry
     ELSE /\ entry' = NoSession
          /\ dialler' = [dialler EXCEPT ![d] =
               IF @.retrying THEN NotDialling ELSE [@ EXCEPT !.at = "again", !.retrying = TRUE]]
          /\ readers' = IF dialler[d].retrying THEN ReadersWithout(d) ELSE readers
  /\ UNCHANGED <<conn, writer, opened, alive, accepting, loops>>

(* The listener accepts a connection from the node ...                      *)
Accept ==
  /\ accepting.at = "idle"
  /\ opened < MaxConnections
  /\ opened' = opened + 1
  /\ alive' = alive \cup {opened + 1}
  /\ \E s \in Session, found \in BOOLEAN :
       /\ GetSession(s, found)
       /\ accepting' = [at |-> "lock", session |-> s, con |-> opened + 1, found |-> found]
  /\ UNCHANGED <<writer, readers, dialler, loops>>

(* ... closes it as replaced when there was a session, and stores it.       *)
Install ==
  LET s == accepting.session
  IN  /\ accepting.at = "lock"
      /\ Unlocked(s)
      /\ alive' = IF accepting.found THEN alive \ {accepting.con} ELSE alive
      /\ conn' = [conn EXCEPT ![s] = accepting.con]
      /\ loops' = loops \cup {[session |-> s, con |-> NoConnection]}
      /\ accepting' = NotAccepting
      /\ UNCHANGED <<entry, writer, readers, opened, dialler>>

(* sessionlistener starts, and ends when its context or the connection the  *)
(* session has by then is over: it deletes the map's entry, whichever that  *)
(* is.                                                                      *)
StartLoop(l) ==
  /\ l \in loops
  /\ l.con = NoConnection
  /\ conn[l.session] # NoConnection
  /\ loops' = (loops \ {l}) \cup {[l EXCEPT !.con = conn[l.session]]}
  /\ UNCHANGED <<entry, conn, writer, readers, opened, alive, dialler, accepting>>

EndLoop(l) ==
  /\ l \in loops
  /\ l.con # NoConnection
  /\ l.con \notin alive \/ conn[l.session] \notin alive
  /\ loops' = loops \ {l}
  /\ entry' = NoSession
  /\ UNCHANGED <<conn, writer, readers, opened, alive, dialler, accepting>>

ConnectionDies(c) ==
  /\ c \in alive
  /\ alive' = alive \ {c}
  /\ UNCHANGED <<entry, conn, writer, readers, opened, dialler, accepting, loops>>

DialStep(d) == Retry(d) \/ Lock(d) \/ Handshake(d) \/ RLock(d) \/ Check(d) \/ OpenStream(d)

SessionsNext ==
  \/ \E d \in Dialler : Dial(d) \/ DialStep(d)
  \/ Accept \/ Install
  \/ \E l \in loops : StartLoop(l) \/ EndLoop(l)
  \/ \E c \in alive : ConnectionDies(c)

(* Go runs every dial on; a handshake and the opening of a stream end by    *)
(* themselves, QUIC bounds them with its idle timeout.                      *)
SessionsFairness ==
  /\ \A d \in Dialler : WF_sessionVars(DialStep(d))
  /\ WF_sessionVars(Install)

(* A dial, and the acceptance of a connection, that found its session gets  *)
(* the lock and comes to an end, although other dials hold that lock while  *)
(* they shake hands, wait for a stream, or try again elsewhere.             *)
LocksAreReleased ==
  /\ \A d \in Dialler : dialler[d].at # "idle" ~> dialler[d].at = "idle"
  /\ accepting.at = "lock" ~> accepting.at = "idle"
=============================================================================
