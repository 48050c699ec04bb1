---------------------------- MODULE MCApplication ----------------------------
(* What a node does with messages, files and records, side by side.  None   *)
(* of these modules reads another's variables, so their product would only  *)
(* multiply their states: `turn` names the one that runs, for good, and the *)
(* others stay in their initial states.                                     *)
EXTENDS Messaging, ObjectPools, Handlers, Retries, PriorityQueue, DirectTransfer, FileStore,
        CommandTransfer, ChatHistory, Accounts

CONSTANTS n1, n2, wa, wb, wc

MCHome == [w \in {wa, wb, wc} |-> IF w = wa THEN n1 ELSE n2]

VARIABLE turn

Components == {"messaging", "pools", "handlers", "retries", "queue", "direct", "store",
               "command", "chat", "accounts"}

ApplicationInit ==
  /\ turn \in Components
  /\ MessagingInit /\ PoolsInit /\ HandlersInit /\ RetriesInit /\ PriorityQueueInit
  /\ DirectInit /\ (turn = "direct" \/ ~exists)
  /\ FileStoreInit /\ CommandInit /\ ChatInit /\ AccountsInit

(* The components but c stay as they are. *)
Only(c) ==
  /\ turn = c /\ UNCHANGED turn
  /\ IF c = "messaging" THEN TRUE ELSE UNCHANGED messagingVars
  /\ IF c = "pools" THEN TRUE ELSE UNCHANGED poolVars
  /\ IF c = "handlers" THEN TRUE ELSE UNCHANGED handlersVars
  /\ IF c = "retries" THEN TRUE ELSE UNCHANGED retryVars
  /\ IF c = "queue" THEN TRUE ELSE UNCHANGED queueVars
  /\ IF c = "direct" THEN TRUE ELSE UNCHANGED directVars
  /\ IF c = "store" THEN TRUE ELSE UNCHANGED fileStoreVars
  /\ IF c = "command" THEN TRUE ELSE UNCHANGED commandVars
  /\ IF c = "chat" THEN TRUE ELSE UNCHANGED chatVars
  /\ IF c = "accounts" THEN TRUE ELSE UNCHANGED accountsVars

ApplicationNext ==
  \/ Only("messaging") /\ MessagingNext
  \/ Only("pools") /\ PoolsNext
  \/ Only("handlers") /\ HandlersNext
  \/ Only("retries") /\ RetriesNext
  \/ Only("queue") /\ PriorityQueueNext
  \/ Only("direct") /\ DirectNext
  \/ Only("store") /\ FileStoreNext
  \/ Only("command") /\ CommandNext
  \/ Only("chat") /\ ChatNext
  \/ Only("accounts") /\ AccountsNext

applicationVars ==
  <<turn, messagingVars, poolVars, handlersVars, retryVars, queueVars, directVars,
    fileStoreVars, commandVars, chatVars, accountsVars>>

(* No action that is owed to the message service can be taken in its initial
   state, so its fairness says nothing while another component has its turn. *)
ApplicationSpec ==
  ApplicationInit /\ [][ApplicationNext]_applicationVars /\ StoppingFairness

(* The state of each component is well typed: in particular no queue, pool,
   window or counter passes its limit. *)
ApplicationTypeOK ==
  /\ turn \in Components
  /\ MessagingTypeOK /\ PoolsTypeOK /\ HandlersTypeOK /\ RetriesTypeOK /\ PriorityQueueTypeOK
  /\ DirectTypeOK /\ FileStoreTypeOK /\ CommandTypeOK /\ ChatTypeOK /\ AccountsTypeOK

(* What three loops remember of their calls is what became of the calls: the
   retries follow the policy error by error, a pending ping has a caller, and
   the sending window holds what was sent and not acknowledged. *)
BookkeepingIsTrue == RetriedAsThePolicySays /\ PendingPingIsOpen /\ WindowHolds
=============================================================================
