----------------------------- MODULE ChatHistory -----------------------------
(***************************************************************************)
(* The messages a user sends with `chat` and what messages.json keeps of   *)
(* them: the command sends and then stores, the callback of an             *)
(* acknowledgement marks what is stored, both under MessageStore.mutex and *)
(* both rewriting the whole file in place.  The process may end anywhere,  *)
(* also while it writes.  One conversation stands for all.                 *)
(***************************************************************************)
CONSTANTS Id,   \* messages the user sends
          torn  \* a file that was being written and does not parse

VARIABLES running,
          memory,   \* MessageStore.messages: the status of each message stored
          file,     \* messages/messages.json: the same, or torn
          saving,   \* nobody, or who holds the mutex and writes: command, callback
          command,  \* the chat command: idle, or where it is with a message
          flying,   \* sent, and not acknowledged yet
          acked,    \* acknowledged to this process (ackDone)
          failed,   \* the network refused them
          kept      \* history: every message a complete file held, by its best
                    \* status; forgotten when a torn file is loaded

chatVars == <<running, memory, file, saving, command, flying, acked, failed, kept>>

NoMessages == [m \in {} |-> "sent"]
NoCommand == [at |-> "idle"]
Status == {"sent", "delivered"}
Later(old, new) == [m \in DOMAIN old \cup DOMAIN new |->
                      IF m \notin DOMAIN new \/ (m \in DOMAIN old /\ old[m] = "delivered")
                        THEN old[m] ELSE new[m]]

ChatInit ==
  /\ running = TRUE /\ memory = NoMessages /\ file = NoMessages /\ saving = "nobody"
  /\ command = NoCommand /\ flying = {} /\ acked = {} /\ failed = {} /\ kept = NoMessages

(* the callback is registered and SendTextMessage takes the message *)
SendMessage(m) ==
  /\ running /\ command = NoCommand
  /\ m \notin DOMAIN memory \cup DOMAIN kept \cup flying \cup acked \cup failed
  /\ command' = [at |-> "sent", id |-> m]
  /\ flying' = flying \cup {m}
  /\ UNCHANGED <<running, memory, file, saving, acked, failed, kept>>

(* or does not: the command says so and returns *)
SendMessageFails(m) ==
  /\ running /\ command = NoCommand
  /\ m \notin DOMAIN memory \cup DOMAIN kept \cup flying \cup acked \cup failed
  /\ failed' = failed \cup {m}
  /\ UNCHANGED <<running, memory, file, saving, command, flying, acked, kept>>

(* os.WriteFile empties the file and then writes it *)
BeginSave(who) == saving = "nobody" /\ saving' = who /\ file' = torn

(* Mutant: the new message replaces the list. *)
AddForgettingTheRest(m) == [n \in {m} |-> "sent"]

Added(m) == [n \in DOMAIN memory \cup {m} |-> IF n = m THEN "sent" ELSE memory[n]]

AddMessage ==
  /\ running /\ command.at = "sent"
  /\ memory' = Added(command.id)
  /\ BeginSave("command")
  /\ command' = [command EXCEPT !.at = "adding"]
  /\ UNCHANGED <<running, flying, acked, failed, kept>>

(* saveMessages ends; the command goes on, to wait for the acknowledgement
   when the user asked for that *)
EndSave ==
  /\ running /\ saving # "nobody"
  /\ file' = memory /\ saving' = "nobody"
  /\ kept' = Later(kept, memory)
  /\ IF saving = "command"
       THEN command' \in {NoCommand, [command EXCEPT !.at = "confirming"]}
       ELSE UNCHANGED command
  /\ UNCHANGED <<running, memory, flying, acked, failed>>

(* MarkAsDelivered, from the goroutine that received the acknowledgement: a
   message that is not stored yet is an error that is only printed *)
Acknowledged(m) ==
  /\ running /\ m \in flying /\ saving = "nobody"
  /\ flying' = flying \ {m} /\ acked' = acked \cup {m}
  /\ IF m \in DOMAIN memory
       THEN memory' = [memory EXCEPT ![m] = "delivered"] /\ BeginSave("callback")
       ELSE UNCHANGED <<memory, file, saving>>
  /\ UNCHANGED <<running, command, failed, kept>>

(* the acknowledgement is there, or ackTimeout is over *)
Confirmed ==
  /\ running /\ command.at = "confirming" /\ command.id \in acked
  /\ memory' = [memory EXCEPT ![command.id] = "delivered"]
  /\ command' = NoCommand
  /\ UNCHANGED <<running, file, saving, flying, acked, failed, kept>>

Unconfirmed ==
  /\ running /\ command.at = "confirming"
  /\ command' = NoCommand
  /\ UNCHANGED <<running, memory, file, saving, flying, acked, failed, kept>>

(* the process ends: what it had in memory is gone, its callbacks too *)
End ==
  /\ running /\ running' = FALSE
  /\ memory' = NoMessages /\ saving' = "nobody" /\ command' = NoCommand
  /\ flying' = {} /\ acked' = {} /\ failed' = {}
  /\ UNCHANGED <<file, kept>>

(* NewMessageStore: a file that does not parse is no file *)
StartChat ==
  /\ ~running /\ running' = TRUE
  /\ IF file = torn THEN memory' = NoMessages /\ kept' = NoMessages
                    ELSE memory' = file /\ UNCHANGED kept
  /\ UNCHANGED <<file, saving, command, flying, acked, failed>>

ChatNext ==
  \/ \E m \in Id : SendMessage(m) \/ SendMessageFails(m) \/ Acknowledged(m)
  \/ AddMessage \/ EndSave \/ Confirmed \/ Unconfirmed \/ End \/ StartChat

ChatSpec == ChatInit /\ [][ChatNext]_chatVars

-----------------------------------------------------------------------------
Stored == UNION {[S -> Status] : S \in SUBSET Id}

ChatTypeOK ==
  /\ running \in BOOLEAN /\ memory \in Stored /\ file \in Stored \cup {torn}
  /\ saving \in {"nobody", "command", "callback"}
  /\ command = NoCommand \/ (command.at \in {"sent", "adding", "confirming"} /\ command.id \in Id)
  /\ flying \subseteq Id /\ acked \subseteq Id /\ failed \subseteq Id /\ kept \in Stored

(* The history is lost by a torn write and by nothing else: whatever a
   complete file ever held is there, a message that was delivered stays so,
   through later messages, acknowledgements and restarts (AddMessage,
   MarkAsDelivered, loadMessages). *)
HistoryIsKept ==
  /\ running => Later(kept, memory) = memory
  /\ file # torn => Later(kept, file) = file

(* A message is stored once, whether the send succeeded or failed
   (CreateAndSendMessage). *)
FailedIsStored == failed \subseteq DOMAIN memory
=============================================================================
