------------------------------ MODULE Accounts ------------------------------
(***************************************************************************)
(* The accounts of internal/account, the login of main.go, and the account *)
(* commands.  Several processes of the program may run in one directory:   *)
(* each loads accounts/ when it starts and then trusts its own table.  A   *)
(* session is a process that logged in and went online; an account command *)
(* typed at the shell is a process of its own.                             *)
(*                                                                         *)
(* A key pair is a number.  plainKey is the PublicKey field, which only a  *)
(* login fills in.                                                         *)
(***************************************************************************)
EXTENDS Naturals, FiniteSets

CONSTANTS Process,  \* the processes
          Name,     \* user names
          Password, \* passwords
          MaxKeys,  \* bound: key pairs ever generated
          nobody    \* no account

ASSUME AccountsAssumption == MaxKeys \in Nat /\ nobody \notin Name \cup {"cut off"}

VARIABLES accountFile, \* accounts/<name>/account.json
          phase,       \* of each process: off, login, starting, online, command, done
          accounts,    \* Manager.accounts of each process
          plainKey,    \* the decrypted PublicKey of each loaded account, 0 if empty
          current,     \* Manager.current
          node,        \* the keys the Pinecone service runs with, 0 if none
          keys         \* key pairs generated so far

accountsVars == <<accountFile, phase, accounts, plainKey, current, node, keys>>

(* a process of its own runs one command *)
After(p) == IF phase[p] = "command" THEN "done" ELSE phase[p]

NoAccount == [key |-> 0, password |-> nobody]
Unreadable == [key |-> 0, password |-> "cut off"] \* half a file, no JSON
Known(p, u) == accounts[p][u] # NoAccount

AccountsInit ==
  /\ accountFile = [u \in Name |-> NoAccount]
  /\ phase = [p \in Process |-> "off"]
  /\ accounts = [p \in Process |-> accountFile]
  /\ plainKey = [p \in Process |-> [u \in Name |-> 0]]
  /\ current = [p \in Process |-> nobody]
  /\ node = [p \in Process |-> [public |-> 0, private |-> 0]]
  /\ keys = 0

(* loadAccounts: a file that does not parse is passed over *)
LoadedAccounts == [u \in Name |-> IF accountFile[u] = Unreadable THEN NoAccount ELSE accountFile[u]]

(* main: a login and the network come first, or a subcommand runs by itself *)
Launch(p, as) ==
  /\ phase[p] = "off"
  /\ phase' = [phase EXCEPT ![p] = as]
  /\ accounts' = [accounts EXCEPT ![p] = LoadedAccounts]
  /\ UNCHANGED <<accountFile, plainKey, current, node, keys>>

(* the process ends: what it held is gone *)
EndProcess(p) ==
  /\ phase' = [phase EXCEPT ![p] = "off"]
  /\ accounts' = [accounts EXCEPT ![p] = [u \in Name |-> NoAccount]]
  /\ plainKey' = [plainKey EXCEPT ![p] = [u \in Name |-> 0]]
  /\ current' = [current EXCEPT ![p] = nobody]
  /\ node' = [node EXCEPT ![p] = [public |-> 0, private |-> 0]]

Exit(p) == phase[p] # "off" /\ EndProcess(p) /\ UNCHANGED <<accountFile, keys>>

NewAccount(pw) == [key |-> keys + 1, password |-> pw]

(* CreateAccount: a new key pair; the file is written in place, and the
   process may end when half of it is there.  The new account is current and
   its public key is not decrypted. *)
CreateAccount(p, u, pw) ==
  LET new == NewAccount(pw) IN
  /\ ~Known(p, u) /\ keys < MaxKeys
  /\ keys' = keys + 1
  /\ \/ /\ accountFile' = [accountFile EXCEPT ![u] = new]
        /\ accounts' = [accounts EXCEPT ![p][u] = new]
        /\ plainKey' = [plainKey EXCEPT ![p][u] = 0]
        /\ current' = [current EXCEPT ![p] = u]
        /\ phase' = [phase EXCEPT ![p] = After(p)]
        /\ UNCHANGED node
     \/ accountFile' = [accountFile EXCEPT ![u] = Unreadable] /\ EndProcess(p)

(* CheckPassword, DecryptKeys *)
Opens(p, u, pw) == accounts[p][u].password = pw

SetCurrentAccountWithPassword(p, u) ==
  /\ plainKey' = [plainKey EXCEPT ![p][u] = accounts[p][u].key]
  /\ current' = [current EXCEPT ![p] = u]

(* AutoLoginWithPassword, or the menu of RequireLoginWithPassword: an account of
   the list, or a new one first *)
LogsIn(p) == phase[p] = "login"

(* with a wrong password the process ends *)
Login(p, u, pw) ==
  /\ LogsIn(p) /\ Known(p, u)
  /\ IF Opens(p, u, pw)
       THEN /\ SetCurrentAccountWithPassword(p, u)
            /\ phase' = [phase EXCEPT ![p] = "starting"]
            /\ UNCHANGED <<accounts, node>>
       ELSE EndProcess(p)
  /\ UNCHANGED <<accountFile, keys>>

(* initializeNetworkServices: the public key of the current account and, with
   the password just typed, its private key *)
InitializeNetwork(p) ==
  /\ phase[p] = "starting"
  /\ node' = [node EXCEPT ![p] = [public |-> plainKey[p][current[p]],
                                  private |-> accounts[p][current[p]].key]]
  /\ phase' = [phase EXCEPT ![p] = "online"]
  /\ UNCHANGED <<accountFile, accounts, plainKey, current, keys>>

Commanding(p) == phase[p] \in {"online", "command"}

(* the menu of the login, which goes on to Login; `account create` *)
CreateNewAccount(p, u, pw) == LogsIn(p) /\ CreateAccount(p, u, pw)
HandleCreateAccount(p, u, pw) == Commanding(p) /\ CreateAccount(p, u, pw)

(* SetCurrentAccount *)
SelectAccount(p, u) ==
  /\ Commanding(p) /\ Known(p, u)
  /\ current' = [current EXCEPT ![p] = u]
  /\ phase' = [phase EXCEPT ![p] = After(p)]
  /\ UNCHANGED <<accountFile, accounts, plainKey, node, keys>>

(* Mutant: the account goes and the selection stays. *)
ForgetButCurrent(p, u) ==
  /\ accounts' = [accounts EXCEPT ![p][u] = NoAccount]
  /\ plainKey' = [plainKey EXCEPT ![p][u] = 0]
  /\ UNCHANGED current

Forget(p, u) ==
  /\ accounts' = [accounts EXCEPT ![p][u] = NoAccount]
  /\ plainKey' = [plainKey EXCEPT ![p][u] = 0]
  /\ current' = [current EXCEPT ![p] = IF @ = u THEN nobody ELSE @]

(* DeleteAccount: that the files could not be removed is not noticed *)
DeleteAccount(p, u) ==
  /\ Known(p, u)
  /\ Forget(p, u)
  /\ accountFile' \in {accountFile, [accountFile EXCEPT ![u] = NoAccount]}
  /\ phase' = [phase EXCEPT ![p] = After(p)]
  /\ UNCHANGED <<node, keys>>

(* `account delete` *)
HandleDeleteAccount(p, u) == Commanding(p) /\ DeleteAccount(p, u)

AccountsNext ==
  \E p \in Process :
    \/ \E as \in {"login", "command"} : Launch(p, as)
    \/ Exit(p) \/ InitializeNetwork(p)
    \/ \E u \in Name : SelectAccount(p, u) \/ HandleDeleteAccount(p, u)
    \/ \E u \in Name, pw \in Password :
         CreateNewAccount(p, u, pw) \/ HandleCreateAccount(p, u, pw) \/ Login(p, u, pw)

AccountsSpec == AccountsInit /\ [][AccountsNext]_accountsVars

(* sendUserInfoExchange, sendUserInfoResponse: who the node says it is *)
Introduction(p) == [name |-> current[p], key |-> node[p].public]

-----------------------------------------------------------------------------
File == [key : 1..MaxKeys, password : Password] \cup {NoAccount, Unreadable}

AccountsTypeOK ==
  /\ accountFile \in [Name -> File] /\ accounts \in [Process -> [Name -> File \ {Unreadable}]]
  /\ phase \in [Process -> {"off", "login", "starting", "online", "command", "done"}]
  /\ plainKey \in [Process -> [Name -> 0..MaxKeys]]
  /\ current \in [Process -> Name \cup {nobody}]
  /\ node \in [Process -> [public : 0..MaxKeys, private : 0..MaxKeys]]
  /\ keys \in 0..MaxKeys

(* What a node tells of itself is a name its own table still has, or no name,
   and the public key it tells belongs to the private key it signs with,
   whatever accounts are created, selected and deleted in the session
   (SetCurrentAccountWithPassword, DeleteAccount, sendUserInfoExchange). *)
IntroducesAKnownName ==
  \A p \in Process : /\ current[p] # nobody => Known(p, current[p])
                     /\ node[p].public = node[p].private

(* After an account was selected in a session "the chat and file operations
   that follow use its identity" (SelectAccount).  The node keeps the keys of
   the login and joins them to the new name. *)
SelectedIsUsed ==
  [][\A p \in Process, u \in Name :
       SelectAccount(p, u) /\ phase[p] = "online"
         => Introduction(p)' = [name |-> u, key |-> accounts[p][u].key]]_accountsVars
=============================================================================
