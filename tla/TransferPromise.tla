-------------------------- MODULE TransferPromise --------------------------
(***************************************************************************)
(* What a file transfer promises to the users at its ends, without its     *)
(* messages, goroutines, sessions and timers (FileTransfer implements it,  *)
(* see Promised there).                                                    *)
(***************************************************************************)
EXTENDS Naturals

CONSTANT Size  \* how many chunks the file has

VARIABLES
  said,      \* what the receiver's user said: "none", "accept" or "refuse"
  verdict,   \* what became of the question: the user may be too late
  sent,      \* how many chunks have left the sender
  taken,     \* the chunks the receiver has taken in
  stored,    \* the chunks the receiver has stored
  closed,    \* whether the receiver has closed its session as complete
  reported   \* what the sender reports: "open", "failed" or "canceled"

promiseVars == <<said, verdict, sent, taken, stored, closed, reported>>

PromiseInit ==
  /\ said = "none" /\ verdict = "none"
  /\ sent = 0 /\ taken = {} /\ stored = {} /\ closed = FALSE
  /\ reported = "open"

(* The user speaks once.                                                    *)
Say ==
  /\ said = "none" /\ said' \in {"accept", "refuse"}
  /\ UNCHANGED <<verdict, sent, taken, stored, closed, reported>>

(* The question is settled once, and only the user can settle it with yes.  *)
Settle ==
  /\ verdict = "none"
  /\ \/ verdict' = "refuse"
     \/ said = "accept" /\ verdict' = "accept"
  /\ UNCHANGED <<said, sent, taken, stored, closed, reported>>

(* Chunks leave in order, each once, with consent; ...                      *)
SendNext ==
  /\ verdict = "accept" /\ sent < Size
  /\ sent' = sent + 1
  /\ UNCHANGED <<said, verdict, taken, stored, closed, reported>>

(* ... they are taken in, in any order, if at all, until the session is     *)
(* closed, ...                                                              *)
TakeIn ==
  /\ ~closed
  /\ \E i \in 0..sent-1 : taken' = taken \cup {i}
  /\ UNCHANGED <<said, verdict, sent, stored, closed, reported>>

(* ... and stored, or spoilt, when it may be closed already; ...            *)
Store ==
  /\ \E i \in taken : taken' = taken \ {i} /\ stored' \in {stored, stored \cup {i}}
  /\ UNCHANGED <<said, verdict, sent, closed, reported>>

(* ... and the session is closed once, not before the last one has left.    *)
Close ==
  /\ sent = Size /\ ~closed
  /\ closed' = TRUE
  /\ UNCHANGED <<said, verdict, sent, taken, stored, reported>>

(* A failure may still be cancelled; nothing else changes a bad report.     *)
Report ==
  /\ reported # "canceled"
  /\ reported' \in {"failed", "canceled"}
  /\ UNCHANGED <<said, verdict, sent, taken, stored, closed>>

PromiseNext == Say \/ Settle \/ SendNext \/ TakeIn \/ Store \/ Close \/ Report

PromiseSpec == PromiseInit /\ [][PromiseNext]_promiseVars
=============================================================================
