------------------------------- MODULE Retries -------------------------------
(***************************************************************************)
(* ErrorHandler: an operation that fails is tried again as the category of *)
(* its error says, and every error of every goroutine is counted.  The     *)
(* file transfer sends its chunks and its completion this way; the handler *)
(* can be stopped while one of them waits.                                 *)
(***************************************************************************)
EXTENDS Naturals, Sequences, FiniteSets, SequencesExt

CONSTANTS Operation,  \* calls of RetryWithPolicy, each by a goroutine of its own
          Error,      \* the categories the errors of a run fall in
          MaxRetries, \* RetryPolicy.MaxRetries
          MaxHistory, \* maxHistory
          MaxOthers   \* bound: errors of a category reported by anyone else

Category == {"network", "timeout", "protocol", "validation", "permission",
             "resource", "unknown"} \* categorizeError names no other

ASSUME RetriesAssumption ==
  /\ IsFiniteSet(Operation) /\ Error \subseteq Category
  /\ MaxRetries \in Nat /\ MaxHistory \in Nat /\ MaxOthers \in Nat

Results == {"none", "success", "error", "cancelled"}

VARIABLES attempt,  \* of each operation: the attempt under way
          at,       \* of each: new, trying, failed, waiting, done
          lastErr,  \* of each: the categories of its errors, in order
          result,   \* of each
          errorStats,   \* of each category: TotalCount, RecentCount, SuccessCount
          errorHistory, \* categories, the oldest first
          stopped,
          others   \* of each category: errors reported by anyone else

retryVars == <<attempt, at, lastErr, result, errorStats, errorHistory, stopped, others>>

RetriesInit ==
  /\ attempt = [o \in Operation |-> 0] /\ at = [o \in Operation |-> "new"]
  /\ lastErr = [o \in Operation |-> <<>>] /\ result = [o \in Operation |-> "none"]
  /\ errorStats = [c \in Category |-> [total |-> 0, recent |-> 0, success |-> 0]]
  /\ errorHistory = <<>> /\ stopped = FALSE /\ others = [c \in Category |-> 0]

Severity(c) ==
  CASE c = "timeout" -> 0
    [] c \in {"network", "validation", "unknown"} -> 1
    [] c \in {"protocol", "permission"} -> 2
    [] c = "resource" -> 3

Action(c) ==
  CASE Severity(c) >= 3 -> "escalate"
    [] c \in {"network", "timeout"} -> "retry"
    [] c = "protocol" -> "fallback"
    [] OTHER -> "retry"

IsRetryable(c, retryCount) == Action(c) = "retry" /\ retryCount < MaxRetries

UpdateStats(c) == errorStats' = [errorStats EXCEPT ![c].total = @ + 1, ![c].recent = @ + 1]

AddToHistory(c) ==
  LET h == Append(errorHistory, c) IN
  errorHistory' = IF Len(h) > MaxHistory THEN SubSeq(h, Len(h) - MaxHistory + 1, Len(h)) ELSE h

(* processError, under the lock *)
HandleError(c) == UpdateStats(c) /\ AddToHistory(c)

(* an error of a caller that does not try again *)
Report(c) ==
  /\ others[c] < MaxOthers
  /\ others' = [others EXCEPT ![c] = @ + 1]
  /\ HandleError(c)
  /\ UNCHANGED <<attempt, at, lastErr, result, stopped>>

Finish(o, r) == at' = [at EXCEPT ![o] = "done"] /\ result' = [result EXCEPT ![o] = r]

(* the operation succeeds; the recovery is counted where its last error was *)
Succeeds(o) ==
  /\ at[o] \in {"new", "trying"}
  /\ Finish(o, "success")
  /\ IF lastErr[o] = <<>> THEN UNCHANGED errorStats
     ELSE LET c == Last(lastErr[o]) IN
          errorStats' = [errorStats EXCEPT ![c].success = @ + 1]
  /\ UNCHANGED <<attempt, lastErr, errorHistory, stopped, others>>

Fails(o, c) ==
  /\ at[o] \in {"new", "trying"}
  /\ HandleError(c)
  /\ lastErr' = [lastErr EXCEPT ![o] = Append(@, c)]
  /\ at' = [at EXCEPT ![o] = "failed"]
  /\ UNCHANGED <<attempt, result, stopped, others>>

(* Mutant: the limit is tested with <= in both places. *)
MayTryOnceTooOften(o) == Action(Last(lastErr[o])) = "retry" /\ attempt[o] <= MaxRetries

MayTryAgain(o) == IsRetryable(Last(lastErr[o]), attempt[o]) /\ attempt[o] < MaxRetries

Wait(o) ==
  /\ at[o] = "failed" /\ MayTryAgain(o)
  /\ at' = [at EXCEPT ![o] = "waiting"]
  /\ UNCHANGED <<attempt, lastErr, result, errorStats, errorHistory, stopped, others>>

GiveUp(o) ==
  /\ at[o] = "failed" /\ ~MayTryAgain(o)
  /\ Finish(o, "error")
  /\ UNCHANGED <<attempt, lastErr, errorStats, errorHistory, stopped, others>>

(* the delay is over; a stopped handler may be noticed instead *)
TryAgain(o) ==
  /\ at[o] = "waiting"
  /\ attempt' = [attempt EXCEPT ![o] = @ + 1]
  /\ at' = [at EXCEPT ![o] = "trying"]
  /\ UNCHANGED <<lastErr, result, errorStats, errorHistory, stopped, others>>

Cancelled(o) ==
  /\ at[o] = "waiting" /\ stopped
  /\ Finish(o, "cancelled")
  /\ UNCHANGED <<attempt, lastErr, errorStats, errorHistory, stopped, others>>

(* statsCleanupLoop, every hour until the handler is stopped *)
ClearStats ==
  /\ ~stopped
  /\ errorStats' = [c \in Category |-> [errorStats[c] EXCEPT !.recent = 0]]
  /\ UNCHANGED <<attempt, at, lastErr, result, errorHistory, stopped, others>>

StopHandler == stopped' = TRUE /\ UNCHANGED <<attempt, at, lastErr, result, errorStats, errorHistory, others>>

RetriesNext ==
  \/ \E c \in Error : Report(c) \/ \E o \in Operation : Fails(o, c)
  \/ \E o \in Operation : Succeeds(o) \/ Wait(o) \/ GiveUp(o) \/ TryAgain(o) \/ Cancelled(o)
  \/ ClearStats \/ StopHandler

RetriesSpec == RetriesInit /\ [][RetriesNext]_retryVars

-----------------------------------------------------------------------------
RetriesTypeOK ==
  /\ attempt \in [Operation -> 0..MaxRetries]
  /\ at \in [Operation -> {"new", "trying", "failed", "waiting", "done"}]
  /\ lastErr \in [Operation -> Seq(Category)]
  /\ result \in [Operation -> Results]
  /\ errorStats \in [Category -> [total : Nat, recent : Nat, success : Nat]]
  /\ errorHistory \in Seq(Category) /\ Len(errorHistory) <= MaxHistory
  /\ stopped \in BOOLEAN /\ others \in [Category -> 0..MaxOthers]

Recovered(c) ==
  {o \in Operation : result[o] = "success" /\ lastErr[o] # <<>> /\ Last(lastErr[o]) = c}
Failures(c) ==
  UNION {{o} \X {i \in DOMAIN lastErr[o] : lastErr[o][i] = c} : o \in Operation}

(* No failure is tried too often or given up too early, whatever the other
   goroutines report: an operation has failed once per finished attempt, only
   retryable errors were followed by another attempt, it is given up after
   MaxRetries + 1 failures or after one that cannot be retried, and each
   failure and each recovery of its category was counted (RetryWithPolicy). *)
RetriedAsThePolicySays ==
  /\ \A o \in Operation :
       /\ Len(lastErr[o]) <= MaxRetries + 1
       /\ \A i \in 1..(Len(lastErr[o]) - 1) : Action(lastErr[o][i]) = "retry"
       /\ result[o] = "error" => \/ Len(lastErr[o]) = MaxRetries + 1
                                 \/ Action(Last(lastErr[o])) # "retry"
  /\ \A c \in Category :
       /\ errorStats[c].success = Cardinality(Recovered(c))
       /\ errorStats[c].total = others[c] + Cardinality(Failures(c))
=============================================================================
