------------------------------ MODULE RunLedger ------------------------------
(***************************************************************************)
(* What a billing run promises to whoever reads its row (the live view, the *)
(* run history, generate-batch before it accepts another request):          *)
(*   - a run is opened once, RUNNING, for a fixed number of accounts;       *)
(*   - its counters only grow, and succeeded never passes total_accounts;   *)
(*   - it is closed only when every account is accounted for, and then it   *)
(*     reads DONE exactly when nothing had failed.                          *)
(* A run whose failures an administrator retried is out of the promise: the *)
(* retry task rewrites status and counters as it likes (see GenerationQueue *)
(* for why).  Nothing here says who counts or when; GenerationQueue does.   *)
(***************************************************************************)
EXTENDS Integers

CONSTANT Runs        \* ids of billing_runs rows, those never used included

VARIABLES
  rstatus,           \* billing_runs.status, "absent" before the row exists
  rtotal,            \* billing_runs.total_accounts
  rsucc,             \* billing_runs.succeeded
  rfail,             \* billing_runs.failed
  retried            \* the runs for which a retry was ever requested

ledgerVars == <<rstatus, rtotal, rsucc, rfail, retried>>

Open == {"RUNNING"}
Closed == {"DONE", "PARTIAL"}

\* The verdict of _update_billing_run and of both failure handlers.
Verdict(failed) == IF failed = 0 THEN "DONE" ELSE "PARTIAL"

Accounted(r) == rsucc[r] + rfail[r] >= rtotal[r]

LedgerInit ==
  /\ rstatus = [r \in Runs |-> "absent"]
  /\ rtotal = [r \in Runs |-> 0]
  /\ rsucc = [r \in Runs |-> 0]
  /\ rfail = [r \in Runs |-> 0]
  /\ retried = {}

\* The step writes the row of r and no other.
WritesOnly(r) ==
  /\ rstatus' = [rstatus EXCEPT ![r] = rstatus'[r]]
  /\ rtotal' = [rtotal EXCEPT ![r] = rtotal'[r]]
  /\ rsucc' = [rsucc EXCEPT ![r] = rsucc'[r]]
  /\ rfail' = [rfail EXCEPT ![r] = rfail'[r]]

OpenRun(r) ==
  /\ rstatus[r] = "absent"
  /\ WritesOnly(r)
  /\ rstatus'[r] = "RUNNING"
  /\ rtotal'[r] \in Nat \ {0}
  /\ rsucc'[r] = 0
  /\ rfail'[r] = 0
  /\ UNCHANGED retried

CountOutcomes(r) ==
  /\ rstatus[r] # "absent"
  /\ r \notin retried
  /\ WritesOnly(r)
  /\ rtotal'[r] = rtotal[r]
  /\ rsucc'[r] \in Nat
  /\ rsucc[r] <= rsucc'[r] /\ rsucc'[r] <= rtotal[r]
  /\ rfail'[r] \in Nat
  /\ rfail[r] <= rfail'[r]
  /\ \/ rstatus'[r] = rstatus[r]
     \/ /\ rsucc'[r] + rfail'[r] >= rtotal[r]
        /\ rstatus'[r] = Verdict(rfail'[r])
  /\ UNCHANGED retried

RequestRetry(r) ==
  /\ rfail[r] # 0
  /\ retried' = retried \cup {r}
  /\ UNCHANGED <<rstatus, rtotal, rsucc, rfail>>

RewriteRetried(r) ==
  /\ r \in retried
  /\ WritesOnly(r)
  /\ rtotal'[r] = rtotal[r]
  /\ rstatus'[r] \in {"RUNNING", "DONE", "PARTIAL", "FAILED"}
  /\ rsucc'[r] \in Int
  /\ rfail'[r] \in Int
  /\ UNCHANGED retried

LedgerNext ==
  \E r \in Runs :
    OpenRun(r) \/ CountOutcomes(r) \/ RequestRetry(r) \/ RewriteRetried(r)

LedgerSpec == LedgerInit /\ [][LedgerNext]_ledgerVars
-----------------------------------------------------------------------------
LedgerTypeOK ==
  /\ rstatus \in [Runs -> {"absent", "RUNNING", "DONE", "PARTIAL", "FAILED"}]
  /\ rtotal \in [Runs -> Nat]
  /\ rsucc \in [Runs -> Int]
  /\ rfail \in [Runs -> Int]
  /\ retried \in SUBSET Runs

\* succeeded never passes total_accounts on a run that was not retried: the
\* min() of _update_billing_run (worker_queue.py:267).
NeverOverCounts ==
  \A r \in Runs \ retried : 0 <= rsucc[r] /\ rsucc[r] <= rtotal[r] /\ 0 <= rfail[r]

\* A run reads DONE or PARTIAL only when succeeded + failed has reached
\* total_accounts, until an administrator retries it: no file of the run is
\* still owed when the history shows it finished.
ClosedIsAccounted ==
  \A r \in Runs \ retried : rstatus[r] \in Closed => Accounted(r)
=============================================================================
