-------------------------- MODULE NotificationOutbox --------------------------
(***************************************************************************)
(* The notification outbox: scan_and_send (app/notifications/service.py) as *)
(* Celery beat and the command line start it.  A scan inserts the missing   *)
(* rows in one transaction and sends what is due in a second one; the       *)
(* message leaves before the row that says so is committed.                 *)
(***************************************************************************)
EXTENDS Integers, FiniteSets

CONSTANTS
  Invoices,
  Scanners,          \* the scans that may be under way at once
  Emailed,           \* the invoices whose customer has an e-mail address
  Phoned,            \* those whose account has a telephone number
  SmsEnabled,        \* settings.sms_backend is not "console"
  MaxAttempts,       \* settings.notify_max_attempts
  MaxFaults,
  NoRow, NoKey

ASSUME OutboxAssumption ==
  /\ MaxAttempts \in Nat \ {0}
  /\ MaxFaults \in Nat
  /\ SmsEnabled \in BOOLEAN
  /\ Emailed \subseteq Invoices /\ Phoned \subseteq Invoices

Channels == {"EMAIL", "SMS"}
Keys == Invoices \X Channels

\* A row of notification_outbox, its recipient left out.
Row == [status : {"QUEUED", "SENT", "FAILED"},
        attempts : Nat,
        error : {"none", "nofile", "provider"}]

ASSUME OutboxNulls == NoRow \notin Row /\ NoKey \notin Keys

VARIABLES
  billed,            \* the rows of invoices
  outbox,            \* the committed rows of notification_outbox
  delivered,         \* how often the provider took the message of a key
  pc, todo, cur,     \* where a scan stands, the keys ahead of it, the one in hand
  answer,            \* what the provider said about it
  waits,             \* the scans whose statement waits for another transaction
  view,              \* the rows a scan read, as it remembers them
  dirty,             \* the rows its transaction has flushed, not yet committed
  faults,
  overlapped         \* two scans were under way at once (history)

vars == <<billed, outbox, delivered, pc, todo, cur, answer, waits, view, dirty, faults, overlapped>>

NoRows == [k \in {} |-> NoRow]

\* The flushed rows of a transaction with one more.
Flush(rows, k, row) ==
  [l \in DOMAIN rows \cup {k} |-> IF l = k THEN row ELSE rows[l]]

Init ==
  /\ billed = {}
  /\ outbox = [k \in Keys |-> NoRow]
  /\ delivered = [k \in Keys |-> 0]
  /\ pc = [s \in Scanners |-> "idle"]
  /\ todo = [s \in Scanners |-> {}]
  /\ cur = [s \in Scanners |-> NoKey]
  /\ answer = [s \in Scanners |-> "none"]
  /\ waits = {}
  /\ view = [s \in Scanners |-> NoRows]
  /\ dirty = [s \in Scanners |-> NoRows]
  /\ faults = 0
  /\ overlapped = FALSE

\* The billing side, of which the notifier only reads the table.
Bill(i) ==
  /\ i \notin billed
  /\ billed' = billed \cup {i}
  /\ UNCHANGED <<outbox, delivered, pc, todo, cur, answer, waits, view, dirty, faults, overlapped>>
-----------------------------------------------------------------------------
(* enqueue_pending *)

\* An uncommitted row of another transaction, inserted or updated: the statement
\* waits until that transaction ends.
Blocked(s, t) == s # t /\ cur[s] \in DOMAIN dirty[t]

\* Nobody overtakes a statement that already waits.
Granted(s) ==
  \A t \in Scanners \ {s} :
    ~Blocked(s, t) /\ (t \in waits /\ cur[t] = cur[s] => s \in waits)

\* The scan has a statement to run on the row in hand.
HasStatement(s) == cur[s] # NoKey

Wait(s) ==
  /\ HasStatement(s)
  /\ s \notin waits
  /\ \E t \in Scanners : Blocked(s, t)
  /\ waits' = waits \cup {s}
  /\ UNCHANGED <<billed, outbox, delivered, pc, todo, cur, answer, view, dirty, faults, overlapped>>

Scan(s) ==
  /\ pc[s] = "idle"
  /\ pc' = [pc EXCEPT ![s] = "email"]
  /\ todo' = [todo EXCEPT ![s] =
       {k \in billed \X {"EMAIL"} : outbox[k] = NoRow}]
  /\ overlapped' = (overlapped \/ \E t \in Scanners \ {s} : pc[t] # "idle")
  /\ UNCHANGED <<billed, outbox, delivered, cur, answer, waits, view, dirty, faults>>

\* The next invoice of the list, in no particular order (no ORDER BY).
Take(s, k) ==
  /\ pc[s] \in {"email", "sms"}
  /\ cur[s] = NoKey
  /\ k \in todo[s]
  /\ cur' = [cur EXCEPT ![s] = k]
  /\ todo' = [todo EXCEPT ![s] = @ \ {k}]
  /\ UNCHANGED <<billed, outbox, delivered, pc, answer, waits, view, dirty, faults, overlapped>>

NewRow(k) ==
  IF k[2] = "EMAIL" /\ k[1] \notin Emailed
  THEN [status |-> "FAILED", attempts |-> 0, error |-> "nofile"]
  ELSE [status |-> "QUEUED", attempts |-> 0, error |-> "none"]

\* The INSERT.  A committed row of another scan makes it fail, and the rollback
\* takes with it every row this scan has flushed so far.
InsertRow(s) ==
  /\ pc[s] \in {"email", "sms"}
  /\ HasStatement(s)
  /\ Granted(s)
  /\ waits' = waits \ {s}
  /\ dirty' = [dirty EXCEPT ![s] =
       IF outbox[cur[s]] = NoRow THEN Flush(@, cur[s], NewRow(cur[s])) ELSE NoRows]
  /\ cur' = [cur EXCEPT ![s] = NoKey]
  /\ UNCHANGED <<billed, outbox, delivered, pc, todo, answer, view, faults, overlapped>>

ListDone(s) == todo[s] = {} /\ cur[s] = NoKey

\* Only an invoice with a telephone number gets a row for this channel.
ScanSms(s) ==
  /\ pc[s] = "email" /\ ListDone(s) /\ SmsEnabled
  /\ pc' = [pc EXCEPT ![s] = "sms"]
  /\ todo' = [todo EXCEPT ![s] =
       {k \in (billed \cap Phoned) \X {"SMS"} : outbox[k] = NoRow}]
  /\ UNCHANGED <<billed, outbox, delivered, cur, answer, waits, view, dirty, faults, overlapped>>

\* (mutant) the scan keeps its rows to itself
CommitNothing(s) ==
  /\ UNCHANGED outbox
  /\ dirty' = [dirty EXCEPT ![s] = NoRows]

Commit(s) ==
  /\ outbox' = [k \in Keys |-> IF k \in DOMAIN dirty[s] THEN dirty[s][k] ELSE outbox[k]]
  /\ dirty' = [dirty EXCEPT ![s] = NoRows]

CommitRows(s) ==
  /\ pc[s] = (IF SmsEnabled THEN "sms" ELSE "email")
  /\ ListDone(s)
  /\ Commit(s)
  /\ pc' = [pc EXCEPT ![s] = "read"]
  /\ UNCHANGED <<billed, delivered, todo, cur, answer, waits, view, faults, overlapped>>
-----------------------------------------------------------------------------
(* send_pending *)

\* (mutant) a row without an address is tried as well
SendableAnyError(row) ==
  /\ row # NoRow
  /\ \/ row.status = "QUEUED"
     \/ row.status = "FAILED" /\ row.attempts < MaxAttempts

Sendable(row) ==
  /\ row # NoRow
  /\ \/ row.status = "QUEUED"
     \/ row.status = "FAILED" /\ row.error # "nofile" /\ row.attempts < MaxAttempts

ReadRows(s) ==
  /\ pc[s] = "read"
  /\ pc' = [pc EXCEPT ![s] = "send"]
  /\ LET due == {k \in Keys : Sendable(outbox[k])}
     IN  /\ todo' = [todo EXCEPT ![s] = due]
         /\ view' = [view EXCEPT ![s] = [k \in due |-> outbox[k]]]
  /\ UNCHANGED <<billed, outbox, delivered, cur, answer, waits, dirty, faults, overlapped>>

\* Rendering and sender.send.  The provider takes the message, refuses it (or a
\* template fails before that), or takes it and the answer is lost.
Send(s, k, said) ==
  /\ pc[s] = "send"
  /\ cur[s] = NoKey
  /\ k \in todo[s]
  /\ said = "lost" => faults < MaxFaults
  /\ cur' = [cur EXCEPT ![s] = k]
  /\ todo' = [todo EXCEPT ![s] = @ \ {k}]
  /\ answer' = [answer EXCEPT ![s] = IF said = "sent" THEN "sent" ELSE "error"]
  /\ delivered' = [delivered EXCEPT ![k] = IF said = "refused" THEN @ ELSE @ + 1]
  /\ faults' = IF said = "lost" THEN faults + 1 ELSE faults
  /\ UNCHANGED <<billed, outbox, pc, waits, view, dirty, overlapped>>

\* (mutant) a row that failed before is not marked as sent
UpdatedIfQueued(row, seen, said) ==
  IF said = "sent"
  THEN [row EXCEPT !.status = IF seen.status = "FAILED" THEN @ ELSE "SENT"]
  ELSE [row EXCEPT !.status = "FAILED", !.attempts = seen.attempts + 1, !.error = "provider"]

\* (mutant) a send that fails is not recorded
UpdatedOnlySent(row, seen, said) ==
  IF said = "sent" THEN [row EXCEPT !.status = "SENT"] ELSE row

\* The UPDATE carries the columns that differ from what was read: a row read
\* FAILED keeps whatever status it has by now, and attempts is what was read,
\* plus one.
Updated(row, seen, said) ==
  IF said = "sent"
  THEN [row EXCEPT !.status = "SENT"]
  ELSE [row EXCEPT !.status = IF seen.status = "FAILED" THEN @ ELSE "FAILED",
                   !.attempts = seen.attempts + 1,
                   !.error = IF seen.error = "provider" THEN @ ELSE "provider"]

RecordAnswer(s) ==
  /\ pc[s] = "send"
  /\ HasStatement(s)
  /\ Granted(s)
  /\ waits' = waits \ {s}
  /\ dirty' = [dirty EXCEPT ![s] =
       Flush(@, cur[s], Updated(outbox[cur[s]], view[s][cur[s]], answer[s]))]
  /\ cur' = [cur EXCEPT ![s] = NoKey]
  /\ answer' = [answer EXCEPT ![s] = "none"]
  /\ UNCHANGED <<billed, outbox, delivered, pc, todo, view, faults, overlapped>>

FinishScan(s) ==
  /\ pc[s] = "send" /\ ListDone(s)
  /\ Commit(s)
  /\ pc' = [pc EXCEPT ![s] = "idle"]
  /\ view' = [view EXCEPT ![s] = NoRows]
  /\ UNCHANGED <<billed, delivered, todo, cur, answer, waits, faults, overlapped>>
-----------------------------------------------------------------------------
(* What ends a scan early: the session is closed and rolled back. *)

Abort(s) ==
  /\ pc' = [pc EXCEPT ![s] = "idle"]
  /\ todo' = [todo EXCEPT ![s] = {}]
  /\ cur' = [cur EXCEPT ![s] = NoKey]
  /\ answer' = [answer EXCEPT ![s] = "none"]
  /\ waits' = waits \ {s}
  /\ view' = [view EXCEPT ![s] = NoRows]
  /\ dirty' = [dirty EXCEPT ![s] = NoRows]
  /\ UNCHANGED <<billed, outbox, delivered, overlapped>>

\* The Celery worker dies, or the database goes away.
Crash(s) ==
  /\ pc[s] # "idle"
  /\ faults < MaxFaults
  /\ faults' = faults + 1
  /\ Abort(s)

\* The database breaks a circle of waiting transactions by failing one of them.
DeadlockVictim(s) ==
  /\ \E C \in SUBSET Scanners :
       s \in C /\ C \subseteq waits /\ \A t \in C : \E o \in C : Blocked(t, o)
  /\ Abort(s)
  /\ UNCHANGED faults
-----------------------------------------------------------------------------
Answers == {"sent", "refused", "lost"}

\* Whatever a scan does once beat or the command line has started it.
ScanStep(s) ==
  \/ Scan(s) \/ ScanSms(s) \/ CommitRows(s) \/ ReadRows(s) \/ FinishScan(s)
  \/ Wait(s) \/ InsertRow(s) \/ RecordAnswer(s) \/ DeadlockVictim(s)
  \/ \E k \in Keys : Take(s, k) \/ \E said \in Answers : Send(s, k, said)

Next ==
  \/ \E i \in Invoices : Bill(i)
  \/ \E s \in Scanners : ScanStep(s) \/ Crash(s)

Spec == Init /\ [][Next]_vars

\* Beat starts a scan every 15 minutes, and a scan that was started ends: the
\* database hands the locks of a transaction that ends to those that wait.
FairSpec == Spec /\ \A s \in Scanners : WF_vars(ScanStep(s))
-----------------------------------------------------------------------------
TypeOK ==
  /\ billed \in SUBSET Invoices
  /\ outbox \in [Keys -> Row \cup {NoRow}]
  /\ delivered \in [Keys -> Nat]
  /\ pc \in [Scanners -> {"idle", "email", "sms", "read", "send"}]
  /\ todo \in [Scanners -> SUBSET Keys]
  /\ cur \in [Scanners -> Keys \cup {NoKey}]
  /\ waits \in SUBSET Scanners
  /\ answer \in [Scanners -> {"none", "sent", "error"}]
  /\ \A s \in Scanners :
       /\ DOMAIN view[s] \subseteq Keys
       /\ \A k \in DOMAIN view[s] : view[s][k] \in Row
       /\ DOMAIN dirty[s] \subseteq Keys
       /\ \A k \in DOMAIN dirty[s] : dirty[s][k] \in Row
  /\ faults \in 0..MaxFaults
  /\ overlapped \in BOOLEAN

\* What a committed row tells its reader.
Phase(row) ==
  CASE row = NoRow -> "none"
    [] row # NoRow /\ row.status = "QUEUED" -> "queued"
    [] row # NoRow /\ row.status = "SENT" -> "sent"
    [] OTHER -> IF row.error = "nofile" THEN "unreachable"
                ELSE IF row.attempts < MaxAttempts THEN "failed" ELSE "dead"

Promise == INSTANCE OutboxPromise WITH
  Keys <- Keys,
  phase <- [k \in Keys |-> Phase(outbox[k])],
  mails <- delivered,
  overlapped <- overlapped

\* Scans, crashes, lost answers and colliding transactions change the outbox
\* only as OutboxPromise allows: nothing goes out without a committed row, a
\* row says SENT only after the provider took the message, an invoice without
\* an address is left alone for good, and SENT and the dead letters are final
\* as long as scans do not overlap (service.py:64-241).
OutboxKeepsPromise == Promise!PromiseSpec

\* A customer gets a second copy of a bill only from a scan that was cut off
\* after the message left, from a lost answer, or from scans that overlap:
\* running the scan again is no reason ("Re-running the scanner never
\* double-sends", docs/NOTIFICATIONS.md:15).
RerunNeverDoubles ==
  ~overlapped => \A k \in Keys : delivered[k] <= 1 + faults

\* Every invoice gets its outbox rows, also when scans keep rolling each other
\* back on the unique constraint (service.py:98-100, 130-132).
EveryInvoiceQueued ==
  \A i \in Invoices :
    i \in billed ~> /\ outbox[<<i, "EMAIL">>] # NoRow
                    /\ SmsEnabled /\ i \in Phoned => outbox[<<i, "SMS">>] # NoRow

\* Every message comes to an end: sent, impossible, or given up after
\* MaxAttempts, although attempts is written from a value read before the send
\* and may go down (service.py:142-155, 231).
OutboxSettles == <>[](\A k \in Keys : ~Sendable(outbox[k]))

\* "A given invoice is emailed once and texted once - ever ... Enforced by a DB
\* unique constraint, not by hope" (docs/NOTIFICATIONS.md:14-16).
SentOnceEver == \A k \in Keys : delivered[k] <= 1
=============================================================================
