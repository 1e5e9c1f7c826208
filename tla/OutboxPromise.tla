---------------------------- MODULE OutboxPromise ----------------------------
(***************************************************************************)
(* What the notification outbox promises about one message per invoice and  *)
(* channel, whoever scans and whatever fails:                              *)
(*   - nothing is sent for an invoice that has no row, or whose row says    *)
(*     that the customer cannot be reached;                                *)
(*   - a row is never taken back, an unreachable one never changes;         *)
(*   - a row says "sent" only if the provider took the message;             *)
(*   - and as long as no two scans overlap, "sent" and "dead" are final and *)
(*     nothing is sent after either.                                       *)
(***************************************************************************)
EXTENDS Integers

CONSTANT Keys        \* an invoice and a channel

VARIABLES
  phase,             \* what the committed row says
  mails,             \* how many times the provider took the message
  overlapped         \* two scans were under way at once

promiseVars == <<phase, mails, overlapped>>

\* "failed" is tried again, "dead" has used up its attempts, "unreachable" had
\* no address to begin with.
Phases == {"none", "queued", "sent", "failed", "dead", "unreachable"}

\* What one transaction may make of a row.
Moves(k, apart) ==
  CASE phase[k] = "none" -> {"queued", "unreachable"}
    [] phase[k] \in {"queued", "failed"} -> {"sent", "failed", "dead"}
    [] phase[k] \in {"sent", "dead"} -> IF apart THEN {} ELSE {"sent", "failed", "dead"}
    [] OTHER -> {}

PromiseInit ==
  /\ phase = [k \in Keys |-> "none"]
  /\ mails = [k \in Keys |-> 0]
  /\ overlapped = FALSE

CommitPhases ==
  /\ phase' \in [Keys -> Phases]
  /\ \A k \in Keys :
       /\ phase'[k] # phase[k] => phase'[k] \in Moves(k, ~overlapped)
       /\ phase'[k] = "sent" => mails[k] > 0
  /\ UNCHANGED <<mails, overlapped>>

DeliverMail(k) ==
  /\ phase[k] \notin {"none", "unreachable"}
  /\ ~overlapped => phase[k] \notin {"sent", "dead"}
  /\ mails' = [mails EXCEPT ![k] = @ + 1]
  /\ UNCHANGED <<phase, overlapped>>

Overlap ==
  /\ overlapped' = TRUE
  /\ UNCHANGED <<phase, mails>>

PromiseNext == CommitPhases \/ (\E k \in Keys : DeliverMail(k)) \/ Overlap

PromiseSpec == PromiseInit /\ [][PromiseNext]_promiseVars
=============================================================================
