----------------------------- MODULE OutboxProofs -----------------------------
(***************************************************************************)
(* Proofs about NotificationOutbox, for any invoices, scans, attempts and   *)
(* faults: types, that every step of the scans is one OutboxPromise allows  *)
(* (or none), and that scans which do not overlap never send a message      *)
(* again without a fault.                                                  *)
(***************************************************************************)
EXTENDS NotificationOutbox, TLAPS

RowMap == UNION {[S -> Row] : S \in SUBSET Keys}

Types ==
  /\ billed \in SUBSET Invoices
  /\ outbox \in [Keys -> Row \cup {NoRow}]
  /\ delivered \in [Keys -> Nat]
  /\ pc \in [Scanners -> {"idle", "email", "sms", "read", "send"}]
  /\ todo \in [Scanners -> SUBSET Keys]
  /\ cur \in [Scanners -> Keys \cup {NoKey}]
  /\ waits \in SUBSET Scanners
  /\ answer \in [Scanners -> {"none", "sent", "error"}]
  /\ view \in [Scanners -> RowMap]
  /\ dirty \in [Scanners -> RowMap]
  /\ faults \in 0..MaxFaults
  /\ overlapped \in BOOLEAN

\* A key whose row says that nobody can be reached, and a row that fits its key.
Unreachable(k) == k[2] = "EMAIL" /\ k[1] \notin Emailed
Fits(k, row) == IF Unreachable(k) THEN row = NewRow(k) ELSE row.error # "nofile"

\* A row is SENT only after the provider took the message.
Honest(k, row) == row.status = "SENT" => delivered[k] > 0

\* The keys of a scan's transaction.
Flushed(s) == DOMAIN dirty[s]
Seen(s) == DOMAIN view[s]

Committed == \A k \in Keys : outbox[k] # NoRow => Fits(k, outbox[k]) /\ Honest(k, outbox[k])

Pending(s) == \A k \in Flushed(s) : Fits(k, dirty[s][k]) /\ Honest(k, dirty[s][k])

\* No two transactions hold the same row.
Exclusive == \A s, t \in Scanners : s # t => Flushed(s) \cap Flushed(t) = {}

Resting(s) ==
  /\ pc[s] = "idle" => todo[s] = {}
  /\ pc[s] \in {"idle", "read"} => cur[s] = NoKey /\ Flushed(s) = {}

Inserting(s) ==
  pc[s] \in {"email", "sms"} =>
    \A k \in Flushed(s) : outbox[k] = NoRow /\ dirty[s][k] = NewRow(k)

Sending(s) ==
  pc[s] = "send" =>
    /\ Flushed(s) \subseteq Seen(s) /\ todo[s] \subseteq Seen(s) \ Flushed(s)
    /\ cur[s] # NoKey => /\ cur[s] \in Seen(s) \ (Flushed(s) \cup todo[s])
                         /\ answer[s] = "sent" => delivered[cur[s]] > 0
    /\ \A k \in Flushed(s) : dirty[s][k].status # "QUEUED"
    /\ \A k \in Seen(s) :
         /\ outbox[k] # NoRow /\ ~Unreachable(k)
         /\ Sendable(view[s][k])
         /\ view[s][k].status = "FAILED" => outbox[k].status # "QUEUED"

Local(s) == Resting(s) /\ Pending(s) /\ Inserting(s) /\ Sending(s)

\* Scans that do not overlap find the outbox as they read it.
Alone ==
  ~overlapped =>
    \A s \in Scanners :
      /\ \A t \in Scanners : s # t => pc[s] = "idle" \/ pc[t] = "idle"
      /\ pc[s] = "send" => \A k \in Seen(s) : outbox[k] = view[s][k]

\* The message of k left, and a row says so or is about to.
Noted(k) ==
  \/ outbox[k] # NoRow /\ outbox[k].status = "SENT"
  \/ \E s \in Scanners :
       /\ pc[s] = "send"
       /\ \/ cur[s] = k /\ answer[s] = "sent"
          \/ k \in Flushed(s) /\ dirty[s][k].status = "SENT"

Counted ==
  ~overlapped =>
    \A k \in Keys : delivered[k] <= faults \/ (delivered[k] <= faults + 1 /\ Noted(k))

OutboxInv == Types /\ Committed /\ Exclusive /\ (\A s \in Scanners : Local(s)) /\ Alone /\ Counted
-----------------------------------------------------------------------------
(* Rows and tables of rows. *)

LEMMA NoRowsTyped == NoRows \in RowMap /\ DOMAIN NoRows = {}
BY DEF NoRows, RowMap

LEMMA RowMapUse ==
  ASSUME NEW f \in RowMap
  PROVE  DOMAIN f \subseteq Keys /\ \A k \in DOMAIN f : f[k] \in Row
BY DEF RowMap

\* One row is written, the others are kept.
LEMMA FlushRow ==
  ASSUME NEW f \in RowMap, NEW k \in Keys, NEW row \in Row
  PROVE  LET g == Flush(f, k, row)
         IN  /\ g \in RowMap /\ DOMAIN g = DOMAIN f \cup {k} /\ g[k] = row
             /\ \A l \in DOMAIN f : l # k => g[l] = f[l]
<1> DEFINE g == [l \in DOMAIN f \cup {k} |-> IF l = k THEN row ELSE f[l]]
<1>1. DOMAIN f \cup {k} \in SUBSET Keys /\ \A x \in DOMAIN f \cup {k} : g[x] \in Row
  BY RowMapUse
<1>2. g \in [DOMAIN f \cup {k} -> Row]
  BY <1>1
<1>3. g \in RowMap
  BY <1>1, <1>2 DEF RowMap
<1> QED BY <1>3 DEF Flush

LEMMA NewRowTyped ==
  ASSUME NEW k \in Keys
  PROVE  /\ NewRow(k) \in Row /\ NewRow(k) # NoRow
         /\ Fits(k, NewRow(k)) /\ NewRow(k).status # "SENT"
BY OutboxNulls DEF NewRow, Row, Fits, Unreachable

\* A row that is due has somebody to reach.
LEMMA DueIsReachable ==
  ASSUME NEW k \in Keys, NEW row \in Row, Fits(k, row), Sendable(row)
  PROVE  ~Unreachable(k) /\ row.status # "SENT"
BY DEF Sendable, Fits, NewRow, Unreachable, Row

LEMMA UpdatedTyped ==
  ASSUME NEW k \in Keys, NEW row \in Row, NEW old \in Row, NEW said \in {"sent", "error"},
         ~Unreachable(k), Fits(k, row), Honest(k, row), said = "sent" => delivered[k] > 0,
         Sendable(old), old.status = "FAILED" => row.status # "QUEUED"
  PROVE  LET new == Updated(row, old, said)
         IN  /\ new \in Row /\ Fits(k, new) /\ Honest(k, new)
             /\ new.status # "QUEUED"
             /\ said = "sent" => new.status = "SENT"
<1> DEFINE st == IF said = "sent" THEN "SENT"
                 ELSE IF old.status = "FAILED" THEN row.status ELSE "FAILED"
           at == IF said = "sent" THEN row.attempts ELSE old.attempts + 1
           er == IF said = "sent" THEN row.error
                 ELSE IF old.error = "provider" THEN row.error ELSE "provider"
           new == Updated(row, old, said)
<1>1. row.error \in {"none", "provider"} /\ row.status \in {"QUEUED", "SENT", "FAILED"}
  BY DEF Row, Fits
<1>2. new \in Row /\ new.status = st /\ new.error = er
  <2>1. CASE said = "sent"
    <3>1. new = [row EXCEPT !.status = "SENT"]
      BY <2>1 DEF Updated
    <3> QED BY <2>1, <3>1 DEF Row
  <2>2. CASE said # "sent"
    <3>1. new = [row EXCEPT !.status = st, !.attempts = at, !.error = er]
      BY <2>2 DEF Updated
    <3>2. st \in {"QUEUED", "SENT", "FAILED"} /\ at \in Nat /\ er \in {"none", "provider"}
      BY <1>1, <2>2 DEF Row
    <3> HIDE DEF st, at, er
    <3> QED BY <3>1, <3>2 DEF Row
  <2> QED BY <2>1, <2>2
<1>3. st \in {"SENT", "FAILED"} /\ (st = "SENT" => delivered[k] > 0) /\ er # "nofile"
  BY <1>1 DEF Honest
<1> HIDE DEF new
<1>4. Fits(k, new) /\ Honest(k, new) /\ new.status # "QUEUED" /\ (said = "sent" => new.status = "SENT")
  BY <1>2, <1>3 DEF Fits, Honest
<1> QED BY <1>2, <1>4 DEF new
-----------------------------------------------------------------------------
(* One scan moves: what the others keep. *)

OnlyMoves(s) ==
  \A t \in Scanners \ {s} :
    /\ pc'[t] = pc[t] /\ todo'[t] = todo[t] /\ cur'[t] = cur[t] /\ answer'[t] = answer[t]
    /\ view'[t] = view[t] /\ dirty'[t] = dirty[t]

\* The rows that are committed are nobody else's, and none goes back to QUEUED.
Gentle(s) ==
  \A k \in Keys :
    \/ outbox'[k] = outbox[k]
    \/ /\ outbox'[k] # NoRow
       /\ \A t \in Scanners \ {s} : k \notin Flushed(t)
       /\ outbox[k] # NoRow => outbox'[k].status # "QUEUED"

LEMMA OthersLocal ==
  ASSUME OutboxInv, NEW s \in Scanners, OnlyMoves(s), Types', Gentle(s),
         \A k \in Keys : delivered[k] <= delivered'[k]
  PROVE  \A t \in Scanners \ {s} : Local(t)'
<1> SUFFICES ASSUME NEW t \in Scanners \ {s}
             PROVE  Local(t)'
  OBVIOUS
<1>1. /\ pc'[t] = pc[t] /\ todo'[t] = todo[t] /\ cur'[t] = cur[t] /\ answer'[t] = answer[t]
      /\ view'[t] = view[t] /\ dirty'[t] = dirty[t]
  BY DEF OnlyMoves
<1>2. Local(t)
  BY DEF OutboxInv
<1>3. Flushed(t) \subseteq Keys /\ Seen(t) \subseteq Keys
  BY RowMapUse DEF OutboxInv, Types, Flushed, Seen
<1>4. \A k \in Keys : delivered[k] \in Nat /\ delivered'[k] \in Nat
  BY DEF OutboxInv, Types
<1>5. Resting(t)'
  BY <1>1, <1>2 DEF Local, Resting, Flushed
<1>6. Pending(t)'
  BY <1>1, <1>2, <1>3, <1>4 DEF Local, Pending, Flushed, Fits, Honest, Unreachable, NewRow
<1>7. Inserting(t)'
  BY <1>1, <1>2, <1>3 DEF Local, Inserting, Flushed, Gentle, NewRow
<1>8. Sending(t)'
  <2> SUFFICES ASSUME pc[t] = "send"
               PROVE  Sending(t)'
    BY <1>1 DEF Sending
  <2>1. Sending(t)!2
    BY <1>2 DEF Local, Sending
  <2>2. \A k \in Seen(t) : /\ outbox'[k] # NoRow
                           /\ view[t][k].status = "FAILED" => outbox'[k].status # "QUEUED"
    BY <2>1, <1>3 DEF Gentle
  <2>3. cur[t] # NoKey => (answer[t] = "sent" => delivered'[cur[t]] > 0)
    BY <2>1, <1>3, <1>4
  <2> QED BY <1>1, <2>1, <2>2, <2>3 DEF Sending, Flushed, Seen, Unreachable, Sendable
<1> QED BY <1>5, <1>6, <1>7, <1>8 DEF Local

LEMMA StaysExclusive ==
  ASSUME Exclusive, NEW s \in Scanners, OnlyMoves(s),
         \A k \in Flushed(s)' : k \in Flushed(s) \/ \A t \in Scanners \ {s} : k \notin Flushed(t)
  PROVE  Exclusive'
<1>1. \A t \in Scanners \ {s} : Flushed(t)' = Flushed(t)
  BY DEF OnlyMoves, Flushed
<1>2. \A t \in Scanners \ {s} : Flushed(s)' \cap Flushed(t) = {}
  BY DEF Exclusive
<1> QED BY <1>1, <1>2 DEF Exclusive

LEMMA StaysAlone ==
  ASSUME Alone, NEW s \in Scanners, OnlyMoves(s), overlapped' = overlapped, pc[s] # "idle",
         ~overlapped /\ pc'[s] = "send" => \A k \in Seen(s)' : outbox'[k] = view'[s][k]
  PROVE  Alone'
<1> SUFFICES ASSUME ~overlapped
             PROVE  Alone'
  BY DEF Alone
<1>1. \A t \in Scanners \ {s} : pc[t] = "idle" /\ pc'[t] = "idle"
  BY DEF Alone, OnlyMoves
<1> QED BY <1>1 DEF Alone

LEMMA StaysNoted ==
  ASSUME NEW s \in Scanners, OnlyMoves(s), pc[s] # "send", NEW k \in Keys, Noted(k),
         outbox[k] # NoRow /\ outbox[k].status = "SENT" => outbox'[k] = outbox[k]
  PROVE  Noted(k)'
<1>1. CASE outbox[k] # NoRow /\ outbox[k].status = "SENT"
  BY <1>1 DEF Noted
<1>2. ASSUME NEW t \in Scanners, pc[t] = "send",
             \/ cur[t] = k /\ answer[t] = "sent"
             \/ k \in Flushed(t) /\ dirty[t][k].status = "SENT"
      PROVE  Noted(k)'
  <2>1. t \in Scanners \ {s}
    BY <1>2
  <2> QED BY <1>2, <2>1 DEF OnlyMoves, Noted, Flushed
<1> QED BY <1>1, <1>2 DEF Noted

\* A step that neither commits nor sends.
LEMMA QuietStep ==
  ASSUME OutboxInv, NEW s \in Scanners, OnlyMoves(s), Types',
         UNCHANGED <<outbox, delivered>>, faults' = faults, pc[s] # "send",
         \A k \in Flushed(s)' : k \in Flushed(s) \/ \A t \in Scanners \ {s} : k \notin Flushed(t),
         Local(s)', Alone', overlapped => overlapped'
  PROVE  OutboxInv'
<1>1. Committed'
  BY DEF OutboxInv, Committed, Fits, Honest, Unreachable, NewRow
<1>2. Exclusive'
  BY StaysExclusive DEF OutboxInv
<1>3. \A t \in Scanners \ {s} : Local(t)'
  <2>1. Gentle(s)
    BY DEF Gentle
  <2>2. \A k \in Keys : delivered[k] <= delivered'[k]
    BY DEF OutboxInv, Types
  <2> QED BY <2>1, <2>2, OthersLocal
<1>4. Counted'
  BY StaysNoted DEF OutboxInv, Counted
<1> QED BY <1>1, <1>2, <1>3, <1>4 DEF OutboxInv
-----------------------------------------------------------------------------
(* The steps of a scan, one by one. *)

LEMMA InitInv ==
  ASSUME Init
  PROVE  OutboxInv
<1> USE DEF Init
<1>1. Types
  <2>1. faults \in 0..MaxFaults
    BY OutboxAssumption
  <2>2. view \in [Scanners -> RowMap] /\ dirty \in [Scanners -> RowMap]
    BY NoRowsTyped
  <2>3. outbox \in [Keys -> Row \cup {NoRow}] /\ cur \in [Scanners -> Keys \cup {NoKey}]
    OBVIOUS
  <2> QED BY <2>1, <2>2, <2>3 DEF Types
<1>2. \A s \in Scanners : Local(s)
  BY NoRowsTyped DEF Local, Resting, Pending, Inserting, Sending, Flushed
<1>3. Committed /\ Exclusive /\ Alone
  BY NoRowsTyped DEF Committed, Exclusive, Alone, Flushed
<1>4. Counted
  BY DEF Counted
<1> QED BY <1>1, <1>2, <1>3, <1>4 DEF OutboxInv

\* Nothing the invariant speaks about has changed.
LEMMA SameInv ==
  ASSUME OutboxInv, Types',
         UNCHANGED <<outbox, delivered, pc, todo, cur, answer, view, dirty, faults, overlapped>>
  PROVE  OutboxInv'
BY DEF OutboxInv, Committed, Exclusive, Local, Resting, Pending, Inserting, Sending, Alone, Counted,
       Noted, Flushed, Seen, Fits, Honest, Unreachable, NewRow, Sendable

LEMMA BillInv ==
  ASSUME OutboxInv, NEW i \in Invoices, Bill(i)
  PROVE  OutboxInv'
<1>1. Types'
  BY DEF Bill, OutboxInv, Types
<1> QED BY <1>1, SameInv DEF Bill

LEMMA WaitInv ==
  ASSUME OutboxInv, NEW s \in Scanners, Wait(s)
  PROVE  OutboxInv'
<1>1. Types'
  BY DEF Wait, OutboxInv, Types
<1> QED BY <1>1, SameInv DEF Wait

LEMMA ScanInv ==
  ASSUME OutboxInv, NEW s \in Scanners, Scan(s)
  PROVE  OutboxInv'
<1>1. Types'
  BY DEF Scan, OutboxInv, Types, Keys, Channels
<1>2. OnlyMoves(s)
  BY DEF Scan, OnlyMoves, OutboxInv, Types
<1>3. /\ pc'[s] = "email" /\ UNCHANGED <<outbox, delivered, cur, answer, view, dirty, faults>>
      /\ pc[s] = "idle"
  BY DEF Scan, OutboxInv, Types
<1>4. cur[s] = NoKey /\ Flushed(s) = {}
  BY <1>3 DEF OutboxInv, Local, Resting
<1>5. Local(s)'
  BY <1>3, <1>4 DEF Local, Resting, Pending, Inserting, Sending, Flushed
<1>6. Alone'
  <2> SUFFICES ASSUME ~overlapped'
               PROVE  Alone'
    BY DEF Alone
  <2>1. \A t \in Scanners \ {s} : pc[t] = "idle" /\ pc'[t] = "idle"
    BY <1>2 DEF Scan, OnlyMoves
  <2> QED BY <1>3, <2>1 DEF Alone
<1> QED BY <1>1, <1>2, <1>3, <1>5, <1>6, QuietStep DEF Scan, Flushed

LEMMA TakeInv ==
  ASSUME OutboxInv, NEW s \in Scanners, NEW k \in Keys, Take(s, k)
  PROVE  OutboxInv'
<1>1. Types'
  BY DEF Take, OutboxInv, Types
<1>2. OnlyMoves(s)
  BY DEF Take, OnlyMoves, OutboxInv, Types
<1>3. /\ UNCHANGED <<outbox, delivered, pc, answer, view, dirty, faults, overlapped>>
      /\ pc[s] \in {"email", "sms"}
  BY DEF Take
<1>4. Local(s)'
  BY <1>3 DEF OutboxInv, Local, Resting, Pending, Inserting, Sending, Flushed, Fits, Honest,
              Unreachable, NewRow
<1>5. Alone'
  BY <1>2, <1>3, StaysAlone DEF OutboxInv
<1> QED BY <1>1, <1>2, <1>3, <1>4, <1>5, QuietStep DEF Flushed

LEMMA InsertInv ==
  ASSUME OutboxInv, NEW s \in Scanners, InsertRow(s)
  PROVE  OutboxInv'
<1> DEFINE k == cur[s]
           g == Flush(dirty[s], k, NewRow(k))
<1>1. /\ k \in Keys /\ dirty[s] \in RowMap /\ NewRow(k) \in Row /\ Fits(k, NewRow(k))
      /\ NewRow(k).status # "SENT"
  BY NewRowTyped DEF InsertRow, HasStatement, OutboxInv, Types
<1>2. /\ g \in RowMap /\ DOMAIN g = Flushed(s) \cup {k} /\ g[k] = NewRow(k)
      /\ \A l \in Flushed(s) : l # k => g[l] = dirty[s][l]
  BY <1>1, FlushRow DEF Flushed
<1>3. dirty'[s] = IF outbox[k] = NoRow THEN g ELSE NoRows
  BY DEF InsertRow, OutboxInv, Types
<1> HIDE DEF g
<1>4. dirty' = [dirty EXCEPT ![s] = dirty'[s]] /\ dirty'[s] \in RowMap
  BY <1>2, <1>3, NoRowsTyped DEF InsertRow, OutboxInv, Types
<1>5. Types'
  BY <1>4 DEF InsertRow, OutboxInv, Types
<1>6. OnlyMoves(s)
  BY DEF InsertRow, OnlyMoves, OutboxInv, Types
<1>7. /\ UNCHANGED <<outbox, delivered, pc, todo, answer, view, faults, overlapped>>
      /\ pc[s] \in {"email", "sms"} /\ cur'[s] = NoKey
  BY DEF InsertRow, OutboxInv, Types
<1>8. /\ Inserting(s) /\ Pending(s)
  BY DEF OutboxInv, Local
<1>9. \A l \in Flushed(s)' : /\ l \in Flushed(s) \cup {k}
                             /\ outbox[l] = NoRow /\ dirty'[s][l] = NewRow(l)
                             /\ l \in Keys
  <2>1. CASE outbox[k] = NoRow
    <3>1. Flushed(s)' = Flushed(s) \cup {k} /\ dirty'[s] = g
      BY <1>2, <1>3, <2>1 DEF Flushed
    <3>2. \A l \in Flushed(s) : l \in Keys
      BY <1>1, RowMapUse DEF Flushed
    <3> HIDE DEF k
    <3> QED BY <1>1, <1>2, <1>7, <1>8, <2>1, <3>1, <3>2 DEF Inserting
  <2>2. CASE outbox[k] # NoRow
    BY <1>3, <2>2, NoRowsTyped DEF Flushed
  <2> QED BY <2>1, <2>2
<1>10. Local(s)'
  <2>1. \A l \in Keys : NewRow(l).status # "SENT" /\ Fits(l, NewRow(l))
    BY NewRowTyped
  <2>2. Inserting(s)'
    BY <1>7, <1>9 DEF Inserting, NewRow
  <2>3. Pending(s)'
    BY <1>9, <2>1 DEF Pending, Fits, Honest, NewRow, Unreachable
  <2> QED BY <1>7, <2>2, <2>3 DEF Local, Resting, Sending
<1>11. \A l \in Flushed(s)' : l \in Flushed(s) \/ \A t \in Scanners \ {s} : l \notin Flushed(t)
  BY <1>9 DEF InsertRow, Granted, Blocked, Flushed
<1>12. Alone'
  BY <1>6, <1>7, StaysAlone DEF OutboxInv
<1> QED BY <1>5, <1>6, <1>7, <1>10, <1>11, <1>12, QuietStep

LEMMA ScanSmsInv ==
  ASSUME OutboxInv, NEW s \in Scanners, ScanSms(s)
  PROVE  OutboxInv'
<1>1. Types'
  BY DEF ScanSms, OutboxInv, Types, Keys, Channels
<1>2. OnlyMoves(s)
  BY DEF ScanSms, OnlyMoves, OutboxInv, Types
<1>3. /\ UNCHANGED <<outbox, delivered, cur, answer, view, dirty, faults, overlapped>>
      /\ pc[s] = "email" /\ pc'[s] = "sms"
  BY DEF ScanSms, OutboxInv, Types
<1>4. Local(s)'
  BY <1>3 DEF OutboxInv, Local, Resting, Pending, Inserting, Sending, Flushed, Fits, Honest,
              Unreachable, NewRow
<1>5. Alone'
  BY <1>2, <1>3, StaysAlone DEF OutboxInv
<1> QED BY <1>1, <1>2, <1>3, <1>4, <1>5, QuietStep DEF Flushed

LEMMA ReadInv ==
  ASSUME OutboxInv, NEW s \in Scanners, ReadRows(s)
  PROVE  OutboxInv'
<1>1. PICK due, v : /\ due = {k \in Keys : Sendable(outbox[k])}
                    /\ v = [k \in due |-> outbox[k]]
  OBVIOUS
<1>2. /\ todo' = [todo EXCEPT ![s] = due] /\ view' = [view EXCEPT ![s] = v]
      /\ pc' = [pc EXCEPT ![s] = "send"] /\ pc[s] = "read"
      /\ UNCHANGED <<billed, outbox, delivered, cur, answer, waits, dirty, faults, overlapped>>
  BY <1>1 DEF ReadRows
<1>3. \A k \in due : k \in Keys /\ outbox[k] \in Row /\ outbox[k] # NoRow /\ v[k] = outbox[k]
                     /\ Sendable(outbox[k])
  BY <1>1 DEF Sendable, OutboxInv, Types
<1>4. v \in RowMap /\ DOMAIN v = due
  <2>1. v \in [due -> Row] /\ due \in SUBSET Keys
    BY <1>1, <1>3
  <2> QED BY <1>1, <2>1 DEF RowMap
<1>5. Types'
  BY <1>2, <1>3, <1>4 DEF OutboxInv, Types
<1>6. OnlyMoves(s)
  BY <1>2 DEF OnlyMoves, OutboxInv, Types
<1>7. /\ view'[s] = v /\ todo'[s] = due /\ pc'[s] = "send" /\ cur'[s] = NoKey
      /\ Seen(s)' = due /\ Flushed(s)' = {} /\ Flushed(s) = {}
  BY <1>2, <1>4 DEF OutboxInv, Types, Local, Resting, Seen, Flushed
<1>8. \A k \in due : ~Unreachable(k)
  BY <1>3, DueIsReachable DEF OutboxInv, Committed
<1>9. Local(s)'
  <2>1. Sending(s)'
    <3>1. \A k \in due : /\ outbox'[k] # NoRow /\ ~Unreachable(k) /\ Sendable(v[k])
                         /\ v[k].status = "FAILED" => outbox'[k].status # "QUEUED"
      BY <1>2, <1>3, <1>8
    <3> QED BY <1>7, <3>1 DEF Sending, Sendable, Unreachable
  <2>2. Pending(s)'
    BY <1>7 DEF Pending
  <2> QED BY <1>7, <2>1, <2>2 DEF Local, Resting, Inserting
<1>10. Alone'
  <2>1. \A k \in Seen(s)' : outbox'[k] = view'[s][k]
    BY <1>2, <1>3, <1>7
  <2> QED BY <1>2, <1>6, <2>1, StaysAlone DEF OutboxInv
<1> QED BY <1>2, <1>5, <1>6, <1>7, <1>9, <1>10, QuietStep

\* What a commit makes of a row.
LEMMA CommitUse ==
  ASSUME OutboxInv, NEW s \in Scanners, Commit(s)
  PROVE  /\ outbox' \in [Keys -> Row \cup {NoRow}]
         /\ dirty' \in [Scanners -> RowMap]
         /\ Flushed(s)' = {}
         /\ \A t \in Scanners \ {s} : dirty'[t] = dirty[t]
         /\ \A k \in Keys : outbox'[k] = IF k \in Flushed(s) THEN dirty[s][k] ELSE outbox[k]
         /\ \A k \in Flushed(s) : k \in Keys /\ dirty[s][k] \in Row /\ dirty[s][k] # NoRow
<1>1. \A k \in Flushed(s) : k \in Keys /\ dirty[s][k] \in Row /\ dirty[s][k] # NoRow
  BY RowMapUse, OutboxNulls DEF OutboxInv, Types, Flushed
<1>2. outbox' \in [Keys -> Row \cup {NoRow}]
  BY <1>1 DEF Commit, Flushed, OutboxInv, Types
<1>3. dirty' \in [Scanners -> RowMap] /\ dirty'[s] = NoRows
  BY NoRowsTyped DEF Commit, OutboxInv, Types
<1>4. \A t \in Scanners \ {s} : dirty'[t] = dirty[t]
  BY DEF Commit, OutboxInv, Types
<1>5. \A k \in Keys : outbox'[k] = IF k \in Flushed(s) THEN dirty[s][k] ELSE outbox[k]
  BY DEF Commit, Flushed
<1> QED BY <1>1, <1>2, <1>3, <1>4, <1>5, NoRowsTyped DEF Flushed

\* A commit leaves rows that fit and are true.
LEMMA CommitRowsGood ==
  ASSUME OutboxInv, NEW s \in Scanners, Commit(s), delivered' = delivered
  PROVE  Committed'
<1> SUFFICES ASSUME NEW k \in Keys, outbox'[k] # NoRow
             PROVE  Fits(k, outbox'[k]) /\ (outbox'[k].status = "SENT" => delivered[k] > 0)
  BY DEF Committed, Fits, Honest, Unreachable, NewRow
<1>1. CASE k \in Flushed(s)
  BY <1>1, CommitUse DEF OutboxInv, Local, Pending, Honest
<1>2. CASE k \notin Flushed(s)
  BY <1>2, CommitUse DEF OutboxInv, Committed, Honest
<1> QED BY <1>1, <1>2

LEMMA CommitRowsInv ==
  ASSUME OutboxInv, NEW s \in Scanners, CommitRows(s)
  PROVE  OutboxInv'
<1>1. /\ Commit(s) /\ pc' = [pc EXCEPT ![s] = "read"] /\ pc[s] \in {"email", "sms"}
      /\ UNCHANGED <<billed, delivered, todo, cur, answer, waits, view, faults, overlapped>>
      /\ cur[s] = NoKey
  BY DEF CommitRows, ListDone
<1>2. Types'
  BY <1>1, CommitUse DEF OutboxInv, Types
<1>3. OnlyMoves(s)
  BY <1>1, CommitUse DEF OnlyMoves, OutboxInv, Types
<1>4. pc'[s] = "read"
  BY <1>1 DEF OutboxInv, Types
<1>5. \A k \in Flushed(s) : outbox[k] = NoRow
  BY <1>1 DEF OutboxInv, Local, Inserting
<1>6. Committed'
  BY <1>1, CommitRowsGood
<1>7. Exclusive'
  BY <1>1, <1>3, CommitUse, StaysExclusive DEF OutboxInv
<1>8. Gentle(s)
  BY <1>1, <1>5, CommitUse DEF Gentle, OutboxInv, Exclusive
<1>9. \A t \in Scanners \ {s} : Local(t)'
  <2>1. \A k \in Keys : delivered[k] <= delivered'[k]
    BY <1>1 DEF OutboxInv, Types
  <2> QED BY <1>2, <1>3, <1>8, <2>1, OthersLocal
<1>10. Local(s)'
  <2>1. Flushed(s)' = {}
    BY <1>1, CommitUse
  <2> QED BY <1>1, <1>4, <2>1 DEF Local, Resting, Pending, Inserting, Sending
<1>11. Alone'
  BY <1>1, <1>3, <1>4, StaysAlone DEF OutboxInv
<1>12. Counted'
  <2> SUFFICES ASSUME ~overlapped, NEW k \in Keys, Noted(k)
               PROVE  Noted(k)'
    BY <1>1 DEF OutboxInv, Counted
  <2>1. outbox[k] # NoRow => outbox'[k] = outbox[k]
    BY <1>1, <1>5, CommitUse
  <2> QED BY <1>1, <1>3, <2>1, StaysNoted
<1> QED BY <1>2, <1>6, <1>7, <1>9, <1>10, <1>11, <1>12 DEF OutboxInv

\* What a scan that is sending knows of the row in hand or ahead.
LEMMA SeenUse ==
  ASSUME OutboxInv, NEW s \in Scanners, pc[s] = "send", NEW k \in Seen(s)
  PROVE  /\ k \in Keys /\ view[s][k] \in Row
         /\ outbox[k] \in Row /\ outbox[k] # NoRow
         /\ ~Unreachable(k) /\ Sendable(view[s][k])
         /\ view[s][k].status = "FAILED" => outbox[k].status # "QUEUED"
         /\ Fits(k, outbox[k]) /\ Honest(k, outbox[k])
         /\ ~overlapped => outbox[k] = view[s][k] /\ outbox[k].status # "SENT"
<1>1. k \in Keys /\ view[s][k] \in Row
  BY RowMapUse DEF OutboxInv, Types, Seen
<1>2. /\ outbox[k] # NoRow /\ ~Unreachable(k) /\ Sendable(view[s][k])
      /\ view[s][k].status = "FAILED" => outbox[k].status # "QUEUED"
  BY DEF OutboxInv, Local, Sending
<1>3. outbox[k] \in Row /\ Fits(k, outbox[k]) /\ Honest(k, outbox[k])
  BY <1>1, <1>2 DEF OutboxInv, Types, Committed
<1>4. ~overlapped => outbox[k] = view[s][k]
  BY DEF OutboxInv, Alone
<1>5. ~overlapped => outbox[k].status # "SENT"
  BY <1>1, <1>2, <1>3, <1>4, DueIsReachable
<1> QED BY <1>1, <1>2, <1>3, <1>4, <1>5

LEMMA FinishInv ==
  ASSUME OutboxInv, NEW s \in Scanners, FinishScan(s)
  PROVE  OutboxInv'
<1>1. /\ Commit(s) /\ pc' = [pc EXCEPT ![s] = "idle"] /\ pc[s] = "send"
      /\ view' = [view EXCEPT ![s] = NoRows]
      /\ UNCHANGED <<billed, delivered, todo, cur, answer, waits, faults, overlapped>>
      /\ todo[s] = {} /\ cur[s] = NoKey
  BY DEF FinishScan, ListDone
<1>2. Types'
  BY <1>1, CommitUse, NoRowsTyped DEF OutboxInv, Types
<1>3. OnlyMoves(s)
  BY <1>1, CommitUse DEF OnlyMoves, OutboxInv, Types
<1>4. pc'[s] = "idle"
  BY <1>1 DEF OutboxInv, Types
<1>5. \A k \in Flushed(s) : k \in Seen(s) /\ dirty[s][k].status # "QUEUED"
  BY <1>1 DEF OutboxInv, Local, Sending
<1>6. Committed'
  BY <1>1, CommitRowsGood
<1>7. Exclusive'
  BY <1>1, <1>3, CommitUse, StaysExclusive DEF OutboxInv
<1>8. Gentle(s)
  BY <1>1, <1>5, CommitUse DEF Gentle, OutboxInv, Exclusive
<1>9. \A t \in Scanners \ {s} : Local(t)'
  <2>1. \A k \in Keys : delivered[k] <= delivered'[k]
    BY <1>1 DEF OutboxInv, Types
  <2> QED BY <1>2, <1>3, <1>8, <2>1, OthersLocal
<1>10. Local(s)'
  <2>1. Flushed(s)' = {}
    BY <1>1, CommitUse
  <2> QED BY <1>1, <1>4, <2>1 DEF Local, Resting, Pending, Inserting, Sending
<1>11. Alone'
  BY <1>1, <1>3, <1>4, StaysAlone DEF OutboxInv
<1>12. Counted'
  <2> SUFFICES ASSUME ~overlapped, NEW k \in Keys, Noted(k)
               PROVE  outbox'[k] # NoRow /\ outbox'[k].status = "SENT"
    BY <1>1 DEF OutboxInv, Counted, Noted
  <2>1. CASE outbox[k] # NoRow /\ outbox[k].status = "SENT"
    <3>1. k \notin Flushed(s)
      BY <1>1, <1>5, <2>1, SeenUse
    <3> QED BY <1>1, <2>1, <3>1, CommitUse
  <2>2. CASE k \in Flushed(s) /\ dirty[s][k].status = "SENT"
    BY <1>1, <2>2, CommitUse
  <2>3. \A t \in Scanners \ {s} : pc[t] = "idle"
    BY <1>1 DEF OutboxInv, Alone
  <2>4. cur[s] # k
    BY <1>1, OutboxNulls
  <2> QED BY <2>1, <2>2, <2>3, <2>4 DEF Noted
<1> QED BY <1>2, <1>6, <1>7, <1>9, <1>10, <1>11, <1>12 DEF OutboxInv

LEMMA RecordInv ==
  ASSUME OutboxInv, NEW s \in Scanners, RecordAnswer(s)
  PROVE  OutboxInv'
<1>1. PICK k, said, new, g :
        /\ k = cur[s] /\ said = answer[s] /\ new = Updated(outbox[k], view[s][k], said)
        /\ g = Flush(dirty[s], k, new)
  OBVIOUS
<1>2. /\ pc[s] = "send" /\ k # NoKey
      /\ dirty' = [dirty EXCEPT ![s] = g]
      /\ cur' = [cur EXCEPT ![s] = NoKey] /\ answer' = [answer EXCEPT ![s] = "none"]
      /\ UNCHANGED <<billed, outbox, delivered, pc, todo, view, faults, overlapped>>
      /\ waits' \subseteq waits
      /\ \A t \in Scanners \ {s} : k \notin Flushed(t)
  BY <1>1 DEF RecordAnswer, HasStatement, Granted, Blocked, Flushed
<1>3. Sending(s)!2 /\ Pending(s)
  BY <1>2 DEF OutboxInv, Local, Sending
<1>4. /\ k \in Seen(s) \ (Flushed(s) \cup todo[s])
      /\ said = "sent" => delivered[k] > 0
      /\ said \in {"none", "sent", "error"}
  BY <1>1, <1>2, <1>3 DEF OutboxInv, Types
<1>5. /\ new \in Row /\ Fits(k, new) /\ Honest(k, new) /\ new.status # "QUEUED"
      /\ said = "sent" => new.status = "SENT"
  <2>1. /\ k \in Keys /\ view[s][k] \in Row /\ outbox[k] \in Row
        /\ ~Unreachable(k) /\ Sendable(view[s][k]) /\ Fits(k, outbox[k]) /\ Honest(k, outbox[k])
        /\ view[s][k].status = "FAILED" => outbox[k].status # "QUEUED"
    BY <1>2, <1>4, SeenUse
  <2>2. CASE said = "none"
    <3>1. new = Updated(outbox[k], view[s][k], "error")
      BY <1>1, <2>2 DEF Updated
    <3> QED BY <2>1, <2>2, <3>1, UpdatedTyped
  <2>3. CASE said # "none"
    BY <1>1, <1>4, <2>1, <2>3, UpdatedTyped
  <2> QED BY <2>2, <2>3
<1>6. /\ g \in RowMap /\ DOMAIN g = Flushed(s) \cup {k} /\ g[k] = new
      /\ \A l \in Flushed(s) : l # k => g[l] = dirty[s][l]
  <2>1. dirty[s] \in RowMap /\ k \in Keys
    BY <1>2, <1>4, SeenUse DEF OutboxInv, Types
  <2>2. PICK f : f = dirty[s]
    OBVIOUS
  <2>3. LET h == Flush(f, k, new)
        IN  /\ h \in RowMap /\ DOMAIN h = DOMAIN f \cup {k} /\ h[k] = new
            /\ \A l \in DOMAIN f : l # k => h[l] = f[l]
    BY <1>5, <2>1, <2>2, FlushRow
  <2> QED BY <1>1, <2>2, <2>3 DEF Flushed
<1>7. Types'
  BY <1>2, <1>6 DEF OutboxInv, Types
<1>8. OnlyMoves(s)
  BY <1>2 DEF OnlyMoves, OutboxInv, Types
<1>9. dirty'[s] = g /\ cur'[s] = NoKey /\ Flushed(s)' = Flushed(s) \cup {k}
  BY <1>2, <1>6 DEF OutboxInv, Types, Flushed
<1>10. Local(s)'
  <2>1. Pending(s)'
    <3> SUFFICES ASSUME NEW l \in Flushed(s) \cup {k}
                 PROVE  Fits(l, g[l]) /\ Honest(l, g[l])
      BY <1>2, <1>9 DEF Pending, Fits, Honest, Unreachable, NewRow
    <3>1. CASE l = k
      BY <1>5, <1>6, <3>1
    <3>2. CASE l # k
      BY <1>3, <1>6, <3>2 DEF Pending
    <3> QED BY <3>1, <3>2
  <2>2. Sending(s)'
    <3>1. \A l \in Flushed(s) \cup {k} : g[l].status # "QUEUED" /\ l \in Seen(s) /\ l \notin todo[s]
      BY <1>3, <1>4, <1>5, <1>6
    <3>2. todo'[s] = todo[s] /\ Seen(s)' = Seen(s) /\ view'[s] = view[s] /\ outbox' = outbox
      BY <1>2 DEF Seen
    <3> QED BY <1>3, <1>9, <3>1, <3>2 DEF Sending, Unreachable, Sendable
  <2> QED BY <1>2, <2>1, <2>2 DEF Local, Resting, Inserting
<1>11. Committed' /\ Exclusive' /\ \A t \in Scanners \ {s} : Local(t)'
  <2>1. Committed'
    BY <1>2 DEF OutboxInv, Committed, Fits, Honest, Unreachable, NewRow
  <2>2. Exclusive'
    BY <1>2, <1>8, <1>9, StaysExclusive DEF OutboxInv
  <2>3. Gentle(s) /\ \A l \in Keys : delivered[l] <= delivered'[l]
    BY <1>2 DEF Gentle, OutboxInv, Types
  <2> QED BY <1>7, <1>8, <2>1, <2>2, <2>3, OthersLocal
<1>12. Alone'
  <2>1. ~overlapped => \A l \in Seen(s)' : outbox'[l] = view'[s][l]
    BY <1>2 DEF OutboxInv, Alone, Seen
  <2> QED BY <1>2, <1>8, <2>1, StaysAlone DEF OutboxInv
<1>13. Counted'
  <2> SUFFICES ASSUME ~overlapped, NEW l \in Keys, Noted(l)
               PROVE  Noted(l)'
    BY <1>2 DEF OutboxInv, Counted
  <2>1. CASE outbox[l] # NoRow /\ outbox[l].status = "SENT"
    BY <1>2, <2>1 DEF Noted
  <2>2. CASE l = k /\ said = "sent"
    BY <1>2, <1>5, <1>6, <1>9, <2>2 DEF Noted
  <2>3. CASE l \in Flushed(s) /\ dirty[s][l].status = "SENT"
    <3>1. g[l] = dirty[s][l]
      BY <1>4, <1>6, <2>3
    <3> QED BY <1>2, <1>9, <2>3, <3>1 DEF Noted
  <2>4. \A t \in Scanners \ {s} : pc[t] = "idle"
    BY <1>2 DEF OutboxInv, Alone
  <2> QED BY <1>1, <2>1, <2>2, <2>3, <2>4 DEF Noted
<1> QED BY <1>7, <1>10, <1>11, <1>12, <1>13 DEF OutboxInv

LEMMA SendInv ==
  ASSUME OutboxInv, NEW s \in Scanners, NEW k \in Keys, NEW said \in Answers, Send(s, k, said)
  PROVE  OutboxInv'
<1>1. /\ pc[s] = "send" /\ cur[s] = NoKey /\ k \in todo[s]
      /\ said = "lost" => faults < MaxFaults
      /\ cur' = [cur EXCEPT ![s] = k] /\ todo' = [todo EXCEPT ![s] = @ \ {k}]
      /\ answer' = [answer EXCEPT ![s] = IF said = "sent" THEN "sent" ELSE "error"]
      /\ delivered' = [delivered EXCEPT ![k] = IF said = "refused" THEN @ ELSE @ + 1]
      /\ faults' = IF said = "lost" THEN faults + 1 ELSE faults
      /\ UNCHANGED <<billed, outbox, pc, waits, view, dirty, overlapped>>
  BY DEF Send
<1>2. faults \in Nat /\ faults' \in 0..MaxFaults /\ faults <= faults'
  BY <1>1, OutboxAssumption DEF OutboxInv, Types, OutboxAssumption
<1>3. /\ \A l \in Keys : delivered[l] \in Nat /\ delivered'[l] \in Nat /\ delivered[l] <= delivered'[l]
      /\ \A l \in Keys : l # k => delivered'[l] = delivered[l]
      /\ delivered'[k] = IF said = "refused" THEN delivered[k] ELSE delivered[k] + 1
      /\ delivered' \in [Keys -> Nat]
  BY <1>1 DEF OutboxInv, Types
<1>4. Types'
  BY <1>1, <1>2, <1>3 DEF OutboxInv, Types
<1>5. OnlyMoves(s)
  BY <1>1 DEF OnlyMoves, OutboxInv, Types
<1>6. /\ cur'[s] = k /\ todo'[s] = todo[s] \ {k}
      /\ answer'[s] = (IF said = "sent" THEN "sent" ELSE "error")
  BY <1>1 DEF OutboxInv, Types
<1>7. Sending(s)!2 /\ Pending(s)
  BY <1>1 DEF OutboxInv, Local, Sending
<1>8. Committed'
  BY <1>1, <1>3 DEF OutboxInv, Committed, Fits, Honest, Unreachable, NewRow
<1>9. Exclusive'
  BY <1>1 DEF OutboxInv, Exclusive, Flushed
<1>10. \A t \in Scanners \ {s} : Local(t)'
  <2>1. Gentle(s)
    BY <1>1 DEF Gentle
  <2> QED BY <1>3, <1>4, <1>5, <2>1, OthersLocal
<1>11. Local(s)'
  <2>1. Pending(s)'
    <3>1. Flushed(s) \subseteq Keys
      BY RowMapUse DEF OutboxInv, Types, Flushed
    <3> QED BY <1>1, <1>3, <1>7, <3>1 DEF Pending, Fits, Honest, Unreachable, NewRow, Flushed
  <2>2. Sending(s)'
    <3>1. k \in Seen(s) \ Flushed(s)
      BY <1>1, <1>7
    <3>2. answer'[s] = "sent" => delivered'[k] > 0
      BY <1>3, <1>6
    <3>3. /\ Flushed(s)' = Flushed(s) /\ Seen(s)' = Seen(s) /\ dirty'[s] = dirty[s]
          /\ view'[s] = view[s] /\ outbox' = outbox
      BY <1>1 DEF Flushed, Seen
    <3> QED BY <1>6, <1>7, <3>1, <3>2, <3>3 DEF Sending, Unreachable, Sendable
  <2> QED BY <1>1, <2>1, <2>2 DEF Local, Resting, Inserting
<1>12. Alone'
  <2>1. ~overlapped => \A l \in Seen(s)' : outbox'[l] = view'[s][l]
    BY <1>1 DEF OutboxInv, Alone, Seen
  <2> QED BY <1>1, <1>5, <2>1, StaysAlone DEF OutboxInv
<1>13. Counted'
  <2> SUFFICES ASSUME ~overlapped, NEW l \in Keys
               PROVE  delivered'[l] <= faults' \/ (delivered'[l] <= faults' + 1 /\ Noted(l)')
    BY <1>1 DEF Counted
  <2>1. delivered[l] <= faults \/ (delivered[l] <= faults + 1 /\ Noted(l))
    BY DEF OutboxInv, Counted
  <2>2. \A t \in Scanners \ {s} : pc[t] = "idle"
    BY <1>1 DEF OutboxInv, Alone
  <2>3. CASE l = k
    <3>1. k \in Seen(s) \ Flushed(s)
      BY <1>1, <1>7
    <3>2. outbox[k].status # "SENT"
      BY <1>1, <3>1, SeenUse
    <3>3. ~Noted(k)
      BY <1>1, <2>2, <3>1, <3>2, OutboxNulls DEF Noted
    <3>4. delivered[k] <= faults
      BY <2>1, <2>3, <3>3
    <3>5. CASE said = "sent"
      <4>1. Noted(k)'
        BY <1>1, <1>6, <3>5 DEF Noted
      <4> QED BY <1>2, <1>3, <2>3, <3>4, <3>5, <4>1
    <3>6. CASE said = "lost"
      BY <1>1, <1>2, <1>3, <2>3, <3>4, <3>6
    <3>7. CASE said = "refused"
      BY <1>2, <1>3, <2>3, <3>4, <3>7
    <3> QED BY <3>5, <3>6, <3>7 DEF Answers
  <2>4. CASE l # k
    <3>1. ASSUME Noted(l)
          PROVE  Noted(l)'
      <4>1. cur[s] # l
        BY <1>1, OutboxNulls
      <4> QED BY <1>1, <2>2, <3>1, <4>1 DEF Noted, Flushed
    <3> QED BY <1>2, <1>3, <2>1, <2>4, <3>1
  <2> QED BY <2>3, <2>4
<1> QED BY <1>4, <1>8, <1>9, <1>10, <1>11, <1>12, <1>13 DEF OutboxInv

\* A rollback forgets what the scan had flushed, and nothing else.
LEMMA AbortInv ==
  ASSUME OutboxInv, NEW s \in Scanners, Abort(s), faults' \in 0..MaxFaults, faults <= faults',
         pc[s] # "idle", overlapped \/ faults < faults'
  PROVE  OutboxInv'
<1>1. /\ pc' = [pc EXCEPT ![s] = "idle"] /\ todo' = [todo EXCEPT ![s] = {}]
      /\ cur' = [cur EXCEPT ![s] = NoKey] /\ answer' = [answer EXCEPT ![s] = "none"]
      /\ waits' \subseteq waits
      /\ view' = [view EXCEPT ![s] = NoRows] /\ dirty' = [dirty EXCEPT ![s] = NoRows]
      /\ UNCHANGED <<billed, outbox, delivered, overlapped>>
  BY DEF Abort
<1>2. Types'
  BY <1>1, NoRowsTyped DEF OutboxInv, Types
<1>3. OnlyMoves(s)
  BY <1>1 DEF OnlyMoves, OutboxInv, Types
<1>4. pc'[s] = "idle" /\ todo'[s] = {} /\ cur'[s] = NoKey /\ Flushed(s)' = {}
  BY <1>1, NoRowsTyped DEF OutboxInv, Types, Flushed
<1>5. Local(s)'
  BY <1>4 DEF Local, Resting, Pending, Inserting, Sending
<1>6. Committed'
  BY <1>1 DEF OutboxInv, Committed, Fits, Honest, Unreachable, NewRow
<1>7. Exclusive'
  BY <1>3, <1>4, StaysExclusive DEF OutboxInv
<1>8. \A t \in Scanners \ {s} : Local(t)'
  <2>1. Gentle(s) /\ \A k \in Keys : delivered[k] <= delivered'[k]
    BY <1>1 DEF Gentle, OutboxInv, Types
  <2> QED BY <1>2, <1>3, <2>1, OthersLocal
<1>9. Alone'
  BY <1>1, <1>3, <1>4, StaysAlone DEF OutboxInv
<1>10. Counted'
  <2> SUFFICES ASSUME ~overlapped, NEW k \in Keys
               PROVE  delivered[k] <= faults'
    BY <1>1 DEF Counted
  <2>1. delivered[k] <= faults + 1 /\ delivered[k] \in Nat /\ faults \in Int /\ faults' \in Int
    BY OutboxAssumption DEF OutboxInv, Counted, Types, OutboxAssumption
  <2> QED BY <2>1
<1> QED BY <1>2, <1>5, <1>6, <1>7, <1>8, <1>9, <1>10 DEF OutboxInv

LEMMA CrashInv ==
  ASSUME OutboxInv, NEW s \in Scanners, Crash(s)
  PROVE  OutboxInv'
<1>1. faults' \in 0..MaxFaults /\ faults < faults' /\ faults <= faults'
  BY OutboxAssumption DEF Crash, OutboxInv, Types, OutboxAssumption
<1> QED BY <1>1, AbortInv DEF Crash

\* Transactions that wait in a circle belong to scans that overlap.
LEMMA DeadlockInv ==
  ASSUME OutboxInv, NEW s \in Scanners, DeadlockVictim(s)
  PROVE  OutboxInv'
<1>1. PICK o \in Scanners : Blocked(s, o) /\ \E p \in Scanners : Blocked(o, p)
  BY DEF DeadlockVictim, OutboxInv, Types
<1>2. \A t, p \in Scanners : Blocked(t, p) => pc[t] # "idle"
  <2> SUFFICES ASSUME NEW t \in Scanners, NEW p \in Scanners, Blocked(t, p)
               PROVE  pc[t] # "idle"
    OBVIOUS
  <2>1. cur[t] \in Keys
    BY RowMapUse DEF Blocked, OutboxInv, Types
  <2>2. cur[t] # NoKey
    BY <2>1, OutboxNulls
  <2> QED BY <2>2 DEF OutboxInv, Local, Resting
<1>3. pc[s] # "idle" /\ pc[o] # "idle" /\ s # o
  BY <1>1, <1>2 DEF Blocked
<1>4. overlapped
  BY <1>3 DEF OutboxInv, Alone
<1>5. faults' \in 0..MaxFaults /\ faults <= faults'
  BY OutboxAssumption DEF DeadlockVictim, OutboxInv, Types, OutboxAssumption
<1> QED BY <1>3, <1>4, <1>5, AbortInv DEF DeadlockVictim

LEMMA NextInv ==
  ASSUME OutboxInv, [Next]_vars
  PROVE  OutboxInv'
<1>1. CASE UNCHANGED vars
  <2>1. Types'
    BY <1>1 DEF vars, OutboxInv, Types
  <2> QED BY <1>1, <2>1, SameInv DEF vars
<1>2. CASE \E i \in Invoices : Bill(i)
  BY <1>2, BillInv
<1>3. CASE \E s \in Scanners : Crash(s)
  BY <1>3, CrashInv
<1>4. CASE \E s \in Scanners : ScanStep(s)
  BY <1>4, ScanInv, ScanSmsInv, CommitRowsInv, ReadInv, FinishInv, WaitInv, InsertInv, RecordInv,
     DeadlockInv, TakeInv, SendInv DEF ScanStep
<1> QED BY <1>1, <1>2, <1>3, <1>4 DEF Next

\* The inductive invariant of the outbox.
THEOREM Invariance == Spec => []OutboxInv
<1>1. Init => OutboxInv
  BY InitInv
<1>2. OutboxInv /\ [Next]_vars => OutboxInv'
  BY NextInv
<1> QED BY <1>1, <1>2, PTL DEF Spec

\* The type invariant of the outbox and of the scans.
THEOREM TypeCorrect == Spec => []TypeOK
<1>1. OutboxInv => TypeOK
  BY RowMapUse DEF OutboxInv, Types, TypeOK
<1> QED BY <1>1, Invariance, PTL

\* As long as no two scans overlap, a message goes out once, and once more for
\* each crash or lost answer at most, however often the scan runs
\* (docs/NOTIFICATIONS.md:15).
THEOREM RerunIsSafe == Spec => []RerunNeverDoubles
<1>1. OutboxInv => RerunNeverDoubles
  <2> SUFFICES ASSUME OutboxInv, ~overlapped, NEW k \in Keys
               PROVE  delivered[k] <= 1 + faults
    BY DEF RerunNeverDoubles
  <2>1. delivered[k] \in Nat /\ faults \in Nat
    BY OutboxAssumption DEF OutboxInv, Types, OutboxAssumption
  <2> QED BY <2>1 DEF OutboxInv, Counted
<1> QED BY <1>1, Invariance, PTL
-----------------------------------------------------------------------------
(* The outbox keeps its promise. *)

\* What a row tells, and how it changes.
LEMMA PhaseRange ==
  ASSUME NEW row \in Row \cup {NoRow}
  PROVE  /\ Phase(row) \in {"none", "queued", "sent", "failed", "dead", "unreachable"}
         /\ Phase(row) = "none" <=> row = NoRow
         /\ Phase(row) = "queued" <=> row # NoRow /\ row.status = "QUEUED"
         /\ Phase(row) = "sent" <=> row # NoRow /\ row.status = "SENT"
         /\ Phase(row) = "unreachable" => row # NoRow /\ row.error = "nofile"
         /\ Phase(row) = "dead" => row # NoRow /\ row.status = "FAILED" /\ row.attempts >= MaxAttempts
BY OutboxNulls, OutboxAssumption DEF Phase, Row, OutboxAssumption

LEMMA SendablePhase ==
  ASSUME NEW k \in Keys, NEW row \in Row, Fits(k, row), Sendable(row)
  PROVE  Phase(row) \in {"queued", "failed"}
BY OutboxNulls, OutboxAssumption DEF Phase, Row, Sendable, OutboxAssumption

LEMMA ReachablePhase ==
  ASSUME NEW k \in Keys, NEW row \in Row, Fits(k, row), ~Unreachable(k)
  PROVE  Phase(row) \in {"queued", "sent", "failed", "dead"}
BY OutboxNulls, OutboxAssumption DEF Phase, Row, Fits, OutboxAssumption

LEMMA InitPromise ==
  ASSUME Init
  PROVE  Promise!PromiseInit
BY DEF Init, Promise!PromiseInit, Phase

\* The rows, the deliveries and the overlap are as they were.
LEMMA StutterPromise ==
  ASSUME UNCHANGED <<outbox, delivered, overlapped>>
  PROVE  UNCHANGED Promise!promiseVars
BY DEF Promise!promiseVars, Phase

\* Every row of a commit moves as the promise allows.
LEMMA CommitPromise ==
  ASSUME OutboxInv, OutboxInv', NEW s \in Scanners, Commit(s),
         UNCHANGED <<delivered, overlapped>>,
         \A k \in Flushed(s) :
           LET new == Phase(dirty[s][k])
           IN  CASE Phase(outbox[k]) = "none" -> new \in {"queued", "unreachable"}
                 [] Phase(outbox[k]) \in {"queued", "failed"} -> new \in {"sent", "failed", "dead"}
                 [] OTHER -> overlapped /\ Phase(outbox[k]) \in {"sent", "dead"}
                               /\ new \in {"sent", "failed", "dead"}
  PROVE  Promise!CommitPhases
<1> DEFINE ph == [k \in Keys |-> Phase(outbox[k])]
           phn == [k \in Keys |-> Phase(outbox'[k])]
<1>1. \A k \in Keys : outbox[k] \in Row \cup {NoRow} /\ outbox'[k] \in Row \cup {NoRow}
  BY CommitUse DEF OutboxInv, Types
<1>2. phn \in [Keys -> Promise!Phases]
  BY <1>1, PhaseRange DEF Promise!Phases
<1>3. ASSUME NEW k \in Keys, phn[k] = "sent"
      PROVE  delivered[k] > 0
  <2>1. outbox'[k] # NoRow /\ outbox'[k].status = "SENT"
    BY <1>1, <1>3, PhaseRange
  <2>2. Committed'
    BY DEF OutboxInv
  <2> QED BY <2>1, <2>2 DEF Committed, Honest
<1>4. ASSUME NEW k \in Keys, phn[k] # ph[k]
      PROVE  phn[k] \in (CASE ph[k] = "none" -> {"queued", "unreachable"}
                           [] ph[k] \in {"queued", "failed"} -> {"sent", "failed", "dead"}
                           [] ph[k] \in {"sent", "dead"} -> IF ~overlapped THEN {} ELSE {"sent", "failed", "dead"}
                           [] OTHER -> {})
  <2>1. k \in Flushed(s) /\ outbox'[k] = dirty[s][k]
    BY <1>4, CommitUse
  <2> QED BY <2>1
<1>5. (phn = [k \in Keys |-> Phase(outbox[k])]') /\ ph = [k \in Keys |-> Phase(outbox[k])]
  BY DEF Phase
<1> QED BY <1>2, <1>3, <1>4 DEF Promise!CommitPhases, Promise!Moves, Phase

LEMMA InsertedPromise ==
  ASSUME OutboxInv, OutboxInv', NEW s \in Scanners, CommitRows(s)
  PROVE  Promise!CommitPhases
<1>1. \A k \in Flushed(s) :
        /\ k \in Keys /\ Phase(outbox[k]) = "none"
        /\ Phase(dirty[s][k]) \in {"queued", "unreachable"}
  <2> SUFFICES ASSUME NEW k \in Flushed(s)
               PROVE  /\ k \in Keys /\ Phase(outbox[k]) = "none"
                      /\ Phase(dirty[s][k]) \in {"queued", "unreachable"}
    OBVIOUS
  <2>1. k \in Keys
    BY RowMapUse DEF OutboxInv, Types, Flushed
  <2>2. outbox[k] = NoRow /\ dirty[s][k] = NewRow(k)
    BY DEF OutboxInv, Local, Inserting, CommitRows
  <2>3. Phase(NewRow(k)) \in {"queued", "unreachable"}
    BY <2>1, NewRowTyped DEF Phase, NewRow
  <2> QED BY <2>1, <2>2, <2>3 DEF Phase
<1> QED BY <1>1, CommitPromise DEF CommitRows

LEMMA FinishedPromise ==
  ASSUME OutboxInv, OutboxInv', NEW s \in Scanners, FinishScan(s)
  PROVE  Promise!CommitPhases
<1>1. \A k \in Flushed(s) :
        /\ Phase(outbox[k]) \in {"queued", "sent", "failed", "dead"}
        /\ Phase(dirty[s][k]) \in {"sent", "failed", "dead"}
        /\ ~overlapped => Phase(outbox[k]) \in {"queued", "failed"}
  <2> SUFFICES ASSUME NEW k \in Flushed(s)
               PROVE  /\ Phase(outbox[k]) \in {"queued", "sent", "failed", "dead"}
                      /\ Phase(dirty[s][k]) \in {"sent", "failed", "dead"}
                      /\ ~overlapped => Phase(outbox[k]) \in {"queued", "failed"}
    OBVIOUS
  <2>1. k \in Seen(s) /\ dirty[s][k].status # "QUEUED" /\ Fits(k, dirty[s][k])
    BY DEF OutboxInv, Local, Sending, Pending, FinishScan
  <2>2. k \in Keys /\ dirty[s][k] \in Row
    BY RowMapUse DEF OutboxInv, Types, Flushed
  <2>3. /\ outbox[k] \in Row /\ ~Unreachable(k) /\ Fits(k, outbox[k]) /\ Sendable(view[s][k])
        /\ ~overlapped => outbox[k] = view[s][k]
    BY <2>1, SeenUse DEF FinishScan
  <2>4. Phase(outbox[k]) \in {"queued", "sent", "failed", "dead"}
    BY <2>2, <2>3, ReachablePhase
  <2>5. Phase(dirty[s][k]) \in {"queued", "sent", "failed", "dead"}
    BY <2>1, <2>2, <2>3, ReachablePhase
  <2>6. Phase(dirty[s][k]) # "queued"
    BY <2>1, <2>2, PhaseRange
  <2>7. ~overlapped => Phase(outbox[k]) \in {"queued", "failed"}
    BY <2>2, <2>3, SendablePhase
  <2> QED BY <2>4, <2>5, <2>6, <2>7
<1> QED BY <1>1, CommitPromise DEF FinishScan

LEMMA SentPromise ==
  ASSUME OutboxInv, NEW s \in Scanners, NEW k \in Keys, NEW said \in Answers, Send(s, k, said)
  PROVE  Promise!DeliverMail(k) \/ UNCHANGED Promise!promiseVars
<1>1. k \in Seen(s) /\ pc[s] = "send"
  BY DEF Send, OutboxInv, Local, Sending
<1>2. /\ outbox[k] \in Row /\ ~Unreachable(k) /\ Fits(k, outbox[k])
      /\ ~overlapped => outbox[k] = view[s][k] /\ Sendable(outbox[k])
  BY <1>1, SeenUse
<1>3. Phase(outbox[k]) \notin {"none", "unreachable"}
  BY <1>2, ReachablePhase
<1>4. ~overlapped => Phase(outbox[k]) \notin {"sent", "dead"}
  BY <1>2, SendablePhase
<1>5. UNCHANGED <<outbox, overlapped>>
  BY DEF Send
<1>6. CASE said = "refused"
  <2>1. delivered' = delivered
    BY <1>6 DEF Send, OutboxInv, Types
  <2> QED BY <1>5, <2>1, StutterPromise
<1>7. CASE said # "refused"
  <2>1. delivered' = [delivered EXCEPT ![k] = @ + 1]
    BY <1>7 DEF Send
  <2> QED BY <1>3, <1>4, <1>5, <2>1 DEF Promise!DeliverMail, Phase
<1> QED BY <1>6, <1>7

LEMMA StepPromise ==
  ASSUME OutboxInv, OutboxInv', [Next]_vars
  PROVE  [Promise!PromiseNext]_(Promise!promiseVars)
<1>1. CASE UNCHANGED <<outbox, delivered, overlapped>>
  BY <1>1, StutterPromise
<1>2. ASSUME NEW s \in Scanners, CommitRows(s) \/ FinishScan(s)
      PROVE  Promise!PromiseNext
  BY <1>2, InsertedPromise, FinishedPromise DEF Promise!PromiseNext
<1>3. ASSUME NEW s \in Scanners, NEW k \in Keys, NEW said \in Answers, Send(s, k, said)
      PROVE  [Promise!PromiseNext]_(Promise!promiseVars)
  BY <1>3, SentPromise DEF Promise!PromiseNext
<1>4. ASSUME NEW s \in Scanners, Scan(s)
      PROVE  [Promise!PromiseNext]_(Promise!promiseVars)
  <2>1. UNCHANGED <<outbox, delivered>>
    BY <1>4 DEF Scan
  <2>2. CASE overlapped' = overlapped
    BY <2>1, <2>2, <1>1
  <2>3. CASE overlapped' # overlapped
    <3>1. overlapped' = TRUE
      BY <1>4, <2>3 DEF Scan, OutboxInv, Types
    <3> QED BY <2>1, <3>1 DEF Promise!PromiseNext, Promise!Overlap, Phase
  <2> QED BY <2>2, <2>3
<1>5. CASE UNCHANGED vars
  BY <1>1, <1>5 DEF vars
<1>6. CASE \E i \in Invoices : Bill(i)
  BY <1>1, <1>6 DEF Bill
<1>7. ASSUME NEW s \in Scanners,
             \/ ScanSms(s) \/ ReadRows(s) \/ Wait(s) \/ InsertRow(s) \/ RecordAnswer(s)
             \/ DeadlockVictim(s) \/ Crash(s) \/ \E k \in Keys : Take(s, k)
      PROVE  UNCHANGED <<outbox, delivered, overlapped>>
  BY <1>7 DEF ScanSms, ReadRows, Wait, InsertRow, RecordAnswer, DeadlockVictim, Crash, Abort, Take
<1> QED BY <1>1, <1>2, <1>3, <1>4, <1>5, <1>6, <1>7 DEF Next, ScanStep

\* Scans implement the promise: whatever overlaps, crashes or gets lost, the
\* rows and the deliveries only move as OutboxPromise lets them.
THEOREM KeepsPromise == Spec => OutboxKeepsPromise
<1>1. Init => Promise!PromiseInit
  BY InitPromise
<1>2. OutboxInv /\ OutboxInv' /\ [Next]_vars => [Promise!PromiseNext]_(Promise!promiseVars)
  BY StepPromise
<1>3. Spec => Promise!PromiseSpec
  BY <1>1, <1>2, Invariance, PTL DEF Spec, Promise!PromiseSpec
<1> QED BY <1>3 DEF OutboxKeepsPromise
=============================================================================
