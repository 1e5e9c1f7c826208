----------------------------- MODULE IntakeProofs -----------------------------
(***************************************************************************)
(* How a file comes into the queue and what becomes of it, for any set of   *)
(* deliveries, folders, templates, watchers, uploads and rows:              *)
(*   - the types of the intake and who stands for what (IntakeInv);         *)
(*   - a row reads COMPLETED only if a file of its key was printed;         *)
(*   - a delivery is always somewhere, or another of its name came along.   *)
(***************************************************************************)
EXTENDS Intake, TLAPS

QueueDirs == {"incoming", "pending"}
Statuses == {"PENDING_APPROVAL", "APPROVED", "REJECTED", "PARTIALLY_PROCESSED",
             "GENERATING", "COMPLETED", "FAILED"}
Modes == {"auto", "manual"}
Registrars == Watchers \cup Uploaders
WatcherPC == {"idle", "lock", "move", "commit"}
UploaderPC == {"idle", "stage", "zip", "place", "copy", "commit"}

RegType ==
  [pc : WatcherPC \cup UploaderPC, key : Keys \cup {Nobody}, d : Deliveries \cup {NoFile},
   tmpls : SUBSET Templates, appr : SUBSET Templates, rej : SUBSET Templates, mode : Modes,
   id : RowIds \cup {Nobody}, read : Row \cup {NoRow}, path : Path \cup {"none"},
   status : Statuses \cup {"none"}]

RowTable == UNION {[S -> Row] : S \in SUBSET RowIds}

CascType ==
  [pc : {"idle", "load", "loop"}, verdict : {"none", "APPROVED", "REJECTED"},
   t : Templates \cup {Nobody}, appr : SUBSET Templates, mode : Modes,
   todo : SUBSET RowIds, read : RowTable, new : RowTable]

HandType ==
  [pc : {"idle", "look", "work"}, name : Names \cup {Nobody}, d : Deliveries \cup {NoFile},
   tries : Nat, id : RowIds \cup {Nobody}]

\* The row a process remembers is, or was, the row of this key.
Known(i, key) == i \in RowIds /\ rows[i] # NoRow /\ (i \in Live => rows[i].key = key)

Delivered(key) == \E e \in sent : Key(e) = key

\* What lies somewhere was delivered, and lies where its name belongs.
FilesOK ==
  /\ drive \in [Keys -> Deliveries \cup {NoFile}]
  /\ queue \in [QueueDirs -> [Names -> Deliveries \cup {NoFile}]]
  /\ \A k \in Keys : drive[k] # NoFile => drive[k] \in sent /\ Key(drive[k]) = k
  /\ \A p \in QueueDirs, n \in Names :
       queue[p][n] # NoFile => queue[p][n] \in sent /\ NameOf[queue[p][n]] = n

\* A row is of a name and folder that was delivered.
RowsOK ==
  /\ rows \in [RowIds -> Row \cup {NoRow, DeletedRow}]
  /\ \A i \in Live : Delivered(rows[i].key)

Refers(x) == reg[x].pc \in {"move", "commit", "place"} /\ reg[x].id # Nobody

Carries(x) == reg[x].pc \in {"stage", "zip", "place", "copy"}

Planned(x) == reg[x].pc \in {"move", "commit", "place", "copy"}

\* A thread or task is about a delivery, and sends test files to the drive and
\* no other.
AtWork(x) ==
  /\ reg[x].pc # "idle" => reg[x].key \in Keys /\ Delivered(reg[x].key)
  /\ Carries(x) => reg[x].d \in sent /\ Key(reg[x].d) = reg[x].key
  /\ ~Carries(x) => reg[x].d = NoFile
  /\ Planned(x) =>
       /\ reg[x].path \in {"drive", "incoming", "pending"}
       /\ reg[x].path = "drive" <=> reg[x].key[1] = Test
       /\ reg[x].status \in Statuses \ {"COMPLETED"}
  /\ Refers(x) =>
       /\ Known(reg[x].id, reg[x].key)
       /\ reg[x].read \in Row /\ reg[x].read.key = reg[x].key

RegOK ==
  /\ lock \in [Processes -> Watchers \cup {Nobody}]
  /\ reg \in [Registrars -> RegType]
  /\ \A x \in Registrars : AtWork(x)
  /\ \A r \in Watchers :
       /\ reg[r].pc \in WatcherPC
       /\ reg[r].pc \in {"move", "commit"} => lock[ProcessOf[r]] = r
  /\ \A u \in Uploaders : reg[u].pc \in UploaderPC

HandOK ==
  /\ hand \in HandType
  /\ hand.pc = "idle" => hand.d = NoFile
  /\ hand.pc # "idle" =>
       hand.name \in Names /\ hand.d \in sent /\ NameOf[hand.d] = hand.name
  /\ hand.pc = "work" =>
       /\ hand.id \in RowIds /\ rows[hand.id] # NoRow
       /\ hand.id \in Live => rows[hand.id].key[2] = hand.name

\* The cascade writes COMPLETED on no row and takes no row for another.
CascOK ==
  /\ casc \in CascType
  /\ casc.pc # "idle" => casc.verdict # "none"
  /\ DOMAIN casc.new = DOMAIN casc.read /\ casc.todo \subseteq DOMAIN casc.read
  /\ \A i \in DOMAIN casc.read :
       /\ Known(i, casc.read[i].key)
       /\ casc.new[i].key = casc.read[i].key
       /\ casc.read[i].status # "COMPLETED" /\ casc.new[i].status # "COMPLETED"

FatesOK ==
  /\ mode \in Modes /\ events \subseteq Keys
  /\ sent \subseteq Deliveries /\ printed \subseteq Deliveries
  /\ failed \subseteq Deliveries /\ dropped \subseteq Deliveries

IntakeInv == FilesOK /\ RowsOK /\ RegOK /\ HandOK /\ CascOK /\ FatesOK
-----------------------------------------------------------------------------
(* What a step does to the rows. *)

\* Rows are given out once, keep their key, and once deleted stay so.
RowsKept ==
  \A i \in RowIds : rows[i] # NoRow =>
    rows'[i] # NoRow /\ (i \in Live' => i \in Live /\ rows'[i].key = rows[i].key)

\* No row is deleted.
RowsStay == \A i \in Live : i \in Live' /\ rows'[i].key = rows[i].key

\* No row becomes COMPLETED.
NoneCompleted ==
  \A i \in Live' : rows'[i].status = "COMPLETED" =>
    i \in Live /\ rows[i].status = "COMPLETED" /\ rows'[i].key = rows[i].key

LEMMA SameRows ==
  ASSUME RowsOK, UNCHANGED rows
  PROVE  RowsKept /\ RowsStay /\ NoneCompleted
BY DEF RowsOK, RowsKept, RowsStay, NoneCompleted, Live

LEMMA KnownKept ==
  ASSUME RowsKept, NEW i, NEW key, Known(i, key)
  PROVE  Known(i, key)'
BY DEF RowsKept, Known

LEMMA OverRow ==
  ASSUME NEW a \in Row, NEW b \in Row, NEW c \in Row
  PROVE  /\ Over(a, b, c) \in Row
         /\ b.key = c.key => Over(a, b, c).key = a.key
         /\ Over(a, b, c).status = a.status \/ Over(a, b, c).status = c.status
BY DEF Row, Over

\* One row that is there is rewritten under its key.
LEMMA RowRewritten ==
  ASSUME RowsOK, IntakeNulls, NEW i \in Live, NEW new \in Row, new.key = rows[i].key,
         rows' = [rows EXCEPT ![i] = new], sent' = sent
  PROVE  /\ RowsOK' /\ RowsKept /\ RowsStay
         /\ new.status # "COMPLETED" \/ new.status = rows[i].status => NoneCompleted
<1>1. i \in RowIds /\ \A j \in RowIds : rows'[j] = IF j = i THEN new ELSE rows[j]
  BY DEF RowsOK, Live
<1>2. new # NoRow /\ new # DeletedRow
  BY DEF IntakeNulls
<1>3. Live' = Live
  BY <1>1, <1>2 DEF Live
<1>4. RowsOK'
  BY <1>1, <1>3 DEF RowsOK, Delivered
<1> QED BY <1>1, <1>2, <1>3, <1>4 DEF RowsKept, RowsStay, NoneCompleted

\* A table that comes from the rows: rows were inserted for what was delivered,
\* or rewritten under their key, and none was finished.
TableFrom(table) ==
  /\ table \in [RowIds -> Row \cup {NoRow, DeletedRow}]
  /\ \A i \in RowIds :
       /\ rows[i] = NoRow /\ table[i] # NoRow =>
            table[i] \in Row /\ Delivered(table[i].key) /\ table[i].status # "COMPLETED"
       /\ rows[i] = DeletedRow => table[i] = DeletedRow
       /\ i \in Live =>
            /\ table[i] \in Row /\ table[i].key = rows[i].key
            /\ table[i].status = "COMPLETED" => rows[i].status = "COMPLETED"

LEMMA TableEffect ==
  ASSUME RowsOK, IntakeNulls, TableFrom(rows'), sent' = sent
  PROVE  RowsOK' /\ RowsKept /\ RowsStay /\ NoneCompleted
<1>1. \A i \in RowIds : i \in Live' => rows'[i] \in Row
  BY DEF TableFrom, Live
<1>2. \A i \in RowIds : rows[i] = NoRow \/ rows[i] = DeletedRow \/ i \in Live
  BY DEF Live
<1>3. ASSUME NEW i \in Live'
      PROVE  /\ Delivered(rows'[i].key)
             /\ rows'[i].status = "COMPLETED" =>
                  i \in Live /\ rows[i].status = "COMPLETED" /\ rows'[i].key = rows[i].key
  <2>1. i \in RowIds /\ rows'[i] # NoRow /\ rows'[i] # DeletedRow
    BY DEF Live
  <2>2. CASE rows[i] = NoRow
    BY <2>1, <2>2 DEF TableFrom
  <2>3. CASE rows[i] = DeletedRow
    BY <2>1, <2>3 DEF TableFrom
  <2>4. CASE i \in Live
    BY <2>1, <2>4 DEF TableFrom, RowsOK
  <2> QED BY <1>2, <2>1, <2>2, <2>3, <2>4
<1>4. RowsOK'
  <2>1. \A i \in Live' : \E e \in sent' : Key(e) = rows'[i].key
    BY <1>3 DEF Delivered
  <2> QED BY <2>1 DEF TableFrom, RowsOK, Delivered
<1>5. RowsKept
  BY <1>1, <1>2, IntakeNulls DEF TableFrom, RowsKept, Live, IntakeNulls
<1>6. RowsStay
  BY <1>2, IntakeNulls DEF TableFrom, RowsStay, Live, IntakeNulls
<1> QED BY <1>3, <1>4, <1>5, <1>6 DEF NoneCompleted

\* A row is inserted.
LEMMA TableInserted ==
  ASSUME RowsOK, IntakeNulls, NEW i \in Unused, NEW new \in Row, Delivered(new.key),
         new.status # "COMPLETED"
  PROVE  TableFrom([rows EXCEPT ![i] = new])
<1>1. i \in RowIds /\ rows[i] = NoRow /\ rows \in [RowIds -> Row \cup {NoRow, DeletedRow}]
  BY DEF RowsOK, Unused
<1>2. \A j \in RowIds : [rows EXCEPT ![i] = new][j] = IF j = i THEN new ELSE rows[j]
  BY <1>1
<1>3. [rows EXCEPT ![i] = new] \in [RowIds -> Row \cup {NoRow, DeletedRow}]
  BY <1>1
<1>4. \A j \in Live : rows[j] \in Row
  BY <1>1 DEF Live
<1> QED BY <1>1, <1>2, <1>3, <1>4 DEF TableFrom, Live, IntakeNulls

\* A row is rewritten under its key.
LEMMA TableRewritten ==
  ASSUME RowsOK, IntakeNulls, NEW i \in Live, NEW new \in Row, new.key = rows[i].key,
         new.status = "COMPLETED" => rows[i].status = "COMPLETED"
  PROVE  TableFrom([rows EXCEPT ![i] = new])
<1>1. /\ i \in RowIds /\ rows[i] \notin {NoRow, DeletedRow}
      /\ rows \in [RowIds -> Row \cup {NoRow, DeletedRow}]
  BY DEF RowsOK, Live
<1>2. \A j \in RowIds : [rows EXCEPT ![i] = new][j] = IF j = i THEN new ELSE rows[j]
  BY <1>1
<1>3. [rows EXCEPT ![i] = new] \in [RowIds -> Row \cup {NoRow, DeletedRow}]
  BY <1>1
<1>4. \A j \in Live : rows[j] \in Row
  BY <1>1 DEF Live
<1> QED BY <1>1, <1>2, <1>3, <1>4 DEF TableFrom, Live, IntakeNulls

LEMMA TableSame == ASSUME RowsOK, IntakeNulls PROVE TableFrom(rows)
BY DEF RowsOK, TableFrom, Live, IntakeNulls

LEMMA FirstIn == ASSUME NEW S, NEW i \in First(S) PROVE i \in S
BY DEF First
-----------------------------------------------------------------------------
(* What a step leaves alone. *)

LEMMA FilesKept ==
  ASSUME FilesOK, sent \subseteq sent', UNCHANGED store
  PROVE  FilesOK'
BY DEF FilesOK, store

LEMMA TableKept ==
  ASSUME RowsOK, sent \subseteq sent', UNCHANGED rows
  PROVE  RowsOK'
BY DEF RowsOK, Live, Delivered

LEMMA AtWorkKept ==
  ASSUME sent \subseteq sent', RowsKept, NEW x, reg'[x] = reg[x], AtWork(x)
  PROVE  AtWork(x)'
BY KnownKept DEF AtWork, Carries, Planned, Refers, Delivered

LEMMA RegKept ==
  ASSUME RegOK, sent \subseteq sent', RowsKept, UNCHANGED <<reg, lock>>
  PROVE  RegOK'
BY AtWorkKept DEF RegOK

LEMMA HandKept ==
  ASSUME HandOK, sent \subseteq sent', RowsKept, UNCHANGED hand
  PROVE  HandOK'
BY DEF HandOK, RowsKept

LEMMA CascKept ==
  ASSUME CascOK, RowsKept, UNCHANGED casc
  PROVE  CascOK'
BY KnownKept DEF CascOK

\* One thread or task moves; it may take or give back the lock of its process.
LEMMA RegMoves ==
  ASSUME RegOK, sent \subseteq sent', RowsKept, NEW x \in Registrars, NEW g \in RegType,
         reg' = [reg EXCEPT ![x] = g], AtWork(x)',
         x \in Uploaders => g.pc \in UploaderPC /\ lock' = lock,
         x \in Watchers => g.pc \in WatcherPC,
         \/ lock' = lock /\ (x \in Watchers /\ g.pc \in {"move", "commit"} =>
                               lock[ProcessOf[x]] = x)
         \/ /\ x \in Watchers /\ lock[ProcessOf[x]] = Nobody
            /\ lock' = [lock EXCEPT ![ProcessOf[x]] = x]
         \/ /\ x \in Watchers /\ g.pc = "idle" /\ lock[ProcessOf[x]] = x
            /\ lock' = [lock EXCEPT ![ProcessOf[x]] = Nobody],
         IntakeNulls
  PROVE  RegOK'
<1>1. reg' \in [Registrars -> RegType] /\ reg'[x] = g
      /\ \A y \in Registrars \ {x} : reg'[y] = reg[y]
  BY DEF RegOK
<1>2. \A y \in Registrars : AtWork(y)'
  BY <1>1, AtWorkKept DEF RegOK
<1>3. lock' \in [Processes -> Watchers \cup {Nobody}]
  BY DEF RegOK
<1>4. ASSUME NEW r \in Watchers
      PROVE  /\ reg'[r].pc \in WatcherPC
             /\ reg'[r].pc \in {"move", "commit"} => lock'[ProcessOf[r]] = r
  <2>1. r \in Registrars /\ ProcessOf[r] \in Processes /\ Nobody \notin Watchers
        /\ r \notin Uploaders
    BY DEF Registrars, Processes, IntakeNulls
  <2>2. CASE r = x
    BY <1>1, <2>1, <2>2 DEF RegOK
  <2>3. CASE r # x
    <3>1. reg'[r] = reg[r] /\ reg[r].pc \in WatcherPC
          /\ (reg[r].pc \in {"move", "commit"} => lock[ProcessOf[r]] = r)
      BY <1>1, <2>1, <2>3 DEF RegOK
    <3>2. lock[ProcessOf[r]] = r => lock'[ProcessOf[r]] = r
      <4>1. lock \in [Processes -> Watchers \cup {Nobody}]
        BY DEF RegOK
      <4> QED BY <2>1, <2>3, <4>1
    <3> QED BY <3>1, <3>2
  <2> QED BY <2>2, <2>3
<1>5. ASSUME NEW u \in Uploaders PROVE reg'[u].pc \in UploaderPC
  BY <1>1 DEF RegOK, Registrars
<1> QED BY <1>1, <1>2, <1>3, <1>4, <1>5 DEF RegOK
-----------------------------------------------------------------------------
(* The steps one by one: the outside and the watcher.                      *)

LEMMA InitIntake == ASSUME IntakeAssumption, IntakeNulls PROVE Init => IntakeInv
<1> SUFFICES ASSUME Init PROVE IntakeInv
  OBVIOUS
<1>1. FilesOK
  BY DEF Init, FilesOK, QueueDirs
<1>2. Live = {}
  BY DEF Init, Live
<1>3. RowsOK
  BY <1>2 DEF Init, RowsOK
<1>4. Idle \in RegType
  BY DEF Idle, RegType, WatcherPC, Modes
<1>5. \A x \in Registrars : reg[x] = Idle
  BY DEF Init, Registrars
<1>6. RegOK
  <2>1. \A x \in Registrars : AtWork(x)
    BY <1>5 DEF AtWork, Carries, Planned, Refers, Idle
  <2>2. reg \in [Registrars -> RegType]
    BY <1>4 DEF Init, Registrars
  <2>3. \A x \in Registrars : reg[x].pc = "idle"
    BY <1>5 DEF Idle
  <2> QED BY <2>1, <2>2, <2>3 DEF RegOK, Init, WatcherPC, UploaderPC, Registrars
<1>7. HandOK
  BY DEF Init, HandOK, HandType, EmptyHand
<1>8. CascOK
  <2>1. [i \in {} |-> NoRow] \in RowTable
    <3>1. [i \in {} |-> NoRow] \in [{} -> Row]
      OBVIOUS
    <3> QED BY <3>1 DEF RowTable
  <2>2. Quiet \in CascType
    BY <2>1 DEF Quiet, CascType, Modes
  <2> QED BY <2>2 DEF Init, CascOK, Quiet
<1>9. FatesOK
  BY DEF Init, FatesOK, Modes
<1> QED BY <1>1, <1>3, <1>6, <1>7, <1>8, <1>9 DEF IntakeInv

\* Steps that leave the rows and the registrars alone.
LEMMA QuietStep ==
  ASSUME IntakeInv, sent \subseteq sent', UNCHANGED <<rows, reg, lock>>,
         FilesOK', HandOK', CascOK', FatesOK'
  PROVE  IntakeInv'
BY SameRows, TableKept, RegKept DEF IntakeInv

LEMMA DropKeeps ==
  ASSUME IntakeAssumption, IntakeNulls, IntakeInv, NEW d \in Deliveries, Drop(d) PROVE IntakeInv'
<1>1. Key(d) \in Keys /\ sent \subseteq sent' /\ d \in sent'
  BY DEF Drop, Key, Keys, IntakeAssumption
<1>2. FilesOK'
  BY <1>1 DEF Drop, FilesOK, IntakeInv
<1>3. FatesOK'
  BY <1>1 DEF Drop, FatesOK, IntakeInv
<1>4. RowsKept
  BY SameRows DEF Drop, IntakeInv
<1> QED BY <1>1, <1>2, <1>3, <1>4, QuietStep, HandKept, CascKept DEF Drop, IntakeInv

LEMMA ChangeModeKeeps ==
  ASSUME IntakeInv, ChangeMode PROVE IntakeInv'
<1>1. FatesOK'
  BY DEF ChangeMode, FatesOK, IntakeInv, Modes, fate
<1>2. RowsKept /\ sent' = sent
  BY SameRows DEF ChangeMode, IntakeInv, fate
<1> QED BY <1>1, <1>2, QuietStep, FilesKept, HandKept, CascKept DEF ChangeMode, IntakeInv

\* A registrar moves, and nothing else but the lock.
LEMMA RegStep ==
  ASSUME IntakeInv, RegOK', UNCHANGED <<mode, store, rows, casc, hand, fate>>,
         events' \subseteq Keys
  PROVE  IntakeInv'
<1>1. RowsKept /\ sent' = sent
  BY SameRows DEF IntakeInv, fate
<1> QED BY <1>1, FilesKept, TableKept, HandKept, CascKept DEF IntakeInv, FatesOK, fate

LEMMA DetectKeeps ==
  ASSUME IntakeAssumption, IntakeNulls, IntakeInv, NEW r \in Watchers, NEW k \in Keys, Detect(r, k),
         events' \subseteq Keys
  PROVE  IntakeInv'
<1> DEFINE g == [reg[r] EXCEPT !.pc = "lock", !.key = k, !.tmpls = TemplatesOf[drive[k]]]
<1>1. r \in Registrars /\ reg[r] \in RegType /\ reg[r].pc = "idle" /\ AtWork(r)
  BY DEF Registrars, Detect, IntakeInv, RegOK
<1>2. drive[k] \in sent /\ Key(drive[k]) = k /\ drive[k] \in Deliveries
  BY DEF Detect, IntakeInv, FilesOK, FatesOK
<1>3. TemplatesOf[drive[k]] \in SUBSET Templates
  BY <1>2 DEF IntakeAssumption
<1>4. g \in RegType /\ g.pc = "lock" /\ g.key = k /\ g.d = reg[r].d
  BY <1>1, <1>3 DEF RegType, WatcherPC
<1>5. reg' = [reg EXCEPT ![r] = g] /\ reg'[r] = g
  BY <1>1 DEF Detect, IntakeInv, RegOK
<1>6. sent' = sent /\ RowsKept /\ lock' = lock
  BY SameRows DEF Detect, fate, IntakeInv
<1> HIDE DEF g
<1>7. AtWork(r)'
  BY <1>1, <1>2, <1>4, <1>5, <1>6 DEF AtWork, Carries, Planned, Refers, Delivered
<1>8. RegOK'
  <2>1. r \notin Uploaders /\ g.pc \in WatcherPC /\ g.pc \notin {"move", "commit"}
    BY <1>4 DEF IntakeNulls, WatcherPC
  <2> QED BY <1>1, <1>4, <1>5, <1>6, <1>7, <2>1, RegMoves DEF IntakeInv
<1> QED BY <1>8, RegStep DEF Detect

LEMMA EventKeeps ==
  ASSUME IntakeAssumption, IntakeNulls, IntakeInv, NEW r \in Watchers, NEW k \in Keys,
         OnEvent(r, k) \/ ScanExistingFiles(r, k)
  PROVE  IntakeInv'
<1>1. events' \subseteq Keys
  BY DEF OnEvent, ScanExistingFiles, IntakeInv, FatesOK
<1>2. CASE Detect(r, k)
  BY <1>1, <1>2, DetectKeeps
<1>3. CASE UNCHANGED <<verdict, mode, decisions, store, rows, lock, reg, casc, hand, fate>>
  <2>1. RegOK'
    BY <1>3, SameRows, RegKept DEF IntakeInv, fate
  <2> QED BY <1>1, <1>3, <2>1, RegStep
<1> QED BY <1>2, <1>3 DEF OnEvent, ScanExistingFiles

\* The idle record.
LEMMA IdleIs ==
  /\ Idle \in RegType /\ Idle.pc = "idle" /\ Idle.d = NoFile
BY DEF Idle, RegType, WatcherPC, Modes

LEMMA GoesIdle ==
  ASSUME NEW x, reg'[x] = Idle PROVE AtWork(x)'
BY IdleIs DEF AtWork, Carries, Planned, Refers

LEMMA DecisionIs ==
  ASSUME NEW tm, NEW ap, NEW re, NEW m
  PROVE  /\ Decision(tm, ap, re, m).path \in {"incoming", "pending"}
         /\ Decision(tm, ap, re, m).status \in {"APPROVED", "REJECTED", "PENDING_APPROVAL"}
BY DEF Decision

\* A field at a time.
LEMMA RegUpdate ==
  ASSUME NEW g \in RegType
  PROVE  /\ \A x \in WatcherPC \cup UploaderPC : [g EXCEPT !.pc = x] \in RegType
         /\ \A x \in Keys \cup {Nobody} : [g EXCEPT !.key = x] \in RegType
         /\ \A x \in Deliveries \cup {NoFile} : [g EXCEPT !.d = x] \in RegType
         /\ \A x \in SUBSET Templates : [g EXCEPT !.tmpls = x] \in RegType
         /\ \A x \in SUBSET Templates : [g EXCEPT !.appr = x] \in RegType
         /\ \A x \in SUBSET Templates : [g EXCEPT !.rej = x] \in RegType
         /\ \A x \in Modes : [g EXCEPT !.mode = x] \in RegType
         /\ \A x \in RowIds \cup {Nobody} : [g EXCEPT !.id = x] \in RegType
         /\ \A x \in Row \cup {NoRow} : [g EXCEPT !.read = x] \in RegType
         /\ \A x \in Path \cup {"none"} : [g EXCEPT !.path = x] \in RegType
         /\ \A x \in Statuses \cup {"none"} : [g EXCEPT !.status = x] \in RegType
BY SMTT(30) DEF RegType

LEMMA PlanKeeps ==
  ASSUME IntakeAssumption, IntakeNulls, IntakeInv, NEW r \in Watchers, Plan(r)
  PROVE  IntakeInv'
<1> DEFINE g == reg[r]
           plan == IF g.key[1] = Test THEN [path |-> "drive", status |-> "PENDING_APPROVAL"]
                   ELSE Decision(g.tmpls, With("APPROVED"), With("REJECTED"), mode)
<1>1. r \in Registrars /\ g \in RegType /\ g.pc = "lock" /\ AtWork(r) /\ ProcessOf[r] \in Processes
      /\ r \notin Uploaders /\ lock[ProcessOf[r]] = Nobody
  BY DEF Registrars, Plan, IntakeInv, RegOK, Processes, IntakeNulls
<1>2. sent' = sent /\ RowsKept
  BY SameRows DEF Plan, fate, IntakeInv
<1>3. PICK i \in IF RowsOf(g.key) = {} THEN {Nobody} ELSE RowsOf(g.key) :
        LET old == IF i = Nobody THEN NoRow ELSE rows[i]
        IN  IF i # Nobody /\ old.status \notin {"FAILED", "REJECTED", "PENDING_APPROVAL"}
            THEN reg' = [reg EXCEPT ![r] = Idle] /\ UNCHANGED lock
            ELSE /\ lock' = [lock EXCEPT ![ProcessOf[r]] = r]
                 /\ reg' = [reg EXCEPT ![r] =
                      [g EXCEPT !.pc = "move", !.id = i, !.read = old,
                                !.path = plan.path, !.status = plan.status]]
  BY DEF Plan
<1> DEFINE old == IF i = Nobody THEN NoRow ELSE rows[i]
<1>4. i \in RowIds \cup {Nobody} /\ old \in Row \cup {NoRow}
      /\ (i # Nobody => i \in Live /\ rows[i].key = g.key /\ rows[i] \in Row)
  BY <1>3 DEF RowsOf, Live, IntakeInv, RowsOK
<1>5. RegOK'
  <2>1. CASE reg' = [reg EXCEPT ![r] = Idle] /\ UNCHANGED lock
    <3>1. reg'[r] = Idle
      BY <1>1, <2>1 DEF IntakeInv, RegOK
    <3>2. AtWork(r)'
      BY <3>1, GoesIdle
    <3>3. Idle \in RegType /\ Idle.pc \in WatcherPC /\ Idle.pc \notin {"move", "commit"}
      BY IdleIs DEF WatcherPC
    <3> QED BY <1>1, <1>2, <2>1, <3>2, <3>3, RegMoves DEF IntakeInv
  <2>2. CASE /\ lock' = [lock EXCEPT ![ProcessOf[r]] = r]
             /\ reg' = [reg EXCEPT ![r] =
                  [g EXCEPT !.pc = "move", !.id = i, !.read = old,
                            !.path = plan.path, !.status = plan.status]]
    <3> DEFINE h == [g EXCEPT !.pc = "move", !.id = i, !.read = old,
                            !.path = plan.path, !.status = plan.status]
    <3>1. /\ plan.path \in {"drive", "incoming", "pending"}
          /\ plan.path = "drive" <=> g.key[1] = Test
          /\ plan.status \in Statuses \ {"COMPLETED"}
      <4>1. CASE g.key[1] = Test
        BY <4>1 DEF Statuses
      <4>2. CASE g.key[1] # Test
        BY <4>2, DecisionIs DEF Statuses
      <4> QED BY <4>1, <4>2
    <3> HIDE DEF plan, old
    <3>2. h \in RegType /\ h.pc = "move" /\ h.id = i /\ h.read = old /\ h.path = plan.path
          /\ h.status = plan.status /\ h.key = g.key /\ h.d = g.d
      <4>1. plan.path \in Path /\ plan.status \in Statuses /\ "move" \in WatcherPC \cup UploaderPC
        BY <3>1 DEF Path, WatcherPC
      <4>2. /\ h.pc = "move" /\ h.id = i /\ h.read = old /\ h.path = plan.path
            /\ h.status = plan.status /\ h.key = g.key /\ h.d = g.d
        BY <1>1 DEF RegType
      <4>3. h \in RegType
        BY <1>1, <1>4, <4>1, RegUpdate
      <4> QED BY <4>2, <4>3
    <3>3. reg'[r] = h
      BY <1>1, <2>2 DEF IntakeInv, RegOK
    <3> HIDE DEF h
    <3>0. PICK k : k = reg[r].key
      OBVIOUS
    <3>4. i # Nobody => Known(i, k)'
      <4>1. i # Nobody => Known(i, k)
        BY <1>4, <3>0, IntakeNulls DEF Known, Live
      <4> QED BY <1>2, <4>1, KnownKept
    <3>5. i # Nobody => old \in Row /\ old.key = g.key
      BY <1>4 DEF old
    <3>6. AtWork(r)'
      <4>1. reg'[r].key = k /\ reg'[r].id = i /\ reg'[r].read = old
        BY <3>0, <3>2, <3>3
      <4>2. Refers(r)' =>
               /\ Known(reg[r].id, reg[r].key)'
               /\ reg'[r].read \in Row /\ reg'[r].read.key = reg'[r].key
        BY <3>0, <3>4, <3>5, <4>1 DEF Refers, Known, Live
      <4> QED
        BY <1>1, <1>2, <3>1, <3>2, <3>3, <4>2 DEF AtWork, Carries, Planned, Delivered
    <3> QED BY <1>1, <1>2, <2>2, <3>2, <3>6, RegMoves DEF IntakeInv, WatcherPC, h
  <2> QED BY <1>3, <2>1, <2>2
<1> QED BY <1>5, RegStep DEF Plan, IntakeInv, FatesOK

LEMMA RegIs ==
  ASSUME IntakeInv, NEW x \in Registrars
  PROVE  /\ reg[x] \in RegType /\ AtWork(x)
         /\ \A g : reg' = [reg EXCEPT ![x] = g] => reg'[x] = g
BY DEF IntakeInv, RegOK

LEMMA WatcherIs ==
  ASSUME IntakeInv, IntakeNulls, NEW r \in Watchers
  PROVE  /\ r \in Registrars /\ r \notin Uploaders /\ ProcessOf[r] \in Processes
         /\ reg[r].pc \in {"move", "commit"} => lock[ProcessOf[r]] = r
BY DEF IntakeInv, IntakeNulls, Registrars, Processes, RegOK

LEMMA UploaderIs ==
  ASSUME IntakeInv, IntakeNulls, NEW u \in Uploaders
  PROVE  u \in Registrars /\ u \notin Watchers
BY DEF IntakeNulls, Registrars

\* A watcher gives up or is done.
LEMMA ReleaseKeeps ==
  ASSUME IntakeInv, IntakeNulls, NEW r \in Watchers, reg[r].pc \in {"move", "commit"}, Release(r),
         sent \subseteq sent', RowsKept
  PROVE  RegOK'
<1>1. reg'[r] = Idle
  BY RegIs, WatcherIs DEF Release
<1>2. AtWork(r)'
  BY <1>1, GoesIdle
<1>3. Idle \in RegType /\ Idle.pc \in WatcherPC /\ Idle.pc = "idle"
  BY IdleIs DEF WatcherPC
<1> QED BY <1>2, <1>3, WatcherIs, RegMoves DEF IntakeInv, Release

\* The step of a registrar that stays at its key, and carries what it carried.
LEMMA OnlyPc ==
  ASSUME IntakeInv, NEW x \in Registrars, NEW p \in WatcherPC \cup UploaderPC,
         reg' = [reg EXCEPT ![x].pc = p]
  PROVE  /\ reg'[x] \in RegType /\ reg' = [reg EXCEPT ![x] = reg'[x]]
         /\ reg'[x].pc = p /\ reg'[x].key = reg[x].key /\ reg'[x].d = reg[x].d
         /\ reg'[x].id = reg[x].id /\ reg'[x].path = reg[x].path
         /\ reg'[x].status = reg[x].status /\ reg'[x].read = reg[x].read
         /\ reg'[x].tmpls = reg[x].tmpls
<1> DEFINE h == [reg[x] EXCEPT !.pc = p]
<1>1. reg[x] \in RegType /\ reg \in [Registrars -> RegType]
  BY DEF IntakeInv, RegOK
<1>2. reg' = [reg EXCEPT ![x] = h] /\ reg'[x] = h
  BY <1>1
<1>3. h \in RegType
  BY <1>1, RegUpdate
<1>4. /\ h.pc = p /\ h.key = reg[x].key /\ h.d = reg[x].d /\ h.id = reg[x].id
      /\ h.path = reg[x].path /\ h.status = reg[x].status /\ h.read = reg[x].read
      /\ h.tmpls = reg[x].tmpls
  BY <1>1 DEF RegType
<1> HIDE DEF h
<1> QED BY <1>2, <1>3, <1>4

LEMMA MoveKeeps ==
  ASSUME IntakeAssumption, IntakeNulls, IntakeInv, NEW r \in Watchers, MoveToQueue(r)
  PROVE  IntakeInv'
<1> DEFINE g == reg[r]
           n == g.key[2]
           d == drive[g.key]
<1>1. /\ r \in Registrars /\ r \notin Uploaders /\ g \in RegType /\ AtWork(r) /\ g.pc = "move"
      /\ lock[ProcessOf[r]] = r
  BY WatcherIs, RegIs DEF MoveToQueue
<1>2. /\ UNCHANGED <<verdict, mode, decisions, rows, events, casc, hand, fate>>
      /\ sent' = sent /\ RowsKept
  BY SameRows DEF MoveToQueue, fate, IntakeInv
<1>3. /\ g.key \in Keys /\ n \in Names /\ d \in Deliveries \cup {NoFile}
      /\ g.path \in {"drive", "incoming", "pending"}
      /\ d # NoFile => d \in sent /\ Key(d) = g.key /\ NameOf[d] = n
  <2>1. g.key \in Keys /\ g.path \in {"drive", "incoming", "pending"}
    BY <1>1 DEF AtWork, Planned
  <2>2. n \in Names
    BY <2>1 DEF Keys
  <2>3. d \in Deliveries \cup {NoFile} /\ (d # NoFile => d \in sent /\ Key(d) = g.key)
    BY <2>1 DEF IntakeInv, FilesOK
  <2> QED BY <2>1, <2>2, <2>3 DEF Key
<1>4. FilesOK' /\ RegOK'
  <2>1. CASE (g.path = "drive" \/ (d = NoFile /\ g.id # Nobody))
    <3>1. reg' = [reg EXCEPT ![r].pc = "commit"] /\ UNCHANGED <<store, lock>>
      BY <2>1 DEF MoveToQueue
    <3>2. AtWork(r)'
      <4>0. "commit" \in WatcherPC \cup UploaderPC
        BY DEF WatcherPC
      <4>1. /\ reg'[r].pc = "commit" /\ reg'[r].key = reg[r].key /\ reg'[r].d = reg[r].d
            /\ reg'[r].id = reg[r].id /\ reg'[r].path = reg[r].path
            /\ reg'[r].status = reg[r].status /\ reg'[r].read = reg[r].read
        BY <1>1, <3>1, <4>0, OnlyPc
      <4>2. g.id # Nobody => Known(g.id, g.key) /\ g.read \in Row /\ g.read.key = g.key
        BY <1>1 DEF AtWork, Refers
      <4>3. Refers(r)' => Known(reg[r].id, reg[r].key)'
                          /\ reg'[r].read \in Row /\ reg'[r].read.key = reg'[r].key
        BY <1>2, <4>1, <4>2 DEF Refers, Known, Live
      <4> QED BY <1>1, <1>2, <4>1, <4>3 DEF AtWork, Carries, Planned, Delivered
    <3>3. RegOK'
      <4>0. "commit" \in WatcherPC \cup UploaderPC
        BY DEF WatcherPC
      <4>1. /\ reg'[r] \in RegType /\ reg' = [reg EXCEPT ![r] = reg'[r]]
            /\ reg'[r].pc = "commit"
        BY <1>1, <3>1, <4>0, OnlyPc
      <4>2. PICK h \in RegType : h = reg'[r]
        BY <4>1
      <4>3. reg' = [reg EXCEPT ![r] = h] /\ h.pc = "commit"
        BY <4>1, <4>2
      <4> QED BY <1>1, <1>2, <3>1, <3>2, <4>3, RegMoves DEF IntakeInv, WatcherPC
    <3> QED BY <1>2, <3>1, <3>3, FilesKept DEF IntakeInv
  <2>2. CASE g.path # "drive" /\ d = NoFile /\ g.id = Nobody
    <3>1. queue' = Put(g.path, n, NoFile) /\ Release(r) /\ UNCHANGED drive
      BY <2>2 DEF MoveToQueue
    <3>2. FilesOK'
      BY <1>2, <1>3, <2>2, <3>1 DEF IntakeInv, FilesOK, Put, QueueDirs
    <3> QED BY <1>1, <1>2, <3>1, <3>2, ReleaseKeeps
  <2>3. CASE g.path # "drive" /\ d # NoFile
    <3> DEFINE h == [g EXCEPT !.pc = "commit", !.tmpls = TemplatesOf[d]]
    <3>1. queue' = Put(g.path, n, d) /\ drive' = [drive EXCEPT ![g.key] = NoFile]
          /\ reg' = [reg EXCEPT ![r] = h] /\ UNCHANGED lock
      BY <2>3 DEF MoveToQueue
    <3>2. FilesOK'
      BY <1>2, <1>3, <2>3, <3>1 DEF IntakeInv, FilesOK, Put, QueueDirs
    <3>3. TemplatesOf[d] \in SUBSET Templates
      BY <1>3, <2>3 DEF IntakeAssumption
    <3>4. h \in RegType
      BY <1>1, <3>3, RegUpdate DEF WatcherPC
    <3>5. /\ h.pc = "commit" /\ h.key = g.key /\ h.d = g.d /\ h.id = g.id /\ h.path = g.path
          /\ h.status = g.status /\ h.read = g.read /\ reg'[r] = h
      BY <1>1, <3>1, RegIs DEF RegType
    <3> HIDE DEF h
    <3>6. AtWork(r)'
      <4>2. g.id # Nobody => Known(g.id, g.key) /\ g.read \in Row /\ g.read.key = g.key
        BY <1>1 DEF AtWork, Refers
      <4>3. Refers(r)' => Known(reg[r].id, reg[r].key)'
                          /\ reg'[r].read \in Row /\ reg'[r].read.key = reg'[r].key
        BY <1>2, <3>5, <4>2 DEF Refers, Known, Live
      <4> QED BY <1>1, <1>2, <3>5, <4>3 DEF AtWork, Carries, Planned, Delivered
    <3> QED BY <1>1, <1>2, <3>1, <3>2, <3>4, <3>5, <3>6, RegMoves DEF IntakeInv, WatcherPC
  <2> QED BY <2>1, <2>2, <2>3
<1> QED BY <1>2, <1>4, TableKept, HandKept, CascKept DEF IntakeInv, FatesOK, fate

\* The reconsidered table: rows stay rows, keep their key, and turn to waiting.
LEMMA ReconsideredIs ==
  ASSUME IntakeNulls, NEW g, NEW table \in [RowIds -> Row \cup {NoRow, DeletedRow}]
  PROVE  LET new == Reconsidered(g, table)
         IN  /\ new \in [RowIds -> Row \cup {NoRow, DeletedRow}]
             /\ \A i \in RowIds :
                  IF table[i] \in Row
                  THEN /\ new[i] \in Row /\ new[i].key = table[i].key
                       /\ new[i].status = table[i].status \/ new[i].status = "PENDING_APPROVAL"
                  ELSE new[i] = table[i]
<1> DEFINE new == Reconsidered(g, table)
<1>1. \A x \in Row : /\ [x EXCEPT !.status = "PENDING_APPROVAL"] \in Row
                     /\ [x EXCEPT !.status = "PENDING_APPROVAL"].key = x.key
                     /\ [x EXCEPT !.status = "PENDING_APPROVAL"].status = "PENDING_APPROVAL"
  BY DEF Row
<1>2. ASSUME NEW i \in RowIds
      PROVE  IF table[i] \in Row
             THEN /\ new[i] \in Row /\ new[i].key = table[i].key
                  /\ new[i].status = table[i].status \/ new[i].status = "PENDING_APPROVAL"
             ELSE new[i] = table[i]
  <2>1. table[i] \in Row \cup {NoRow, DeletedRow}
    OBVIOUS
  <2>2. CASE table[i] \notin {NoRow, DeletedRow}
    <3>1. table[i] \in Row
      BY <2>1, <2>2
    <3>2. new[i] = table[i] \/ new[i] = [table[i] EXCEPT !.status = "PENDING_APPROVAL"]
      BY DEF Reconsidered
    <3> QED BY <1>1, <3>1, <3>2
  <2>3. CASE table[i] \in {NoRow, DeletedRow}
    BY <2>3 DEF Reconsidered, IntakeNulls
  <2> QED BY <2>2, <2>3
<1>3. \A i \in RowIds : new[i] \in Row \cup {NoRow, DeletedRow}
  BY <1>2
<1>4. new = [i \in RowIds |-> new[i]]
  BY DEF Reconsidered
<1> HIDE DEF new
<1>5. new \in [RowIds -> Row \cup {NoRow, DeletedRow}]
  BY <1>3, <1>4
<1> QED BY <1>2, <1>5 DEF new

LEMMA TableReconsidered ==
  ASSUME IntakeNulls, RowsOK, NEW g, NEW table, TableFrom(table)
  PROVE  TableFrom(Reconsidered(g, table))
<1> DEFINE new == Reconsidered(g, table)
<1>1. table \in [RowIds -> Row \cup {NoRow, DeletedRow}]
  BY DEF TableFrom
<1>2. /\ new \in [RowIds -> Row \cup {NoRow, DeletedRow}]
      /\ \A i \in RowIds :
           IF table[i] \in Row
           THEN /\ new[i] \in Row /\ new[i].key = table[i].key
                /\ new[i].status = table[i].status \/ new[i].status = "PENDING_APPROVAL"
           ELSE new[i] = table[i]
  BY <1>1, ReconsideredIs
<1> HIDE DEF new
<1>3. ASSUME NEW i \in RowIds
      PROVE  /\ rows[i] = NoRow /\ new[i] # NoRow =>
                  new[i] \in Row /\ Delivered(new[i].key) /\ new[i].status # "COMPLETED"
             /\ rows[i] = DeletedRow => new[i] = DeletedRow
             /\ i \in Live =>
                  /\ new[i] \in Row /\ new[i].key = rows[i].key
                  /\ new[i].status = "COMPLETED" => rows[i].status = "COMPLETED"
  BY <1>2 DEF TableFrom, IntakeNulls
<1>4. TableFrom(new)
  BY <1>2, <1>3 DEF TableFrom
<1> QED BY <1>4 DEF new

\* The row of a new upload, and of one that is known.
LEMMA NewRowIs ==
  ASSUME NEW g \in RegType, g.key \in Keys, g.path \in Path, g.status \in Statuses
  PROVE  NewRow(g) \in Row /\ NewRow(g).key = g.key /\ NewRow(g).status = g.status
<1>1. g.tmpls \in SUBSET Templates
  BY DEF RegType
<1> QED BY <1>1 DEF NewRow, Row, Statuses

LEMMA RewrittenIs ==
  ASSUME NEW g \in RegType, NEW old \in Row, g.path \in Path, g.status \in Statuses
  PROVE  Rewritten(g, old) \in Row /\ Rewritten(g, old).key = old.key
         /\ Rewritten(g, old).status = g.status
BY DEF Rewritten, Row, Statuses

\* What a registrar that stands before its commit makes of the table.
LEMMA CommitTable ==
  ASSUME IntakeNulls, IntakeInv, NEW x \in Registrars, reg[x].pc = "commit"
  PROVE  /\ reg[x].id = Nobody =>
              \A i \in First(Unused) : TableFrom([rows EXCEPT ![i] = NewRow(reg[x])])
                                       /\ i \in RowIds /\ NewRow(reg[x]) \in Row
                                       /\ NewRow(reg[x]).key = reg[x].key
         /\ reg[x].id \in Live =>
              /\ rows[reg[x].id].key = reg[x].key
              /\ TableFrom([rows EXCEPT ![reg[x].id] =
                   Over(@, reg[x].read, Rewritten(reg[x], reg[x].read))])
<1> DEFINE g == reg[x]
<1>1. /\ g \in RegType /\ g.key \in Keys /\ Delivered(g.key) /\ g.path \in Path
      /\ g.status \in Statuses /\ g.status # "COMPLETED"
      /\ g.id # Nobody => Known(g.id, g.key) /\ g.read \in Row /\ g.read.key = g.key
  BY RegIs DEF AtWork, Planned, Refers, Path
<1>2. RowsOK
  BY DEF IntakeInv
<1>3. /\ NewRow(g) \in Row /\ NewRow(g).key = g.key /\ NewRow(g).status = g.status
  BY <1>1, NewRowIs
<1>4. ASSUME g.id = Nobody, NEW i \in First(Unused)
      PROVE  i \in RowIds /\ TableFrom([rows EXCEPT ![i] = NewRow(g)])
  <2>1. i \in Unused
    BY <1>4, FirstIn
  <2> QED BY <1>1, <1>2, <1>3, <2>1, TableInserted DEF Unused
<1>5. ASSUME g.id \in Live
      PROVE  /\ rows[g.id].key = g.key
             /\ TableFrom([rows EXCEPT ![g.id] = Over(@, g.read, Rewritten(g, g.read))])
  <2>1. g.id # Nobody
    BY <1>5 DEF Live, IntakeNulls
  <2>2. rows[g.id].key = g.key /\ rows[g.id] \in Row /\ rows \in [RowIds -> Row \cup {NoRow, DeletedRow}] /\ g.id \in RowIds
    BY <1>1, <1>2, <1>5, <2>1 DEF Known, RowsOK, Live
  <2> DEFINE new == Over(rows[g.id], g.read, Rewritten(g, g.read))
  <2>3. /\ Rewritten(g, g.read) \in Row /\ Rewritten(g, g.read).key = g.read.key
        /\ Rewritten(g, g.read).status = g.status
    BY <1>1, <2>1, RewrittenIs
  <2>4. /\ new \in Row /\ new.key = rows[g.id].key
        /\ new.status = rows[g.id].status \/ new.status = g.status
    BY <1>1, <2>1, <2>2, <2>3, OverRow
  <2> HIDE DEF new
  <2>5. TableFrom([rows EXCEPT ![g.id] = new])
    BY <1>1, <1>2, <1>5, <2>4, TableRewritten
  <2> QED BY <2>2, <2>5 DEF new
<1> QED BY <1>3, <1>4, <1>5

LEMMA CommitRowEffect ==
  ASSUME IntakeNulls, IntakeInv, NEW r \in Watchers, CommitRow(r)
  PROVE  /\ RowsOK' /\ RowsKept /\ RowsStay /\ NoneCompleted
         /\ \E i \in Live' : rows'[i].key = reg[r].key
<1> DEFINE g == reg[r]
<1>1. r \in Registrars /\ g.pc = "commit" /\ RowsOK /\ sent' = sent
  BY WatcherIs DEF CommitRow, fate, IntakeInv
<1>2. CASE g.id = Nobody
  <2>1. PICK i \in First(Unused) : rows' = Reconsidered(g, [rows EXCEPT ![i] = NewRow(g)])
    BY <1>2 DEF CommitRow
  <2> DEFINE T == [rows EXCEPT ![i] = NewRow(g)]
  <2>2. TableFrom(T) /\ i \in RowIds /\ NewRow(g) \in Row /\ NewRow(g).key = g.key
    BY <1>1, <1>2, CommitTable
  <2>3. T[i] = NewRow(g)
    BY <1>1, <2>2 DEF RowsOK
  <2> HIDE DEF T
  <2>4. TableFrom(rows')
    BY <1>1, <2>1, <2>2, TableReconsidered DEF T
  <2>5. rows'[i] \in Row /\ rows'[i].key = g.key
    <3>1. T \in [RowIds -> Row \cup {NoRow, DeletedRow}]
      BY <2>2 DEF TableFrom
    <3>2. T[i] \in Row /\ T[i].key = g.key
      BY <2>2, <2>3
    <3>3. rows' = Reconsidered(g, T)
      BY <2>1 DEF T
    <3> QED BY <2>2, <3>1, <3>2, <3>3, ReconsideredIs
  <2>6. i \in Live'
    BY <2>2, <2>5, IntakeNulls DEF Live, IntakeNulls
  <2> QED BY <1>1, <2>4, <2>5, <2>6, TableEffect
<1>3. CASE g.id # Nobody
  <2>1. /\ g.id \in Live
        /\ rows' = Reconsidered(g, [rows EXCEPT ![g.id] =
                     Over(@, g.read, Rewritten(g, g.read))])
    BY <1>3 DEF CommitRow
  <2>2. /\ rows[g.id].key = g.key
        /\ TableFrom([rows EXCEPT ![g.id] = Over(@, g.read, Rewritten(g, g.read))])
    BY <1>1, <2>1, CommitTable
  <2>3. TableFrom(rows')
    BY <1>1, <2>1, <2>2, TableReconsidered
  <2>4. RowsOK' /\ RowsKept /\ RowsStay /\ NoneCompleted
    BY <1>1, <2>3, TableEffect
  <2>5. g.id \in Live' /\ rows'[g.id].key = g.key
    BY <2>1, <2>2, <2>4 DEF RowsStay
  <2> QED BY <2>4, <2>5
<1> QED BY <1>2, <1>3

LEMMA CommitRowKeeps ==
  ASSUME IntakeAssumption, IntakeNulls, IntakeInv, NEW r \in Watchers,
         CommitRow(r) \/ CommitFails(r)
  PROVE  IntakeInv'
<1>1. /\ reg[r].pc = "commit" /\ Release(r) /\ UNCHANGED <<mode, store, events, casc, hand, fate>>
  BY DEF CommitRow, CommitFails
<1>2. RowsOK' /\ RowsKept
  <2>1. CASE CommitRow(r)
    BY <2>1, CommitRowEffect
  <2>2. CASE CommitFails(r)
    BY <2>2, SameRows, TableKept DEF IntakeInv, CommitFails, fate
  <2> QED BY <2>1, <2>2
<1>3. sent' = sent
  BY <1>1 DEF fate
<1>4. RegOK'
  BY <1>1, <1>2, <1>3, ReleaseKeeps
<1> QED BY <1>1, <1>2, <1>3, <1>4, FilesKept, HandKept, CascKept DEF IntakeInv, FatesOK, fate

LEMMA UploadKeeps ==
  ASSUME IntakeAssumption, IntakeNulls, IntakeInv, NEW u \in Uploaders, NEW d \in Deliveries,
         NEW kind \in {"stage", "zip"}, Upload(u, d, kind)
  PROVE  IntakeInv'
<1> DEFINE g == [Idle EXCEPT !.pc = kind, !.d = d, !.key = Key(d), !.tmpls = TemplatesOf[d],
                    !.appr = With("APPROVED"), !.rej = With("REJECTED"), !.mode = mode]
<1>1. u \in Registrars /\ Key(d) \in Keys /\ TemplatesOf[d] \in SUBSET Templates /\ mode \in Modes
      /\ With("APPROVED") \in SUBSET Templates /\ With("REJECTED") \in SUBSET Templates
  BY UploaderIs DEF Key, Keys, IntakeAssumption, IntakeInv, FatesOK, With
<1>2. g \in RegType
  <2>1. kind \in WatcherPC \cup UploaderPC
    BY DEF UploaderPC
  <2> QED BY <1>1, <2>1, IdleIs, RegUpdate
<1>3. g.pc = kind /\ g.d = d /\ g.key = Key(d)
  BY DEF Idle
<1>4. reg' = [reg EXCEPT ![u] = g] /\ reg'[u] = g
  BY <1>1, RegIs DEF Upload
<1>5. sent' = sent \cup {d} /\ RowsKept /\ RowsOK
  BY SameRows DEF Upload, IntakeInv
<1> HIDE DEF g
<1>6. AtWork(u)'
  BY <1>1, <1>3, <1>4, <1>5 DEF AtWork, Carries, Planned, Refers, Delivered
<1>7. RegOK'
  BY <1>1, <1>2, <1>3, <1>4, <1>5, <1>6, RegMoves, UploaderIs DEF Upload, UploaderPC, IntakeInv
<1> QED BY <1>5, <1>7, FilesKept, TableKept, HandKept, CascKept DEF IntakeInv, FatesOK, Upload

LEMMA DestinationIs ==
  ASSUME NEW g, NEW m
  PROVE  /\ Destination(g, m).path \in {"drive", "incoming", "pending"}
         /\ Destination(g, m).path = "drive" <=> g.key[1] = Test
         /\ Destination(g, m).status \in Statuses \ {"COMPLETED"}
<1>1. CASE g.key[1] = Test
  BY <1>1 DEF Destination, Statuses
<1>2. CASE g.key[1] # Test
  BY <1>2, DecisionIs DEF Destination, Statuses
<1> QED BY <1>1, <1>2

\* A task ends.
LEMMA TaskEnds ==
  ASSUME IntakeInv, IntakeNulls, NEW u \in Uploaders, sent \subseteq sent', RowsKept,
         reg' = [reg EXCEPT ![u] = Idle], lock' = lock
  PROVE  RegOK'
<1>1. reg'[u] = Idle /\ u \in Registrars
  BY RegIs, UploaderIs
<1>2. AtWork(u)'
  BY <1>1, GoesIdle
<1>3. Idle \in RegType /\ Idle.pc \in UploaderPC /\ Idle.pc \notin {"move", "commit"}
  BY IdleIs DEF UploaderPC
<1> QED BY <1>1, <1>2, <1>3, RegMoves, UploaderIs DEF IntakeInv

LEMMA StageRowKeeps ==
  ASSUME IntakeAssumption, IntakeNulls, IntakeInv, NEW u \in Uploaders, StageRow(u)
  PROVE  IntakeInv'
<1> DEFINE g == reg[u]
           plan == Destination(g, mode)
<1>1. u \in Registrars /\ u \notin Watchers /\ g \in RegType /\ AtWork(u) /\ g.pc = "stage"
  BY UploaderIs, RegIs DEF StageRow
<1>2. /\ UNCHANGED <<verdict, mode, decisions, store, rows, lock, events, casc, hand, sent, printed, failed>>
      /\ RowsKept /\ RowsOK
  BY SameRows DEF StageRow, IntakeInv
<1>3. PICK i \in Found(g.key) :
        IF i # Nobody /\ rows[i].status = "COMPLETED"
        THEN dropped' = dropped \cup {g.d} /\ reg' = [reg EXCEPT ![u] = Idle]
        ELSE /\ reg' = [reg EXCEPT ![u] =
                  [g EXCEPT !.pc = "place", !.path = plan.path, !.status = plan.status,
                            !.id = i, !.read = IF i = Nobody THEN NoRow ELSE rows[i]]]
             /\ UNCHANGED dropped
  BY DEF StageRow
<1>4. g.d \in Deliveries /\ g.d \in sent /\ Key(g.d) = g.key
  BY <1>1 DEF AtWork, Carries, IntakeInv, FatesOK
<1>5. RegOK'
  <2>1. CASE reg' = [reg EXCEPT ![u] = Idle]
    BY <1>2, <2>1, TaskEnds
  <2>2. CASE reg' = [reg EXCEPT ![u] =
                  [g EXCEPT !.pc = "place", !.path = plan.path, !.status = plan.status,
                            !.id = i, !.read = IF i = Nobody THEN NoRow ELSE rows[i]]]
    <3> DEFINE old == IF i = Nobody THEN NoRow ELSE rows[i]
               h == [g EXCEPT !.pc = "place", !.path = plan.path, !.status = plan.status,
                              !.id = i, !.read = old]
    <3>1. /\ plan.path \in {"drive", "incoming", "pending"}
          /\ plan.path = "drive" <=> g.key[1] = Test
          /\ plan.status \in Statuses \ {"COMPLETED"}
      BY DestinationIs
    <3>2. i \in RowIds \cup {Nobody} /\ old \in Row \cup {NoRow}
          /\ (i # Nobody => i \in Live /\ rows[i].key = g.key /\ old \in Row /\ old.key = g.key)
      BY <1>2, <1>3 DEF Found, RowsOf, Live, RowsOK
    <3> HIDE DEF plan, old
    <3>3. plan.path \in Path \cup {"none"} /\ plan.status \in Statuses \cup {"none"}
          /\ "place" \in WatcherPC \cup UploaderPC
      BY <3>1 DEF Path, UploaderPC
    <3>4. h \in RegType
      BY <1>1, <3>2, <3>3, RegUpdate
    <3>5. /\ h.pc = "place" /\ h.id = i /\ h.read = old /\ h.path = plan.path
          /\ h.status = plan.status /\ h.key = g.key /\ h.d = g.d
      BY <1>1 DEF RegType
    <3>6. reg' = [reg EXCEPT ![u] = h] /\ reg'[u] = h
      BY <1>1, <2>2, RegIs DEF old
    <3> HIDE DEF h
    <3>7. i # Nobody => i \in RowIds /\ rows'[i] # NoRow /\ rows'[i].key = g.key
      BY <1>2, <3>2 DEF Live
    <3>8. AtWork(u)'
      <4>1. Refers(u)' =>
               /\ Known(reg[u].id, reg[u].key)'
               /\ reg'[u].read \in Row /\ reg'[u].read.key = reg'[u].key
        BY <3>2, <3>5, <3>6, <3>7 DEF Refers, Known
      <4> QED
        BY <1>1, <1>2, <1>4, <3>1, <3>5, <3>6, <4>1 DEF AtWork, Carries, Planned, Delivered
    <3> QED BY <1>1, <1>2, <3>4, <3>5, <3>6, <3>8, RegMoves DEF IntakeInv, UploaderPC
  <2> QED BY <1>3, <2>1, <2>2
<1>6. FatesOK'
  BY <1>2, <1>3, <1>4 DEF IntakeInv, FatesOK
<1> QED BY <1>2, <1>5, <1>6, FilesKept, TableKept, HandKept, CascKept DEF IntakeInv

LEMMA PlaceFiles ==
  ASSUME IntakeAssumption, IntakeInv, NEW u \in Uploaders, reg[u].pc \in {"place", "copy"},
         u \in Registrars, Place(reg[u]), sent' = sent
  PROVE  FilesOK' /\ events' \subseteq Keys
<1> DEFINE g == reg[u]
<1>1. AtWork(u) /\ g.key \in Keys /\ g.d \in sent /\ Key(g.d) = g.key /\ g.d \in Deliveries
      /\ g.path \in {"drive", "incoming", "pending"}
  BY RegIs DEF AtWork, Carries, Planned, IntakeInv, FatesOK
<1>2. g.key[2] \in Names /\ NameOf[g.d] = g.key[2]
  BY <1>1 DEF Keys, Key
<1>3. CASE g.path = "drive"
  <2>1. drive' = [drive EXCEPT ![g.key] = g.d] /\ events' = events \cup {g.key} /\ queue' = queue
    BY <1>3 DEF Place
  <2> QED BY <1>1, <2>1 DEF IntakeInv, FilesOK, FatesOK
<1>4. CASE g.path # "drive"
  <2>1. queue' = Put(g.path, g.key[2], g.d) /\ UNCHANGED <<drive, events>>
    BY <1>4 DEF Place
  <2>2. FilesOK'
    BY <1>1, <1>2, <1>4, <2>1 DEF IntakeInv, FilesOK, Put, QueueDirs
  <2> QED BY <2>1, <2>2 DEF IntakeInv, FatesOK
<1> QED BY <1>3, <1>4

LEMMA StageMoveKeeps ==
  ASSUME IntakeAssumption, IntakeNulls, IntakeInv, NEW u \in Uploaders, StageMove(u)
  PROVE  IntakeInv'
<1> DEFINE g == reg[u]
           h == [g EXCEPT !.pc = "commit", !.d = NoFile]
<1>1. u \in Registrars /\ u \notin Watchers /\ g \in RegType /\ AtWork(u) /\ g.pc = "place"
      /\ reg \in [Registrars -> RegType]
  BY UploaderIs, RegIs DEF StageMove, IntakeInv, RegOK
<1>2. /\ UNCHANGED <<verdict, mode, decisions, rows, lock, casc, hand, fate>> /\ sent' = sent
      /\ RowsKept
  BY SameRows DEF StageMove, IntakeInv, fate
<1>3. reg' = [reg EXCEPT ![u] = h]
  BY <1>1 DEF StageMove
<1>4. h \in RegType
  BY <1>1, RegUpdate DEF UploaderPC
<1>5. /\ h.pc = "commit" /\ h.d = NoFile /\ h.key = g.key /\ h.id = g.id /\ h.path = g.path
      /\ h.status = g.status /\ h.read = g.read /\ reg'[u] = h
  BY <1>1, <1>3 DEF RegType
<1> HIDE DEF h
<1>6. AtWork(u)'
  <2>2. g.id # Nobody => Known(g.id, g.key) /\ g.read \in Row /\ g.read.key = g.key
    BY <1>1 DEF AtWork, Refers
  <2>3. Refers(u)' => Known(reg[u].id, reg[u].key)'
                      /\ reg'[u].read \in Row /\ reg'[u].read.key = reg'[u].key
    BY <1>2, <1>5, <2>2 DEF Refers, Known, Live
  <2> QED BY <1>1, <1>2, <1>5, <2>3 DEF AtWork, Carries, Planned, Delivered
<1>7. RegOK'
  BY <1>1, <1>2, <1>3, <1>4, <1>5, <1>6, RegMoves DEF IntakeInv, UploaderPC
<1>8. FilesOK' /\ events' \subseteq Keys
  BY <1>1, <1>2, PlaceFiles DEF StageMove
<1> QED BY <1>2, <1>7, <1>8, TableKept, HandKept, CascKept DEF IntakeInv, FatesOK, fate

LEMMA StageCommitEffect ==
  ASSUME IntakeNulls, IntakeInv, NEW u \in Uploaders, StageCommit(u)
  PROVE  /\ RowsOK' /\ RowsKept /\ RowsStay /\ NoneCompleted
         /\ \/ \E i \in Live' : rows'[i].key = reg[u].key
            \/ reg[u].id # Nobody /\ reg[u].id \notin Live
<1> DEFINE g == reg[u]
<1>1. u \in Registrars /\ g.pc = "commit" /\ RowsOK /\ sent' = sent
  BY UploaderIs DEF StageCommit, fate, IntakeInv
<1>2. CASE g.id = Nobody
  <2>1. PICK i \in First(Unused) : rows' = [rows EXCEPT ![i] = NewRow(g)]
    BY <1>2 DEF StageCommit
  <2>2. TableFrom(rows') /\ i \in RowIds /\ NewRow(g) \in Row /\ NewRow(g).key = g.key
    BY <1>1, <1>2, <2>1, CommitTable
  <2>3. rows'[i] = NewRow(g)
    BY <1>1, <2>1, <2>2 DEF RowsOK
  <2>4. i \in Live'
    BY <2>2, <2>3 DEF Live, IntakeNulls
  <2> QED BY <1>1, <2>2, <2>3, <2>4, TableEffect
<1>3. CASE g.id # Nobody
  <2>1. rows' = [rows EXCEPT ![g.id] =
                 IF g.id \in Live THEN Over(@, g.read, Rewritten(g, g.read)) ELSE @]
    BY <1>3 DEF StageCommit
  <2>2. CASE g.id \in Live
    <3>1. rows' = [rows EXCEPT ![g.id] = Over(@, g.read, Rewritten(g, g.read))]
      BY <2>1, <2>2
    <3>2. TableFrom(rows') /\ rows[g.id].key = g.key
      BY <1>1, <2>2, <3>1, CommitTable
    <3>3. RowsOK' /\ RowsKept /\ RowsStay /\ NoneCompleted
      BY <1>1, <3>2, TableEffect
    <3>4. g.id \in Live' /\ rows'[g.id].key = g.key
      BY <2>2, <3>2, <3>3 DEF RowsStay
    <3> QED BY <3>3, <3>4
  <2>3. CASE g.id \notin Live
    <3>1. rows' = rows
      BY <1>1, <2>1, <2>3 DEF RowsOK
    <3> QED BY <1>1, <1>3, <2>3, <3>1, SameRows, TableKept
  <2> QED BY <2>2, <2>3
<1> QED BY <1>2, <1>3

LEMMA StageCommitKeeps ==
  ASSUME IntakeAssumption, IntakeNulls, IntakeInv, NEW u \in Uploaders, StageCommit(u)
  PROVE  IntakeInv'
<1>1. /\ reg' = [reg EXCEPT ![u] = Idle] /\ sent' = sent /\ lock' = lock
      /\ UNCHANGED <<mode, decisions, store, lock, events, casc, hand, fate>>
  BY DEF StageCommit, fate
<1>2. RowsOK' /\ RowsKept
  BY StageCommitEffect
<1> QED BY <1>1, <1>2, TaskEnds, FilesKept, HandKept, CascKept DEF IntakeInv, FatesOK, fate

LEMMA ZipRowEffect ==
  ASSUME IntakeNulls, IntakeInv, NEW u \in Uploaders, ZipRow(u)
  PROVE  /\ RowsOK' /\ RowsKept /\ RowsStay /\ NoneCompleted
         /\ \E i \in Live' : rows'[i].key = reg[u].key
         /\ reg'[u].pc = "copy" /\ reg'[u].key = reg[u].key /\ reg'[u].d = reg[u].d
         /\ IntakeAssumption => RegOK'
<1> DEFINE g == reg[u]
           plan == Destination(g, g.mode)
           h == [g EXCEPT !.pc = "copy", !.path = plan.path, !.status = plan.status]
<1>1. /\ u \in Registrars /\ u \notin Watchers /\ g \in RegType /\ AtWork(u) /\ g.pc = "zip"
      /\ RowsOK /\ sent' = sent /\ lock' = lock
  BY UploaderIs, RegIs DEF ZipRow, fate, IntakeInv
<1>2. /\ plan.path \in {"drive", "incoming", "pending"}
      /\ plan.path = "drive" <=> g.key[1] = Test
      /\ plan.status \in Statuses \ {"COMPLETED"}
  BY DestinationIs
<1>3. /\ \E i \in Found(g.key) :
           IF i = Nobody
           THEN \E j \in First(Unused) : rows' = [rows EXCEPT ![j] = NewRow(h)]
           ELSE rows' = [rows EXCEPT ![i] = [Rewritten(h, @) EXCEPT !.tmpls = g.tmpls]]
      /\ reg' = [reg EXCEPT ![u] = h]
  BY DEF ZipRow
<1> HIDE DEF plan
<1>4. /\ plan.path \in Path /\ plan.status \in Statuses /\ plan.status # "COMPLETED"
      /\ plan.path \in Path \cup {"none"} /\ plan.status \in Statuses \cup {"none"}
      /\ "copy" \in WatcherPC \cup UploaderPC
  BY <1>2 DEF Path, UploaderPC
<1>5. h \in RegType
  BY <1>1, <1>4, RegUpdate
<1>6. /\ h.pc = "copy" /\ h.path = plan.path /\ h.status = plan.status /\ h.key = g.key
      /\ h.d = g.d /\ h.id = g.id
  BY <1>1 DEF RegType
<1>7. reg'[u] = h
  BY <1>1, <1>3, RegIs
<1> HIDE DEF h
<1>8. g.key \in Keys /\ Delivered(g.key)
  BY <1>1 DEF AtWork
<1>9. PICK i \in Found(g.key) :
           IF i = Nobody
           THEN \E j \in First(Unused) : rows' = [rows EXCEPT ![j] = NewRow(h)]
           ELSE rows' = [rows EXCEPT ![i] = [Rewritten(h, @) EXCEPT !.tmpls = g.tmpls]]
  BY <1>3
<1>10. TableFrom(rows') /\ \E j \in Live' : rows'[j].key = g.key
  <2>1. CASE i = Nobody
    <3>1. PICK j \in First(Unused) : rows' = [rows EXCEPT ![j] = NewRow(h)]
      BY <1>9, <2>1
    <3>2. NewRow(h) \in Row /\ NewRow(h).key = g.key /\ NewRow(h).status = plan.status
      BY <1>4, <1>5, <1>6, <1>8, NewRowIs
    <3>3. j \in Unused
      BY FirstIn
    <3>4. TableFrom(rows')
      BY <1>1, <1>4, <1>8, <3>1, <3>2, <3>3, TableInserted
    <3>5. j \in Live' /\ rows'[j].key = g.key
      BY <1>1, <3>1, <3>2, <3>3 DEF Live, IntakeNulls, RowsOK, Unused
    <3> QED BY <3>4, <3>5
  <2>2. CASE i # Nobody
    <3> DEFINE new == [Rewritten(h, rows[i]) EXCEPT !.tmpls = g.tmpls]
    <3>1. i \in Live /\ rows[i].key = g.key /\ rows[i] \in Row /\ i \in RowIds
      BY <1>1, <1>9, <2>2 DEF Found, RowsOf, Live, RowsOK
    <3>2. /\ Rewritten(h, rows[i]) \in Row /\ Rewritten(h, rows[i]).key = g.key
          /\ Rewritten(h, rows[i]).status = plan.status
      BY <1>4, <1>5, <1>6, <3>1, RewrittenIs
    <3>3. g.tmpls \in SUBSET Templates
      BY <1>1 DEF RegType
    <3>4. new \in Row /\ new.key = g.key /\ new.status = plan.status
      BY <3>2, <3>3 DEF Row
    <3>5. rows' = [rows EXCEPT ![i] = new]
      BY <1>1, <1>9, <2>2, <3>1
    <3> HIDE DEF new
    <3>6. TableFrom(rows')
      BY <1>1, <1>4, <3>1, <3>4, <3>5, TableRewritten
    <3>7. i \in Live' /\ rows'[i].key = g.key
      BY <1>1, <3>1, <3>4, <3>5 DEF Live, IntakeNulls, RowsOK
    <3> QED BY <3>6, <3>7
  <2> QED BY <2>1, <2>2
<1>11. RowsOK' /\ RowsKept /\ RowsStay /\ NoneCompleted
  BY <1>1, <1>10, TableEffect
<1>12. AtWork(u)'
  BY <1>1, <1>2, <1>6, <1>7, <1>8 DEF AtWork, Carries, Planned, Refers, Delivered
<1>13. RegOK'
  BY <1>1, <1>3, <1>5, <1>6, <1>11, <1>12, RegMoves DEF IntakeInv, UploaderPC
<1> QED BY <1>6, <1>7, <1>10, <1>11, <1>13

LEMMA ZipKeeps ==
  ASSUME IntakeAssumption, IntakeNulls, IntakeInv, NEW u \in Uploaders, ZipRow(u) \/ ZipCopy(u)
  PROVE  IntakeInv'
<1>1. CASE ZipRow(u)
  <2>1. /\ sent' = sent /\ UNCHANGED <<verdict, mode, decisions, store, lock, events, casc, hand, fate>>
    BY <1>1 DEF ZipRow, fate
  <2>2. RowsOK' /\ RowsKept /\ RegOK'
    BY <1>1, ZipRowEffect
  <2> QED BY <2>1, <2>2, FilesKept, HandKept, CascKept DEF IntakeInv, FatesOK, fate
<1>2. CASE ZipCopy(u)
  <2>1. /\ sent' = sent /\ UNCHANGED <<verdict, mode, decisions, rows, lock, casc, hand, fate>>
        /\ reg' = [reg EXCEPT ![u] = Idle] /\ lock' = lock /\ RowsKept /\ u \in Registrars
        /\ reg[u].pc = "copy" /\ Place(reg[u])
    BY <1>2, SameRows, UploaderIs DEF ZipCopy, fate, IntakeInv
  <2>2. RegOK'
    BY <2>1, TaskEnds
  <2>3. FilesOK' /\ events' \subseteq Keys
    BY <2>1, PlaceFiles
  <2> QED BY <2>1, <2>2, <2>3, TableKept, HandKept, CascKept DEF IntakeInv, FatesOK, fate
<1> QED BY <1>1, <1>2
-----------------------------------------------------------------------------
(* The approval of a template.                                             *)

\* The cascade moves, and nothing else but the files.
LEMMA CascStep ==
  ASSUME IntakeInv, FilesOK', CascOK', UNCHANGED <<mode, rows, lock, events, reg, hand, fate>>
  PROVE  IntakeInv'
<1>1. RowsKept /\ sent' = sent
  BY SameRows DEF IntakeInv, fate
<1> QED BY <1>1, QuietStep, HandKept DEF IntakeInv, FatesOK, fate

LEMMA CascUpdate ==
  ASSUME NEW c \in CascType
  PROVE  /\ \A x \in {"idle", "load", "loop"} : [c EXCEPT !.pc = x] \in CascType
         /\ \A x \in {"none", "APPROVED", "REJECTED"} : [c EXCEPT !.verdict = x] \in CascType
         /\ \A x \in Templates \cup {Nobody} : [c EXCEPT !.t = x] \in CascType
         /\ \A x \in SUBSET Templates : [c EXCEPT !.appr = x] \in CascType
         /\ \A x \in Modes : [c EXCEPT !.mode = x] \in CascType
         /\ \A x \in SUBSET RowIds : [c EXCEPT !.todo = x] \in CascType
         /\ \A x \in RowTable : [c EXCEPT !.read = x] \in CascType
         /\ \A x \in RowTable : [c EXCEPT !.new = x] \in CascType
BY SMTT(30) DEF CascType

LEMMA QuietIs ==
  /\ Quiet \in CascType /\ Quiet.pc = "idle"
  /\ Quiet.read = [i \in {} |-> NoRow] /\ Quiet.new = [i \in {} |-> NoRow] /\ Quiet.todo = {}
<1>1. [i \in {} |-> NoRow] \in RowTable
  <2>1. [i \in {} |-> NoRow] \in [{} -> Row]
    OBVIOUS
  <2> QED BY <2>1 DEF RowTable
<1> QED BY <1>1 DEF Quiet, CascType, Modes

LEMMA QuietOK == ASSUME casc' = Quiet PROVE CascOK'
BY QuietIs DEF CascOK

LEMMA SetTemplateKeeps ==
  ASSUME IntakeInv, NEW t \in Templates, NEW v \in {"APPROVED", "REJECTED"}, SetTemplate(t, v)
  PROVE  IntakeInv'
<1> DEFINE c == [Quiet EXCEPT !.pc = "load", !.verdict = v, !.t = t]
<1>1. c \in CascType
  BY QuietIs, CascUpdate
<1>2. c.pc = "load" /\ c.verdict = v /\ c.read = Quiet.read /\ c.new = Quiet.new /\ c.todo = Quiet.todo
  BY DEF Quiet
<1> HIDE DEF c
<1>3. casc' = c
  BY DEF SetTemplate, c
<1>4. CascOK'
  BY <1>1, <1>2, <1>3, QuietIs DEF CascOK
<1>5. FilesOK' /\ UNCHANGED <<mode, rows, lock, events, reg, hand, fate>>
  BY FilesKept DEF SetTemplate, IntakeInv, fate
<1> QED BY <1>4, <1>5, CascStep

LEMMA CascadeLoadKeeps ==
  ASSUME IntakeInv, IntakeNulls, CascadeLoad
  PROVE  IntakeInv'
<1> DEFINE chosen == Candidates(casc.verdict, casc.t)
           read == [i \in chosen |-> rows[i]]
           c == [casc EXCEPT !.pc = "loop", !.appr = With("APPROVED"), !.mode = mode,
                             !.todo = chosen, !.read = read, !.new = read]
<1>1. casc \in CascType /\ casc.pc = "load" /\ casc.verdict \in {"APPROVED", "REJECTED"} /\ mode \in Modes
      /\ With("APPROVED") \in SUBSET Templates
  BY DEF CascadeLoad, IntakeInv, CascOK, CascType, FatesOK, With
<1>2. \A i \in chosen : i \in RowIds /\ i \in Live /\ rows[i] \in Row /\ rows[i].status # "COMPLETED"
  <2>1. RowsOK
    BY DEF IntakeInv
  <2> QED BY <2>1 DEF Candidates, Live, RowsOK
<1> HIDE DEF chosen
<1>3. chosen \in SUBSET RowIds
  BY <1>2
<1>4. read \in RowTable
  <2>1. read \in [chosen -> Row]
    BY <1>2
  <2> HIDE DEF read
  <2> QED BY <1>3, <2>1 DEF RowTable
<1>5. DOMAIN read = chosen /\ \A i \in chosen : read[i] = rows[i]
  OBVIOUS
<1> HIDE DEF read
<1>6. c \in CascType
  BY <1>1, <1>3, <1>4, CascUpdate
<1>7. c.pc = "loop" /\ c.verdict = casc.verdict /\ c.todo = chosen /\ c.read = read /\ c.new = read
  BY <1>1 DEF CascType
<1>8. casc' = c /\ UNCHANGED <<verdict, mode, decisions, store, rows, lock, events, reg, hand, fate>>
  BY DEF CascadeLoad, c, chosen, read
<1> HIDE DEF c
<1>9. \A i \in chosen : rows'[i] # NoRow /\ (i \in Live' => rows'[i].key = rows[i].key)
  BY <1>2, <1>8 DEF Live
<1>10. CascOK'
  BY <1>1, <1>2, <1>5, <1>6, <1>7, <1>8, <1>9 DEF CascOK, Known
<1> QED BY <1>8, <1>10, CascStep, FilesKept DEF IntakeInv, fate

LEMMA JudgedIs ==
  ASSUME NEW row \in Row, NEW c \in CascType, c.verdict # "none",
         row.status # "COMPLETED"
  PROVE  Judged(row, c) \in Row /\ Judged(row, c).key = row.key
         /\ Judged(row, c).status # "COMPLETED"
<1>1. c.verdict \in {"APPROVED", "REJECTED"}
  BY DEF CascType
<1>2. \A s \in Statuses : [row EXCEPT !.status = s] \in Row /\ [row EXCEPT !.status = s].key = row.key
         /\ [row EXCEPT !.status = s].status = s
  BY DEF Row, Statuses
<1>3. \A s \in Statuses, b \in BOOLEAN :
         /\ [row EXCEPT !.status = s, !.run = b] \in Row
         /\ [row EXCEPT !.status = s, !.run = b].key = row.key
         /\ [row EXCEPT !.status = s, !.run = b].status = s
  BY DEF Row, Statuses
<1>4. row.status \in Statuses
  BY DEF Row, Statuses
<1>5. CASE row.key[1] = Test
  <2>1. Judged(row, c) = IF c.t \in row.tmpls THEN [row EXCEPT !.status = c.verdict] ELSE row
    BY <1>5 DEF Judged
  <2> QED BY <1>1, <1>2, <2>1 DEF Statuses
<1>6. CASE row.key[1] # Test /\ c.verdict = "APPROVED"
  <2> DEFINE s == IF Fully(row, c.appr)
                  THEN IF row.proc THEN "PARTIALLY_PROCESSED" ELSE "APPROVED"
                  ELSE IF row.tmpls \cap c.appr # {} THEN "PARTIALLY_PROCESSED"
                  ELSE "PENDING_APPROVAL"
             b == c.mode = "auto" /\ Fully(row, c.appr)
  <2>1. Judged(row, c) = [row EXCEPT !.status = s, !.run = b]
    BY <1>6 DEF Judged
  <2>2. s \in Statuses /\ s # "COMPLETED" /\ b \in BOOLEAN
    BY DEF Statuses
  <2> HIDE DEF s, b
  <2>3. PICK new : new = [row EXCEPT !.status = s, !.run = b]
    OBVIOUS
  <2>4. new \in Row /\ new.key = row.key /\ new.status = s
    BY <1>3, <2>2, <2>3
  <2> QED BY <2>1, <2>2, <2>3, <2>4
<1>7. CASE row.key[1] # Test /\ c.verdict # "APPROVED"
  <2> DEFINE s == IF row.tmpls \cap c.appr = {} THEN "REJECTED"
                       ELSE IF Fully(row, c.appr) THEN row.status ELSE "PARTIALLY_PROCESSED"
  <2>1. Judged(row, c) = [row EXCEPT !.status = s]
    BY <1>7 DEF Judged
  <2>2. s \in Statuses /\ s # "COMPLETED"
    BY <1>4 DEF Statuses
  <2> HIDE DEF s
  <2> QED BY <1>2, <2>1, <2>2
<1> QED BY <1>5, <1>6, <1>7

LEMMA CascadeMoveKeeps ==
  ASSUME IntakeInv, IntakeNulls, NEW i \in RowIds, CascadeMove(i)
  PROVE  IntakeInv'
<1> DEFINE row == casc.read[i]
           n == row.key[2]
           to == Goal(row, casc)
           moves == /\ row.key[1] # Test
                    /\ row.path \in {"incoming", "pending"} \ {to}
                    /\ queue[row.path][n] # NoFile
           new == [Judged(row, casc) EXCEPT !.path = IF moves THEN to ELSE @]
           c == [casc EXCEPT !.todo = @ \ {i}, !.new[i] = new]
<1>1. /\ casc \in CascType /\ casc.pc = "loop" /\ i \in casc.todo /\ casc.verdict # "none"
      /\ i \in DOMAIN casc.read /\ DOMAIN casc.new = DOMAIN casc.read
      /\ casc.read \in RowTable /\ casc.new \in RowTable /\ casc.todo \in SUBSET RowIds
  BY DEF CascadeMove, IntakeInv, CascOK, CascType
<1>2. row \in Row /\ row.status # "COMPLETED" /\ row.key \in Keys /\ n \in Names
      /\ Known(i, row.key)
  <2>1. row \in Row
    BY <1>1 DEF RowTable
  <2>2. row.key \in Keys
    BY <2>1 DEF Row
  <2> QED BY <1>1, <2>1, <2>2 DEF IntakeInv, CascOK, Keys
<1>3. to \in QueueDirs
  BY DEF Goal, QueueDirs
<1>4. FilesOK'
  <2>1. FilesOK /\ drive' = drive /\ sent' = sent
        /\ queue' = IF moves
                    THEN [queue EXCEPT ![row.path][n] = NoFile, ![to][n] = queue[row.path][n]]
                    ELSE queue
    BY DEF CascadeMove, IntakeInv, fate
  <2> HIDE DEF n, to, row
  <2>2. CASE moves
    <3>1. row.path \in QueueDirs /\ row.path # to
      BY <2>2 DEF QueueDirs
    <3>0. queue \in [QueueDirs -> [Names -> Deliveries \cup {NoFile}]]
      BY <2>1 DEF FilesOK
    <3>2. PICK p \in QueueDirs : p = row.path
      BY <3>1
    <3>3. queue' = [queue EXCEPT ![p][n] = NoFile, ![to][n] = queue[p][n]] /\ p # to
      BY <2>1, <2>2, <3>1, <3>2
    <3>4. /\ queue' \in [QueueDirs -> [Names -> Deliveries \cup {NoFile}]]
          /\ \A z \in QueueDirs, m \in Names :
               queue'[z][m] = IF m # n THEN queue[z][m]
                              ELSE IF z = p THEN NoFile
                              ELSE IF z = to THEN queue[p][n] ELSE queue[z][m]
      <4>1. PICK m \in Names : m = n
        BY <1>2
      <4>2. PICK q \in QueueDirs : q = to
        BY <1>3
      <4>3. queue' = [queue EXCEPT ![p][m] = NoFile, ![q][m] = queue[p][m]] /\ p # q
        BY <3>3, <4>1, <4>2
      <4> HIDE DEF new, c, moves
      <4>4. /\ queue' \in [QueueDirs -> [Names -> Deliveries \cup {NoFile}]]
            /\ \A z \in QueueDirs, k \in Names :
                 queue'[z][k] = IF k # m THEN queue[z][k]
                                ELSE IF z = p THEN NoFile
                                ELSE IF z = q THEN queue[p][m] ELSE queue[z][k]
        BY ONLY <3>0, <4>3
      <4> QED BY <4>1, <4>2, <4>4
    <3>5. \A z \in QueueDirs, m \in Names :
            queue'[z][m] # NoFile => queue'[z][m] \in sent' /\ NameOf[queue'[z][m]] = m
      BY <1>2, <2>1, <3>2, <3>4 DEF FilesOK
    <3> QED BY <2>1, <3>4, <3>5 DEF FilesOK
  <2>3. CASE ~moves
    <3>1. queue' = queue
      BY <2>1, <2>3
    <3> QED BY <2>1, <3>1 DEF FilesOK
  <2> QED BY <2>2, <2>3
<1>5. new \in Row /\ new.key = row.key /\ new.status # "COMPLETED"
  <2> DEFINE jr == Judged(row, casc)
             p == IF moves THEN to ELSE jr.path
  <2>1. jr \in Row /\ jr.key = row.key /\ jr.status # "COMPLETED"
    BY <1>1, <1>2, JudgedIs
  <2>2. p \in Path
    BY <1>3, <2>1 DEF Row, Path, QueueDirs
  <2>3. new = [jr EXCEPT !.path = p]
    OBVIOUS
  <2> HIDE DEF jr, p, new
  <2> QED BY <2>1, <2>2, <2>3 DEF Row
<1>6. /\ casc' = c
      /\ UNCHANGED <<verdict, mode, decisions, drive, rows, lock, events, reg, hand, fate>>
  BY DEF CascadeMove
<1> HIDE DEF new, row, n, to, moves
<1>7. /\ [casc.new EXCEPT ![i] = new] \in RowTable
      /\ DOMAIN [casc.new EXCEPT ![i] = new] = DOMAIN casc.read
      /\ \A k \in DOMAIN casc.read :
           [casc.new EXCEPT ![i] = new][k] = IF k = i THEN new ELSE casc.new[k]
  <2>1. PICK S \in SUBSET RowIds : casc.new \in [S -> Row]
    BY <1>1 DEF RowTable
  <2>2. [casc.new EXCEPT ![i] = new] \in [S -> Row]
    BY <1>5, <2>1
  <2> QED BY <1>1, <2>1, <2>2 DEF RowTable
<1>8. casc.todo \ {i} \in SUBSET RowIds
  BY <1>1
<1>9. c = [casc EXCEPT !.todo = casc.todo \ {i}, !.new = [casc.new EXCEPT ![i] = new]]
  BY <1>1 DEF CascType
<1>10. c \in CascType
  BY <1>1, <1>7, <1>8, <1>9, CascUpdate
<1>11. c.pc = casc.pc /\ c.verdict = casc.verdict /\ c.todo = casc.todo \ {i} /\ c.read = casc.read
       /\ c.new = [casc.new EXCEPT ![i] = new]
  BY <1>1, <1>9 DEF CascType
<1> HIDE DEF c
<1>12. \A k \in DOMAIN casc.read : k \in RowIds /\ rows'[k] # NoRow /\ (k \in Live' => rows'[k].key = casc.read[k].key)
  BY <1>6 DEF IntakeInv, CascOK, Known, Live
<1>13. CascOK'
  <2>1. CascOK
    BY DEF IntakeInv
  <2>2. \A k \in DOMAIN casc'.read : Known(k, casc.read[k].key)'
    BY <1>6, <1>11, <1>12 DEF Known
  <2>3. \A k \in DOMAIN casc'.read :
           /\ casc'.new[k].key = casc'.read[k].key
           /\ casc'.read[k].status # "COMPLETED" /\ casc'.new[k].status # "COMPLETED"
    BY <1>2, <1>5, <1>6, <1>7, <1>11, <2>1 DEF CascOK, row
  <2>4. /\ casc' \in CascType /\ casc'.verdict # "none"
        /\ DOMAIN casc'.new = DOMAIN casc'.read /\ casc'.todo \subseteq DOMAIN casc'.read
    BY <1>1, <1>6, <1>7, <1>10, <1>11, <2>1 DEF CascOK
  <2> QED BY <2>2, <2>3, <2>4 DEF CascOK
<1> QED BY <1>4, <1>6, <1>13, CascStep

LEMMA CascadeCommitEffect ==
  ASSUME IntakeNulls, IntakeInv, CascadeCommit
  PROVE  RowsOK' /\ RowsKept /\ RowsStay /\ NoneCompleted
<1> DEFINE ids == DOMAIN casc.new
<1>1. RowsOK /\ sent' = sent
  BY DEF CascadeCommit, fate, IntakeInv
<1>2. CASE ~(ids \subseteq Live)
  <2>1. rows' = rows
    BY <1>2 DEF CascadeCommit
  <2> QED BY <1>1, <2>1, SameRows, TableKept
<1>3. CASE ids \subseteq Live
  <2>1. rows' = [i \in RowIds |-> IF i \in ids THEN Over(rows[i], casc.read[i], casc.new[i])
                                  ELSE rows[i]]
    BY <1>3 DEF CascadeCommit
  <2>2. /\ casc.pc = "loop" /\ casc \in CascType /\ ids = DOMAIN casc.read
        /\ casc.read \in RowTable /\ casc.new \in RowTable
        /\ rows \in [RowIds -> Row \cup {NoRow, DeletedRow}]
    BY <1>1 DEF CascadeCommit, IntakeInv, CascOK, CascType, RowsOK
  <2>3. ASSUME NEW i \in ids
        PROVE  /\ i \in RowIds /\ rows'[i] \in Row /\ rows'[i].key = rows[i].key
               /\ rows'[i].status = "COMPLETED" => rows[i].status = "COMPLETED"
    <3>1. casc.read[i] \in Row /\ casc.new[i] \in Row /\ i \in RowIds
      BY <2>2 DEF RowTable
    <3>2. rows[i] \in Row
      BY <1>3, <2>2, <3>1 DEF Live
    <3>3. casc.new[i].key = casc.read[i].key /\ casc.new[i].status # "COMPLETED"
      BY <2>2 DEF IntakeInv, CascOK
    <3>4. rows'[i] = Over(rows[i], casc.read[i], casc.new[i])
      BY <2>1, <3>1
    <3> QED BY <3>1, <3>2, <3>3, <3>4, OverRow
  <2>4. \A i \in RowIds \ ids : rows'[i] = rows[i]
    BY <2>1
  <2>5. rows' \in [RowIds -> Row \cup {NoRow, DeletedRow}]
    <3> DEFINE f == [i \in RowIds |-> IF i \in ids THEN Over(rows[i], casc.read[i], casc.new[i])
                                  ELSE rows[i]]
    <3>1. rows' = [i \in RowIds |-> rows'[i]]
      <4>1. DOMAIN rows' = RowIds
        BY <2>1
      <4> QED BY <2>1, <4>1
    <3>2. \A i \in RowIds : rows'[i] \in Row \cup {NoRow, DeletedRow}
      BY <2>2, <2>3, <2>4
    <3> QED BY <3>1, <3>2
  <2> HIDE DEF ids
  <2>6. TableFrom(rows')
    <3>1. ASSUME NEW i \in RowIds
          PROVE  /\ rows[i] = NoRow /\ rows'[i] # NoRow => FALSE
                 /\ rows[i] = DeletedRow => rows'[i] = DeletedRow
                 /\ i \in Live =>
                      /\ rows'[i] \in Row /\ rows'[i].key = rows[i].key
                      /\ rows'[i].status = "COMPLETED" => rows[i].status = "COMPLETED"
      <4>1. CASE i \in ids
        BY <1>3, <2>3, <4>1 DEF Live
      <4>2. CASE i \notin ids
        BY <2>2, <2>4, <4>2 DEF Live
      <4> QED BY <4>1, <4>2
    <3> QED BY <2>5, <3>1 DEF TableFrom
  <2> QED BY <1>1, <2>6, TableEffect
<1> QED BY <1>2, <1>3

LEMMA CascadeCommitKeeps ==
  ASSUME IntakeInv, IntakeNulls, CascadeCommit
  PROVE  IntakeInv'
<1>1. /\ UNCHANGED <<verdict, mode, decisions, store, lock, events, reg, hand, fate>>
      /\ casc' = Quiet /\ sent' = sent
  BY DEF CascadeCommit, fate
<1>2. RowsOK' /\ RowsKept
  BY CascadeCommitEffect
<1> QED BY <1>1, <1>2, QuietOK, FilesKept, RegKept, HandKept DEF IntakeInv, FatesOK, fate

LEMMA DeleteEffect ==
  ASSUME IntakeInv, IntakeNulls, NEW i \in RowIds, DeleteUpload(i)
  PROVE  /\ RowsOK' /\ RowsKept /\ NoneCompleted
         /\ \A j \in Live \ {i} : j \in Live' /\ rows'[j].key = rows[j].key
         /\ i \notin Live'
<1>1. /\ i \in Live /\ rows' = [rows EXCEPT ![i] = DeletedRow] /\ sent' = sent /\ RowsOK
  BY DEF DeleteUpload, IntakeInv
<1>2. /\ rows' \in [RowIds -> Row \cup {NoRow, DeletedRow}]
      /\ \A j \in RowIds : rows'[j] = IF j = i THEN DeletedRow ELSE rows[j]
  BY <1>1 DEF RowsOK
<1>3. Live' = Live \ {i}
  BY <1>2 DEF Live
<1>4. RowsOK'
  BY <1>1, <1>2, <1>3 DEF RowsOK, Delivered, Live
<1>5. RowsKept
  BY <1>1, <1>2, <1>3 DEF RowsKept, Live, IntakeNulls
<1> QED BY <1>2, <1>3, <1>4, <1>5 DEF NoneCompleted, Live

LEMMA DeleteKeeps ==
  ASSUME IntakeInv, IntakeNulls, NEW i \in RowIds, DeleteUpload(i)
  PROVE  IntakeInv'
<1>1. /\ UNCHANGED <<verdict, mode, decisions, lock, events, reg, casc, hand, sent, printed, failed>>
      /\ i \in Live /\ RowsOK
  BY DEF DeleteUpload, IntakeInv
<1>2. RowsOK' /\ RowsKept
  BY DeleteEffect
<1>3. rows[i] \in Row /\ rows[i].key \in Keys /\ rows[i].key[2] \in Names
  <2>1. rows[i] \in Row
    BY <1>1 DEF RowsOK, Live
  <2>2. rows[i].key \in Keys
    BY <2>1 DEF Row
  <2> QED BY <2>1, <2>2 DEF Keys
<1>4. FilesOK'
  BY <1>1, <1>3 DEF DeleteUpload, IntakeInv, FilesOK, Put, QueueDirs
<1>5. FatesOK'
  <2>1. dropped' \subseteq dropped \cup sent
    BY DEF DeleteUpload
  <2> QED BY <1>1, <2>1 DEF IntakeInv, FatesOK
<1> QED BY <1>1, <1>2, <1>4, <1>5, RegKept, HandKept, CascKept DEF IntakeInv

LEMMA HandUpdate ==
  ASSUME NEW h \in HandType
  PROVE  /\ \A x \in {"idle", "look", "work"} : [h EXCEPT !.pc = x] \in HandType
         /\ \A x \in Names \cup {Nobody} : [h EXCEPT !.name = x] \in HandType
         /\ \A x \in Deliveries \cup {NoFile} : [h EXCEPT !.d = x] \in HandType
         /\ \A x \in Nat : [h EXCEPT !.tries = x] \in HandType
         /\ \A x \in RowIds \cup {Nobody} : [h EXCEPT !.id = x] \in HandType
BY DEF HandType

LEMMA EmptyIs ==
  EmptyHand \in HandType /\ EmptyHand.pc = "idle" /\ EmptyHand.d = NoFile
BY DEF EmptyHand, HandType

LEMMA ClaimKeeps ==
  ASSUME IntakeInv, IntakeNulls, NEW n \in Names, Claim(n)
  PROVE  IntakeInv'
<1> DEFINE d == queue.incoming[n]
           h == [EmptyHand EXCEPT !.pc = "look", !.name = n, !.d = d]
<1>1. /\ hand' = h /\ queue' = Put("incoming", n, NoFile)
      /\ UNCHANGED <<verdict, mode, decisions, drive, rows, lock, events, reg, casc, fate>>
      /\ sent' = sent
  BY DEF Claim, fate
<1>2. d \in sent /\ NameOf[d] = n /\ d \in Deliveries
  BY DEF Claim, IntakeInv, FilesOK, FatesOK, QueueDirs
<1>3. h \in HandType
  BY <1>2, EmptyIs, HandUpdate
<1>4. h.pc = "look" /\ h.name = n /\ h.d = d
  BY DEF EmptyHand
<1> HIDE DEF h, d
<1>5. HandOK'
  BY <1>1, <1>2, <1>3, <1>4 DEF HandOK
<1>6. FilesOK'
  BY <1>1 DEF IntakeInv, FilesOK, Put, QueueDirs
<1>7. RowsKept
  BY <1>1, SameRows DEF IntakeInv
<1> QED BY <1>1, <1>5, <1>6, <1>7, QuietStep, CascKept DEF IntakeInv, FatesOK, fate

LEMMA LookUpEffect ==
  ASSUME IntakeInv, IntakeNulls, LookUpRow
  PROVE  RowsOK' /\ RowsKept /\ RowsStay /\ NoneCompleted /\ HandOK' /\ hand'.d = hand.d
<1>1. hand \in HandType /\ hand.pc = "look" /\ hand.name \in Names /\ hand.d \in sent
      /\ NameOf[hand.d] = hand.name /\ sent' = sent /\ RowsOK
  BY DEF LookUpRow, IntakeInv, HandOK, fate
<1>2. CASE \E i \in RowsNamed(hand.name) :
             /\ hand' = [hand EXCEPT !.pc = "work", !.id = i]
             /\ rows' = [rows EXCEPT ![i].status = "GENERATING", ![i].run = TRUE]
  <2>1. PICK i \in RowsNamed(hand.name) :
             /\ hand' = [hand EXCEPT !.pc = "work", !.id = i]
             /\ rows' = [rows EXCEPT ![i].status = "GENERATING", ![i].run = TRUE]
    BY <1>2
  <2>2. i \in Live /\ i \in RowIds /\ rows[i] \in Row /\ rows[i].key[2] = hand.name
    BY <1>1 DEF RowsNamed, Live, RowsOK
  <2> DEFINE new == [rows[i] EXCEPT !.status = "GENERATING", !.run = TRUE]
  <2>3. new \in Row /\ new.key = rows[i].key /\ new.status = "GENERATING"
    BY <2>2 DEF Row
  <2>4. rows' = [rows EXCEPT ![i] = new]
    BY <1>1, <2>1, <2>2 DEF RowsOK
  <2> HIDE DEF new
  <2>5. TableFrom(rows')
    BY <1>1, <2>2, <2>3, <2>4, TableRewritten
  <2>6. RowsOK' /\ RowsKept /\ RowsStay /\ NoneCompleted
    BY <1>1, <2>5, TableEffect
  <2>7. rows'[i] # NoRow /\ rows'[i].key[2] = hand.name
    BY <1>1, <2>2, <2>3, <2>4 DEF RowsOK, IntakeNulls
  <2>8. hand' \in HandType /\ hand'.pc = "work" /\ hand'.id = i /\ hand'.name = hand.name
        /\ hand'.d = hand.d
    <3>1. [hand EXCEPT !.pc = "work", !.id = i] \in HandType
      BY <1>1, <2>2, HandUpdate
    <3> QED BY <1>1, <2>1, <3>1 DEF HandType
  <2> QED BY <1>1, <2>2, <2>6, <2>7, <2>8 DEF HandOK
<1>3. CASE hand' = [hand EXCEPT !.tries = @ + 1] /\ UNCHANGED rows
  <2>1. hand' \in HandType /\ hand'.pc = "look" /\ hand'.name = hand.name /\ hand'.d = hand.d
    <3>1. hand.tries + 1 \in Nat
      BY <1>1 DEF HandType
    <3>2. hand' = [hand EXCEPT !.tries = hand.tries + 1]
      BY <1>1, <1>3 DEF HandType
    <3> QED BY <1>1, <3>1, <3>2, HandUpdate DEF HandType
  <2> QED BY <1>1, <1>3, <2>1, SameRows, TableKept DEF HandOK
<1> QED BY <1>2, <1>3 DEF LookUpRow

LEMMA LookUpKeeps ==
  ASSUME IntakeInv, IntakeNulls, LookUpRow
  PROVE  IntakeInv'
<1>1. UNCHANGED <<verdict, mode, decisions, store, lock, events, reg, casc, fate>> /\ sent' = sent
  BY DEF LookUpRow, fate
<1>2. RowsOK' /\ RowsKept /\ HandOK'
  BY LookUpEffect
<1> QED BY <1>1, <1>2, FilesKept, RegKept, CascKept DEF IntakeInv, FatesOK, fate

LEMMA EmptyOK == ASSUME hand' = EmptyHand PROVE HandOK'
BY EmptyIs DEF HandOK

LEMMA OrphanKeeps ==
  ASSUME IntakeInv, IntakeNulls, DeleteOrphan
  PROVE  IntakeInv'
<1>1. /\ UNCHANGED <<verdict, mode, decisions, store, rows, lock, events, reg, casc, sent, printed, failed>>
      /\ hand' = EmptyHand /\ dropped' = dropped \cup {hand.d} /\ hand.d \in sent /\ RowsKept
  BY SameRows DEF DeleteOrphan, IntakeInv, HandOK
<1>2. FatesOK'
  BY <1>1 DEF IntakeInv, FatesOK
<1> QED BY <1>1, <1>2, QuietStep, FilesKept, CascKept, EmptyOK DEF IntakeInv

LEMMA DoneEffect ==
  ASSUME IntakeInv, IntakeNulls, NEW outcome \in {"printed", "failed", "kept"}, WorkDone(outcome)
  PROVE  /\ RowsOK' /\ RowsKept /\ RowsStay
         /\ outcome # "printed" => NoneCompleted
         /\ outcome = "printed" => \A i \in Live' :
              i \in Live /\ rows'[i].key = rows[i].key
              /\ (i # hand.id => rows'[i].status = rows[i].status)
<1>1. /\ hand \in HandType /\ hand.pc = "work" /\ sent' = sent /\ RowsOK /\ hand.id \in RowIds
      /\ rows \in [RowIds -> Row \cup {NoRow, DeletedRow}]
  BY DEF WorkDone, IntakeInv, HandOK, RowsOK
<1>2. PICK st \in Statuses, p \in Path : rows' = Closed(st, p) /\ (outcome # "printed" => st # "COMPLETED")
  <2>1. CASE outcome = "printed"
    <3>1. "COMPLETED" \in Statuses /\ "processed" \in Path
      BY DEF Statuses, Path
    <3> QED BY <2>1, <3>1 DEF WorkDone
  <2>2. CASE outcome = "failed"
    <3>1. "FAILED" \in Statuses /\ "failed" \in Path
      BY DEF Statuses, Path
    <3> QED BY <2>2, <3>1 DEF WorkDone
  <2>3. CASE outcome = "kept"
    <3>1. "PARTIALLY_PROCESSED" \in Statuses /\ "pending" \in Path
      BY DEF Statuses, Path
    <3> QED BY <2>3, <3>1 DEF WorkDone
  <2> QED BY <2>1, <2>2, <2>3
<1> DEFINE i == hand.id
           new == [rows[i] EXCEPT !.status = st, !.path = p, !.proc = TRUE]
<1>3. CASE i \in Live
  <2>1. rows[i] \in Row
    BY <1>1, <1>3 DEF Live
  <2>2. new \in Row /\ new.key = rows[i].key /\ new.status = st
    BY <1>2, <2>1 DEF Row, Statuses
  <2>3. rows' = [rows EXCEPT ![i] = new]
    BY <1>1, <1>2, <1>3 DEF Closed
  <2> HIDE DEF new
  <2>4. /\ RowsOK' /\ RowsKept /\ RowsStay
        /\ (outcome # "printed" => NoneCompleted)
    BY <1>1, <1>2, <1>3, <2>2, <2>3, RowRewritten
  <2>5. \A j \in RowIds : rows'[j] = IF j = i THEN new ELSE rows[j]
    BY <1>1, <2>3
  <2>6. \A j \in Live' : j \in Live /\ rows'[j].key = rows[j].key /\ (j # i => rows'[j].status = rows[j].status)
    BY <1>3, <2>2, <2>5 DEF Live
  <2> QED BY <2>4, <2>6
<1>4. CASE i \notin Live
  <2>1. rows' = rows
    BY <1>1, <1>2, <1>4 DEF Closed
  <2> QED BY <1>1, <2>1, SameRows, TableKept DEF Live
<1> QED BY <1>3, <1>4

LEMMA DoneKeeps ==
  ASSUME IntakeInv, IntakeNulls, NEW outcome \in {"printed", "failed", "kept"}, WorkDone(outcome)
  PROVE  IntakeInv'
<1>1. /\ UNCHANGED <<verdict, mode, decisions, drive, lock, events, reg, casc, sent, dropped>>
      /\ hand' = EmptyHand /\ hand.d \in sent /\ hand.d \in Deliveries /\ hand.name \in Names
      /\ NameOf[hand.d] = hand.name
  BY DEF WorkDone, IntakeInv, HandOK, FatesOK
<1>2. RowsOK' /\ RowsKept
  BY DoneEffect
<1>3. /\ queue' = queue \/ queue' = Put("pending", hand.name, hand.d)
      /\ printed' \subseteq printed \cup {hand.d} /\ failed' \subseteq failed \cup {hand.d}
  BY DEF WorkDone
<1>4. FilesOK'
  BY <1>1, <1>3 DEF IntakeInv, FilesOK, Put, QueueDirs
<1>5. FatesOK'
  BY <1>1, <1>3 DEF IntakeInv, FatesOK
<1> QED BY <1>1, <1>2, <1>4, <1>5, RegKept, CascKept, EmptyOK DEF IntakeInv

LEMMA NextIntake ==
  ASSUME IntakeAssumption, IntakeNulls, IntakeInv, [Next]_vars
  PROVE  IntakeInv'
<1>1. CASE UNCHANGED vars
  <2>1. /\ UNCHANGED <<mode, store, rows, lock, events, reg, casc, hand, fate>> /\ sent' = sent /\ RowsKept
    BY <1>1, SameRows DEF vars, store, fate, IntakeInv
  <2> QED BY <2>1, QuietStep, FilesKept, HandKept, CascKept DEF IntakeInv, FatesOK, fate
<1>2. ASSUME NEW r \in Watchers, Register(r) PROVE IntakeInv'
  BY <1>2, PlanKeeps, MoveKeeps, CommitRowKeeps DEF Register
<1>3. ASSUME NEW u \in Uploaders, Task(u) PROVE IntakeInv'
  BY <1>3, UploadKeeps, StageRowKeeps, StageMoveKeeps, StageCommitKeeps, ZipKeeps DEF Task
<1>4. ASSUME Cascade PROVE IntakeInv'
  BY <1>4, SetTemplateKeeps, CascadeLoadKeeps, CascadeMoveKeeps, CascadeCommitKeeps DEF Cascade
<1>5. ASSUME Worker PROVE IntakeInv'
  BY <1>5, ClaimKeeps, LookUpKeeps, OrphanKeeps, DoneKeeps DEF Worker
<1> QED BY <1>1, <1>2, <1>3, <1>4, <1>5, DropKeeps, ChangeModeKeeps, EventKeeps, DeleteKeeps DEF Next

\* What lies on the drive and in the queue was delivered under that name, a row
\* belongs to the key that was delivered and keeps it, a thread between the move
\* and the commit holds the lock of its process and the row of its own key, the
\* worker's file has the name of the row it works for, and the cascade of an
\* approval never writes COMPLETED (watcher.py:238-342, billing.py:1772-1928,
\* worker_queue.py:231-249).
THEOREM IntakeInvariant == Spec => []IntakeInv
<1>1. Init => IntakeInv
  BY IntakeAssumption, IntakeNulls, InitIntake
<1>2. IntakeInv /\ [Next]_vars => IntakeInv'
  BY IntakeAssumption, IntakeNulls, NextIntake
<1> QED BY <1>1, <1>2, PTL DEF Spec
-----------------------------------------------------------------------------
(* What COMPLETED means.                                                   *)

\* A delivery is told from every other by its name alone, as the worker tells
\* them.
NamesTell == \A d, e \in Deliveries : NameOf[d] = NameOf[e] => FolderOf[d] = FolderOf[e]

LEMMA CompletedKept ==
  ASSUME CompletedWasPrinted, NoneCompleted, printed \subseteq printed'
  PROVE  CompletedWasPrinted'
<1>1. ASSUME NEW i \in Live', rows'[i].status = "COMPLETED"
      PROVE  \E d \in printed' : Key(d) = rows'[i].key
  BY <1>1 DEF CompletedWasPrinted, NoneCompleted
<1> QED BY <1>1 DEF CompletedWasPrinted, Key

\* Every step but the worker's printing of a file.
LEMMA OthersComplete ==
  ASSUME IntakeNulls, IntakeInv, [Next]_vars, ~WorkDone("printed")
  PROVE  NoneCompleted /\ printed \subseteq printed'
<1> USE IntakeNulls, IntakeInv
<1>1. CASE UNCHANGED rows /\ printed' = printed
  BY <1>1, SameRows DEF IntakeInv
<1>2. CASE UNCHANGED vars
  BY <1>1, <1>2 DEF vars
<1>3. ASSUME NEW d \in Deliveries, Drop(d) PROVE NoneCompleted /\ printed \subseteq printed'
  BY <1>1, <1>3 DEF Drop
<1>4. ASSUME ChangeMode PROVE NoneCompleted /\ printed \subseteq printed'
  BY <1>1, <1>4 DEF ChangeMode, fate
<1>5. ASSUME NEW r \in Watchers, NEW k \in Keys, OnEvent(r, k) \/ ScanExistingFiles(r, k)
      PROVE  NoneCompleted /\ printed \subseteq printed'
  BY <1>1, <1>5 DEF OnEvent, ScanExistingFiles, Detect, fate
<1>6. ASSUME NEW r \in Watchers, Register(r) PROVE NoneCompleted /\ printed \subseteq printed'
  BY <1>1, <1>6, CommitRowEffect DEF Register, Plan, MoveToQueue, CommitRow, CommitFails, fate
<1>7. ASSUME NEW u \in Uploaders, Task(u) PROVE NoneCompleted /\ printed \subseteq printed'
  BY <1>1, <1>7, StageCommitEffect, ZipRowEffect
  DEF Task, Upload, StageRow, StageMove, StageCommit, ZipRow, ZipCopy, fate
<1>8. ASSUME Cascade PROVE NoneCompleted /\ printed \subseteq printed'
  BY <1>1, <1>8, CascadeCommitEffect
  DEF Cascade, SetTemplate, CascadeLoad, CascadeMove, CascadeCommit, fate
<1>9. ASSUME NEW i \in RowIds, DeleteUpload(i) PROVE NoneCompleted /\ printed \subseteq printed'
  BY <1>9, DeleteEffect DEF DeleteUpload
<1>10. ASSUME Worker PROVE NoneCompleted /\ printed \subseteq printed'
  <2>1. ASSUME NEW n \in Names, Claim(n) PROVE NoneCompleted /\ printed \subseteq printed'
    BY <1>1, <2>1 DEF Claim, fate
  <2>2. ASSUME LookUpRow PROVE NoneCompleted /\ printed \subseteq printed'
    BY <2>2, LookUpEffect DEF LookUpRow, fate
  <2>3. ASSUME DeleteOrphan PROVE NoneCompleted /\ printed \subseteq printed'
    BY <1>1, <2>3 DEF DeleteOrphan
  <2>4. ASSUME NEW o \in {"failed", "kept"}, WorkDone(o)
        PROVE  NoneCompleted /\ printed \subseteq printed'
    BY <2>4, DoneEffect DEF WorkDone
  <2> QED BY <1>10, <2>1, <2>2, <2>3, <2>4 DEF Worker
<1> QED BY <1>2, <1>3, <1>4, <1>5, <1>6, <1>7, <1>8, <1>9, <1>10 DEF Next

LEMMA PrintedCompletes ==
  ASSUME IntakeNulls, IntakeInv, NamesTell, CompletedWasPrinted, WorkDone("printed")
  PROVE  CompletedWasPrinted'
<1>1. printed' = printed \cup {hand.d} /\ hand.pc = "work"
  BY DEF WorkDone
<1>2. /\ hand.d \in sent /\ NameOf[hand.d] = hand.name
      /\ hand.id \in Live => rows[hand.id].key[2] = hand.name
  BY <1>1 DEF IntakeInv, HandOK
<1>3. \A i \in Live' : i \in Live /\ rows'[i].key = rows[i].key
                       /\ (i # hand.id => rows'[i].status = rows[i].status)
  BY DoneEffect
<1>4. ASSUME NEW i \in Live', rows'[i].status = "COMPLETED"
      PROVE  \E d \in printed' : Key(d) = rows'[i].key
  <2>1. CASE i # hand.id
    BY <1>1, <1>3, <1>4, <2>1 DEF CompletedWasPrinted
  <2>2. CASE i = hand.id
    <3>1. PICK e \in sent : Key(e) = rows[i].key
      BY <1>3 DEF IntakeInv, RowsOK, Delivered
    <3>2. NameOf[e] = NameOf[hand.d]
      BY <1>2, <1>3, <2>2, <3>1 DEF Key
    <3>3. Key(hand.d) = rows[i].key
      BY <1>2, <3>1, <3>2 DEF NamesTell, Key, IntakeInv, FatesOK
    <3> QED BY <1>1, <1>3, <3>3
  <2> QED BY <2>1, <2>2
<1> QED BY <1>4 DEF CompletedWasPrinted, Key

\* A row is called COMPLETED only after a file of its own name and folder was
\* printed: no registration, upload, approval or deletion, in any interleaving,
\* writes that status or carries an old one over (worker_queue.py:848-916).  The
\* worker finds the row by the name alone, so a name must mean one folder.
THEOREM CompletedOnlyPrinted ==
  ASSUME NamesTell
  PROVE  Spec => []CompletedWasPrinted
<1>1. ASSUME Init PROVE CompletedWasPrinted
  BY <1>1 DEF Init, CompletedWasPrinted, Live
<1>2. ASSUME IntakeInv, CompletedWasPrinted, [Next]_vars PROVE CompletedWasPrinted'
  BY <1>2, IntakeNulls, OthersComplete, PrintedCompletes, CompletedKept
<1> QED BY <1>1, <1>2, IntakeInvariant, PTL DEF Spec
-----------------------------------------------------------------------------
(* Where a delivery is.                                                    *)

\* No other delivery has its name.
Alone(d) == d \in sent /\ \A e \in sent \ {d} : NameOf[e] # NameOf[d]

\* An upload task has it and has not written its row.
Handles(u, d) == reg[u].pc \in {"stage", "place", "commit", "zip"} /\ reg[u].key = Key(d)

\* Somebody answers for a delivery that has left the drive: its row, or who is
\* about to write it.
Followed(d) ==
  \/ d \in dropped
  \/ \E i \in Live : rows[i].key = Key(d)
  \/ \E r \in Watchers : reg[r].pc = "commit" /\ reg[r].key = Key(d)
  \/ \E u \in Uploaders : Handles(u, d)

\* A thread that takes it for new still finds it on the drive; the row a thread
\* or task refers to is gone only with the delivery; and no thread looks at
\* what an upload task has.
BillOK(d) ==
  /\ drive[Key(d)] # d => Followed(d)
  /\ \A r \in Watchers :
       reg[r].pc = "move" /\ reg[r].id = Nobody /\ reg[r].key = Key(d) =>
         drive[Key(d)] = d \/ d \in dropped
  /\ \A x \in Registrars :
       Refers(x) /\ reg[x].key = Key(d) /\ reg[x].id \notin Live => d \in dropped
  /\ \A u \in Uploaders : Handles(u, d) =>
       /\ drive[Key(d)] # d
       /\ \A r \in Watchers : reg[r].pc # "idle" => reg[r].key # Key(d)

Traced(d) == Somewhere(d) /\ (FolderOf[d] # Test => BillOK(d))

AllTraced == \A d \in Deliveries : Alone(d) => Traced(d)

\* All watcher threads belong to one process, so _process_lock is between them.
OneLock == \A r, s \in Watchers : ProcessOf[r] = ProcessOf[s]

\* What has its name is it.
LEMMA AloneIs ==
  ASSUME IntakeAssumption, IntakeNulls, IntakeInv, NEW d \in Deliveries, Alone(d)
  PROVE  /\ Key(d) \in Keys /\ NameOf[d] \in Names /\ Key(d)[1] = FolderOf[d] /\ Key(d)[2] = NameOf[d]
         /\ \A e \in sent : NameOf[e] = NameOf[d] => e = d
         /\ \A k \in Keys : Delivered(k) /\ k[2] = NameOf[d] => k = Key(d)
         /\ \A k \in Keys : k[2] = NameOf[d] => drive[k] \in {NoFile, d}
         /\ \A k \in Keys : drive[k] = d => k = Key(d)
         /\ \A p \in QueueDirs : queue[p][NameOf[d]] \in {NoFile, d}
         /\ \A p \in QueueDirs, n \in Names : queue[p][n] = d => n = NameOf[d]
         /\ \A u \in Registrars : Carries(u) /\ reg[u].key[2] = NameOf[d] => reg[u].d = d
         /\ \A u \in Registrars : reg[u].d = d => Carries(u) /\ reg[u].key = Key(d)
         /\ hand.d = d => hand.pc # "idle" /\ hand.name = NameOf[d]
         /\ hand.pc # "idle" /\ hand.name = NameOf[d] => hand.d = d
         /\ d # NoFile
<1>1. Key(d) \in Keys /\ NameOf[d] \in Names /\ Key(d)[1] = FolderOf[d] /\ Key(d)[2] = NameOf[d]
      /\ d # NoFile
  BY DEF IntakeAssumption, IntakeNulls, Key, Keys
<1>2. \A e \in sent : NameOf[e] = NameOf[d] => e = d
  BY DEF Alone
<1>3. \A e : Key(e)[2] = NameOf[e]
  BY DEF Key
<1>4. \A k \in Keys : Delivered(k) /\ k[2] = NameOf[d] => k = Key(d)
  BY <1>2, <1>3 DEF Delivered
<1>5. /\ \A k \in Keys : k[2] = NameOf[d] => drive[k] \in {NoFile, d}
      /\ \A k \in Keys : drive[k] = d => k = Key(d)
      /\ \A p \in QueueDirs : queue[p][NameOf[d]] \in {NoFile, d}
      /\ \A p \in QueueDirs, n \in Names : queue[p][n] = d => n = NameOf[d]
  BY <1>1, <1>2, <1>3 DEF IntakeInv, FilesOK
<1>6. \A u \in Registrars : AtWork(u)
  BY DEF IntakeInv, RegOK
<1>7. \A u \in Registrars : Carries(u) /\ reg[u].key[2] = NameOf[d] => reg[u].d = d
  BY <1>2, <1>3, <1>6 DEF AtWork
<1>8. \A u \in Registrars : reg[u].d = d => Carries(u) /\ reg[u].key = Key(d)
  BY <1>1, <1>6 DEF AtWork
<1>9. /\ hand.d = d => hand.pc # "idle" /\ hand.name = NameOf[d]
      /\ hand.pc # "idle" /\ hand.name = NameOf[d] => hand.d = d
  BY <1>1, <1>2 DEF IntakeInv, HandOK
<1> QED BY <1>1, <1>2, <1>4, <1>5, <1>7, <1>8, <1>9

\* Before a delivery comes nothing is about one of its name.
LEMMA NewcomerIs ==
  ASSUME IntakeAssumption, IntakeNulls, IntakeInv, NEW d \in Deliveries, d \notin sent, Alone(d)',
         sent \subseteq sent'
  PROVE  /\ ~Delivered(Key(d)) /\ drive[Key(d)] = NoFile
         /\ \A x \in Registrars : reg[x].pc = "idle" \/ reg[x].key # Key(d)
<1>1. \A e \in sent : NameOf[e] # NameOf[d]
  BY DEF Alone
<1>2. ~Delivered(Key(d))
  BY <1>1 DEF Delivered, Key
<1>3. Key(d) \in Keys
  BY DEF IntakeAssumption, Key, Keys
<1>4. drive[Key(d)] = NoFile
  BY <1>1, <1>3 DEF IntakeInv, FilesOK, Key
<1>5. \A x \in Registrars : reg[x].pc = "idle" \/ reg[x].key # Key(d)
  BY <1>2 DEF IntakeInv, RegOK, AtWork
<1> QED BY <1>2, <1>4, <1>5

\* The registrars and the drive stay, and no row goes.
LEMMA BillQuiet ==
  ASSUME IntakeInv, NEW d \in Deliveries, BillOK(d), RowsStay, UNCHANGED reg, drive'[Key(d)] = drive[Key(d)],
         dropped \subseteq dropped'
  PROVE  BillOK(d)'
<1>1. Followed(d) => Followed(d)'
  <2>1. (\E i \in Live : rows[i].key = Key(d)) => \E i \in Live' : rows'[i].key = Key(d)
    BY DEF RowsStay
  <2> QED BY <2>1 DEF Followed, Handles, Key
<1>2. drive'[Key(d)] # d => Followed(d)'
  BY <1>1 DEF BillOK
<1>3. ASSUME NEW x \in Registrars, Refers(x)', reg'[x].key = Key(d), reg'[x].id \notin Live'
      PROVE  d \in dropped'
  <2>1. reg[x].id \notin Live
    BY <1>3 DEF RowsStay
  <2> QED BY <1>3, <2>1 DEF BillOK, Refers
<1> QED BY <1>2, <1>3 DEF BillOK, Handles, Key, Refers

\* One registrar moves, and where the delivery lies on the drive stays.
LEMMA BillStep ==
  ASSUME NEW d \in Deliveries, BillOK(d), RowsStay, dropped \subseteq dropped',
         drive'[Key(d)] = drive[Key(d)],
         NEW x \in Registrars, \A y \in Registrars \ {x} : reg'[y] = reg[y],
         x \in Watchers /\ reg[x].pc = "commit" /\ reg[x].key = Key(d) => Followed(d)',
         x \in Uploaders /\ Handles(x, d) => Followed(d)',
         x \in Watchers /\ reg'[x].pc = "move" /\ reg'[x].id = Nobody /\ reg'[x].key = Key(d) =>
           drive[Key(d)] = d \/ d \in dropped',
         Refers(x)' /\ reg'[x].key = Key(d) /\ reg'[x].id \notin Live' => d \in dropped',
         x \in Watchers /\ reg'[x].pc # "idle" /\ reg'[x].key = Key(d) =>
           drive[Key(d)] = d \/ (reg[x].pc # "idle" /\ reg[x].key = Key(d)),
         x \in Uploaders /\ Handles(x, d)' =>
           \/ Handles(x, d)
           \/ /\ drive[Key(d)] # d
              /\ \A r \in Watchers : reg[r].pc # "idle" => reg[r].key # Key(d),
         IntakeNulls
  PROVE  BillOK(d)'
<1>0. /\ \A r \in Watchers : r \in Registrars /\ r \notin Uploaders
      /\ \A u \in Uploaders : u \in Registrars /\ u \notin Watchers
  BY DEF Registrars, IntakeNulls
<1>1. Followed(d) => Followed(d)'
  <2>1. (\E i \in Live : rows[i].key = Key(d)) => \E i \in Live' : rows'[i].key = Key(d)
    BY DEF RowsStay
  <2>2. (\E r \in Watchers : reg[r].pc = "commit" /\ reg[r].key = Key(d)) => Followed(d)'
    <3>1. ASSUME NEW r \in Watchers, reg[r].pc = "commit", reg[r].key = Key(d) PROVE Followed(d)'
      <4>1. CASE r = x
        BY <3>1, <4>1
      <4>2. CASE r # x
        <5>1. reg'[r].pc = "commit" /\ reg'[r].key = Key(d)
          BY <1>0, <3>1, <4>2
        <5> QED BY <5>1 DEF Followed, Key
      <4> QED BY <4>1, <4>2
    <3> QED BY <3>1
  <2>3. (\E u \in Uploaders : Handles(u, d)) => Followed(d)'
    <3>1. ASSUME NEW u \in Uploaders, Handles(u, d) PROVE Followed(d)'
      <4>1. CASE u = x
        BY <3>1, <4>1
      <4>2. CASE u # x
        <5>1. Handles(u, d)'
          BY <1>0, <3>1, <4>2 DEF Handles, Key
        <5> QED BY <5>1 DEF Followed
      <4> QED BY <4>1, <4>2
    <3> QED BY <3>1
  <2>4. (\E i \in Live' : rows'[i].key = Key(d)) \/ d \in dropped' => Followed(d)'
    BY DEF Followed, Key
  <2> QED BY <2>1, <2>2, <2>3, <2>4 DEF Followed
<1>2. drive'[Key(d)] # d => Followed(d)'
  BY <1>1 DEF BillOK
<1>3. ASSUME NEW r \in Watchers, reg'[r].pc = "move", reg'[r].id = Nobody, reg'[r].key = Key(d)
      PROVE  drive'[Key(d)] = d \/ d \in dropped'
  <2>1. CASE r = x
    BY <1>3, <2>1
  <2>2. CASE r # x
    BY <1>0, <1>3, <2>2 DEF BillOK
  <2> QED BY <2>1, <2>2
<1>4. ASSUME NEW y \in Registrars, Refers(y)', reg'[y].key = Key(d), reg'[y].id \notin Live'
      PROVE  d \in dropped'
  <2>1. CASE y = x
    BY <1>4, <2>1
  <2>2. CASE y # x
    <3>1. reg[y].id \notin Live /\ Refers(y) /\ reg[y].key = Key(d)
      BY <1>4, <2>2 DEF RowsStay, Refers
    <3> QED BY <3>1 DEF BillOK
  <2> QED BY <2>1, <2>2
<1>5. ASSUME NEW u \in Uploaders, Handles(u, d)'
      PROVE  /\ drive'[Key(d)] # d
             /\ \A r \in Watchers : reg'[r].pc # "idle" => reg'[r].key # Key(d)
  <2>1. drive[Key(d)] # d /\ \A r \in Watchers : reg[r].pc # "idle" => reg[r].key # Key(d)
    <3>1. CASE Handles(u, d)
      BY <3>1 DEF BillOK
    <3>2. CASE ~Handles(u, d)
      <4>1. u = x
        BY <1>0, <1>5, <3>2 DEF Handles, Key
      <4> QED BY <1>5, <3>2, <4>1
    <3> QED BY <3>1, <3>2
  <2>2. \A r \in Watchers : reg'[r].pc # "idle" => reg'[r].key # Key(d)
    <3>1. ASSUME NEW r \in Watchers, reg'[r].pc # "idle", reg'[r].key = Key(d) PROVE FALSE
      <4>1. CASE r = x
        BY <2>1, <3>1, <4>1
      <4>2. CASE r # x
        BY <1>0, <2>1, <3>1, <4>2
      <4> QED BY <4>1, <4>2
    <3> QED BY <3>1
  <2> QED BY <2>1, <2>2
<1> QED BY <1>2, <1>3, <1>4, <1>5 DEF BillOK, Key

LEMMA AloneStays ==
  ASSUME NEW d, sent' = sent, Alone(d)'
  PROVE  Alone(d)
BY DEF Alone

\* The files and who carries them stay.
LEMMA SomewhereSame ==
  ASSUME NEW d, Somewhere(d), UNCHANGED store, hand'.d = hand.d,
         \A u \in Uploaders : reg'[u].d = reg[u].d, printed \subseteq printed',
         failed \subseteq failed', dropped \subseteq dropped'
  PROVE  Somewhere(d)'
BY DEF Somewhere, store

LEMMA TraceQuiet ==
  ASSUME IntakeInv, NEW d \in Deliveries, Traced(d), RowsStay, UNCHANGED reg,
         drive'[Key(d)] = drive[Key(d)], dropped \subseteq dropped', Somewhere(d)'
  PROVE  Traced(d)'
BY BillQuiet DEF Traced

\* Nothing but the rows, and no row goes.
LEMMA TraceRows ==
  ASSUME IntakeInv, NEW d \in Deliveries, Traced(d), RowsStay,
         UNCHANGED <<store, reg, printed, failed>>, hand'.d = hand.d, dropped \subseteq dropped'
  PROVE  Traced(d)'
BY SomewhereSame, TraceQuiet DEF Traced, store

LEMMA DropTraces ==
  ASSUME IntakeAssumption, IntakeNulls, IntakeInv, AllTraced, NEW d \in Deliveries, Alone(d)',
         NEW e \in Deliveries, Drop(e)
  PROVE  Traced(d)'
<1>1. /\ drive' = [drive EXCEPT ![Key(e)] = e] /\ e \notin sent /\ sent' = sent \cup {e}
      /\ UNCHANGED <<queue, rows, reg, hand, printed, failed, dropped>>
      /\ drive \in [Keys -> Deliveries \cup {NoFile}] /\ RowsStay
      /\ Key(d) \in Keys /\ Key(e) \in Keys
  BY SameRows DEF Drop, IntakeInv, FilesOK, IntakeAssumption, Key, Keys
<1>2. CASE d = e
  <2>1. drive'[Key(d)] = d
    BY <1>1, <1>2
  <2>2. Somewhere(d)'
    BY <1>1, <2>1 DEF Somewhere
  <2>3. \A x \in Registrars : reg'[x].pc = "idle" \/ reg'[x].key # Key(d)
    BY <1>1, <1>2, NewcomerIs
  <2>4. \A x \in Watchers \cup Uploaders : x \in Registrars
    BY DEF Registrars
  <2>5. BillOK(d)'
    BY <2>1, <2>3, <2>4 DEF BillOK, Refers, Handles, Key
  <2> QED BY <2>2, <2>5 DEF Traced
<1>3. CASE d # e
  <2>1. Alone(d) /\ NameOf[d] # NameOf[e]
    BY <1>1, <1>3 DEF Alone
  <2>2. Key(d) # Key(e) /\ Traced(d)
    BY <2>1 DEF Key, AllTraced
  <2>3. drive'[Key(d)] = drive[Key(d)]
    BY <1>1, <2>2
  <2>4. \A k \in Keys : drive[k] = d => k = Key(d)
    BY <2>1, AloneIs
  <2>5. Somewhere(d)'
    BY <1>1, <2>2, <2>3, <2>4 DEF Somewhere, Traced
  <2> QED BY <1>1, <2>2, <2>3, <2>5, TraceQuiet
<1> QED BY <1>2, <1>3

LEMMA DetectTraces ==
  ASSUME IntakeAssumption, IntakeNulls, IntakeInv, NEW d \in Deliveries, Alone(d), Traced(d),
         NEW r \in Watchers, NEW k \in Keys, Detect(r, k)
  PROVE  Traced(d)'
<1> DEFINE g == [reg[r] EXCEPT !.pc = "lock", !.key = k, !.tmpls = TemplatesOf[drive[k]]]
<1>1. /\ r \in Registrars /\ r \notin Uploaders /\ reg[r] \in RegType /\ reg[r].pc = "idle"
      /\ drive[k] # NoFile /\ RowsStay /\ reg \in [Registrars -> RegType]
      /\ UNCHANGED <<store, rows, hand, printed, failed, dropped>>
  BY WatcherIs, RegIs, SameRows DEF Detect, IntakeInv, RegOK, fate
<1>2. reg' = [reg EXCEPT ![r] = g]
  BY <1>1 DEF Detect
<1>3. g.pc = "lock" /\ g.key = k /\ g.d = reg[r].d
  BY <1>1 DEF RegType
<1> HIDE DEF g
<1>4. reg'[r] = g /\ \A y \in Registrars \ {r} : reg'[y] = reg[y]
  BY <1>1, <1>2
<1>5. Somewhere(d)'
  BY <1>1, <1>3, <1>4, SomewhereSame DEF Traced, Registrars
<1>6. k = Key(d) => drive[k] = d
  BY <1>1, AloneIs
<1>7. BillOK(d) => BillOK(d)'
  <2>1. drive'[Key(d)] = drive[Key(d)] /\ dropped \subseteq dropped' /\ ~Refers(r)'
    BY <1>1, <1>3, <1>4 DEF store, Refers
  <2> QED BY <1>1, <1>3, <1>4, <1>6, <2>1, BillStep
<1> QED BY <1>5, <1>7 DEF Traced

LEMMA LockHolder ==
  ASSUME IntakeInv, IntakeNulls, OneLock, NEW r \in Watchers, NEW s \in Watchers,
         reg[s].pc \in {"move", "commit"}
  PROVE  /\ lock[ProcessOf[r]] # Nobody
         /\ reg[r].pc \in {"move", "commit"} => r = s
<1>1. lock[ProcessOf[s]] = s /\ ProcessOf[r] = ProcessOf[s] /\ s # Nobody
  BY WatcherIs DEF OneLock, IntakeNulls
<1> QED BY <1>1, WatcherIs

LEMMA PlanTraces ==
  ASSUME IntakeAssumption, IntakeNulls, IntakeInv, OneLock, NEW d \in Deliveries, Alone(d),
         Traced(d), NEW r \in Watchers, Plan(r)
  PROVE  Traced(d)'
<1>1. /\ r \in Registrars /\ r \notin Uploaders /\ reg[r] \in RegType /\ reg[r].pc = "lock"
      /\ lock[ProcessOf[r]] = Nobody /\ reg \in [Registrars -> RegType]
      /\ UNCHANGED <<store, rows, hand, printed, failed, dropped>> /\ RowsStay /\ RowsOK
  BY WatcherIs, RegIs, SameRows DEF Plan, IntakeInv, RegOK, fate
<1> DEFINE plan == IF reg[r].key[1] = Test THEN [path |-> "drive", status |-> "PENDING_APPROVAL"]
                   ELSE Decision(reg[r].tmpls, With("APPROVED"), With("REJECTED"), mode)
           old(i) == IF i = Nobody THEN NoRow ELSE rows[i]
           moved(i) == [reg[r] EXCEPT !.pc = "move", !.id = i, !.read = old(i),
                                      !.path = plan.path, !.status = plan.status]
<1>2. PICK i \in IF RowsOf(reg[r].key) = {} THEN {Nobody} ELSE RowsOf(reg[r].key) :
        reg' = [reg EXCEPT ![r] = Idle] \/ reg' = [reg EXCEPT ![r] = moved(i)]
  BY DEF Plan
<1>3. /\ \A y \in Registrars \ {r} : reg'[y] = reg[y]
      /\ reg'[r].d = reg[r].d
      /\ reg'[r].pc \in {"idle", "move"}
      /\ reg'[r].pc = "move" => reg'[r].key = reg[r].key /\ reg'[r].id = i
  <2>1. CASE reg' = [reg EXCEPT ![r] = Idle]
    <3>1. reg'[r] = Idle
      BY <1>1, <2>1
    <3>2. reg[r].d = NoFile
      BY <1>1, RegIs DEF AtWork, Carries
    <3> QED BY <1>1, <2>1, <3>1, <3>2, IdleIs
  <2>2. CASE reg' = [reg EXCEPT ![r] = moved(i)]
    <3>1. reg'[r] = moved(i)
      BY <1>1, <2>2
    <3>2. moved(i).pc = "move" /\ moved(i).key = reg[r].key /\ moved(i).id = i /\ moved(i).d = reg[r].d
      BY <1>1 DEF RegType
    <3> QED BY <1>1, <2>2, <3>1, <3>2
  <2> QED BY <1>2, <2>1, <2>2
<1> HIDE DEF plan, old, moved
<1>4. Somewhere(d)'
  BY <1>1, <1>3, SomewhereSame DEF Traced, Registrars
<1>5. ASSUME BillOK(d) PROVE BillOK(d)'
  <2>1. drive'[Key(d)] = drive[Key(d)] /\ dropped \subseteq dropped'
    BY <1>1 DEF store
  <2>2. ASSUME reg'[r].pc = "move", reg'[r].id = Nobody, reg'[r].key = Key(d)
        PROVE  drive[Key(d)] = d \/ d \in dropped
    <3>1. reg[r].key = Key(d) /\ i = Nobody
      BY <1>3, <2>2
    <3>2. RowsOf(Key(d)) = {}
      BY <1>2, <3>1 DEF RowsOf, Live, IntakeNulls
    <3>3. \A s \in Watchers : reg[s].pc # "commit"
      BY <1>1, LockHolder
    <3>4. \A u \in Uploaders : ~Handles(u, d)
      BY <1>1, <1>5, <3>1 DEF BillOK
    <3> QED BY <1>5, <3>2, <3>3, <3>4 DEF BillOK, Followed, RowsOf
  <2>3. ASSUME Refers(r)', reg'[r].key = Key(d) PROVE reg'[r].id \in Live'
    <3>1. i # Nobody /\ reg'[r].id = i
      BY <1>3, <2>3 DEF Refers
    <3> QED BY <1>1, <1>2, <3>1 DEF RowsOf, RowsStay
  <2>4. reg'[r].pc # "idle" /\ reg'[r].key = Key(d) => reg[r].pc # "idle" /\ reg[r].key = Key(d)
    BY <1>1, <1>3
  <2> QED BY <1>1, <1>3, <1>5, <2>1, <2>2, <2>3, <2>4, BillStep
<1> QED BY <1>4, <1>5 DEF Traced

LEMMA MoveTraces ==
  ASSUME IntakeAssumption, IntakeNulls, IntakeInv, OneLock, NEW d \in Deliveries, Alone(d),
         Traced(d), NEW r \in Watchers, MoveToQueue(r)
  PROVE  Traced(d)'
<1> DEFINE g == reg[r]
           n == g.key[2]
           e == drive[g.key]
<1>1. /\ r \in Registrars /\ r \notin Uploaders /\ g \in RegType /\ AtWork(r) /\ g.pc = "move"
      /\ reg \in [Registrars -> RegType] /\ RowsStay
      /\ UNCHANGED <<rows, hand, printed, failed, dropped>>
  BY WatcherIs, RegIs, SameRows DEF MoveToQueue, IntakeInv, RegOK, fate
<1>2. /\ g.key \in Keys /\ Delivered(g.key) /\ n \in Names /\ g.d = NoFile
      /\ g.path \in {"drive", "incoming", "pending"} /\ (g.path = "drive" <=> g.key[1] = Test)
      /\ e # NoFile => Key(e) = g.key /\ e \in sent
      /\ drive \in [Keys -> Deliveries \cup {NoFile}]
      /\ queue \in [QueueDirs -> [Names -> Deliveries \cup {NoFile}]]
  BY <1>1 DEF AtWork, Carries, Planned, Keys, IntakeInv, FilesOK
<1>3. CASE (g.path = "drive" \/ (e = NoFile /\ g.id # Nobody))
  <2>1. reg' = [reg EXCEPT ![r].pc = "commit"] /\ UNCHANGED <<store, lock>>
    BY <1>3 DEF MoveToQueue
  <2>2. /\ \A y \in Registrars \ {r} : reg'[y] = reg[y]
        /\ reg'[r].pc = "commit" /\ reg'[r].key = g.key /\ reg'[r].id = g.id /\ reg'[r].d = g.d
    BY <1>1, <2>1, OnlyPc DEF WatcherPC
  <2>3. Somewhere(d)'
    BY <1>1, <2>1, <2>2, SomewhereSame DEF Traced, Registrars
  <2>4. ASSUME BillOK(d) PROVE BillOK(d)'
    <3>1. drive'[Key(d)] = drive[Key(d)] /\ dropped \subseteq dropped'
      BY <1>1, <2>1 DEF store
    <3>2. Refers(r)' /\ reg'[r].key = Key(d) /\ reg'[r].id \notin Live' => d \in dropped'
      BY <1>1, <2>2, <2>4 DEF BillOK, Refers, RowsStay
    <3> QED BY <1>1, <2>2, <2>4, <3>1, <3>2, BillStep
  <2> QED BY <2>3, <2>4 DEF Traced
<1>4. CASE g.path # "drive" /\ e = NoFile /\ g.id = Nobody
  <2>1. queue' = Put(g.path, n, NoFile) /\ Release(r) /\ UNCHANGED drive
    BY <1>4 DEF MoveToQueue
  <2>2. /\ \A y \in Registrars \ {r} : reg'[y] = reg[y]
        /\ reg'[r].pc = "idle" /\ reg'[r].d = NoFile
    BY <1>1, <2>1, IdleIs DEF Release
  <2>3. Somewhere(d)'
    <3>1. CASE n = NameOf[d]
      <4>1. g.key = Key(d) /\ FolderOf[d] # Test
        BY <1>2, <1>4, <3>1, AloneIs
      <4>2. drive[Key(d)] = d \/ d \in dropped
        BY <1>1, <1>4, <4>1 DEF Traced, BillOK
      <4>3. d \in dropped'
        BY <1>1, <1>4, <4>1, <4>2, AloneIs
      <4> QED BY <4>3 DEF Somewhere
    <3>2. CASE n # NameOf[d]
      <4>1. \A p \in QueueDirs : queue[p][NameOf[d]] = d => queue'[p][NameOf[d]] = d
        BY <1>2, <2>1, <3>2, AloneIs DEF Put
      <4>2. NameOf[d] \in Names /\ \A p \in QueueDirs, m \in Names : queue[p][m] = d => m = NameOf[d]
        BY AloneIs
      <4>3. \A u \in Uploaders : reg'[u].d = reg[u].d
        BY <1>1, <2>2 DEF Registrars
      <4> QED BY <1>1, <2>1, <4>1, <4>2, <4>3 DEF Somewhere, Traced, QueueDirs
    <3> QED BY <3>1, <3>2
  <2>4. ASSUME BillOK(d) PROVE BillOK(d)'
    <3>1. drive'[Key(d)] = drive[Key(d)] /\ dropped \subseteq dropped' /\ ~Refers(r)'
      BY <1>1, <2>1, <2>2 DEF Refers
    <3> QED BY <1>1, <2>2, <2>4, <3>1, BillStep
  <2> QED BY <2>3, <2>4 DEF Traced
<1>5. CASE g.path # "drive" /\ e # NoFile
  <2> DEFINE h == [g EXCEPT !.pc = "commit", !.tmpls = TemplatesOf[e]]
  <2>1. queue' = Put(g.path, n, e) /\ drive' = [drive EXCEPT ![g.key] = NoFile]
        /\ reg' = [reg EXCEPT ![r] = h] /\ UNCHANGED lock
    BY <1>5 DEF MoveToQueue
  <2>2. h.pc = "commit" /\ h.key = g.key /\ h.id = g.id /\ h.d = g.d
    BY <1>1 DEF RegType
  <2> HIDE DEF h
  <2>3. reg'[r] = h /\ \A y \in Registrars \ {r} : reg'[y] = reg[y]
    BY <1>1, <2>1
  <2>4. \A u \in Uploaders : reg'[u].d = reg[u].d
    BY <1>1, <2>3 DEF Registrars
  <2>5. NameOf[d] \in Names /\ (\A p \in QueueDirs, m \in Names : queue[p][m] = d => m = NameOf[d])
        /\ (\A k \in Keys : drive[k] = d => k = Key(d)) /\ Key(d) \in Keys
    BY AloneIs
  <2>6. CASE g.key = Key(d)
    <3>1. e = d /\ n = NameOf[d]
      BY <1>5, <2>6, AloneIs DEF Key
    <3>2. g.path \in QueueDirs /\ queue'[g.path][n] = d
      BY <1>2, <1>5, <2>1, <3>1 DEF Put, QueueDirs
    <3>3. Somewhere(d)'
      BY <1>2, <3>2 DEF Somewhere, QueueDirs
    <3>4. ASSUME BillOK(d) PROVE BillOK(d)'
      <4>1. Followed(d)'
        <5>1. reg'[r].pc = "commit" /\ reg'[r].key = Key(d)
          BY <2>2, <2>3, <2>6
        <5> QED BY <5>1 DEF Followed, Key
      <4>2. \A s \in Watchers : reg'[s].pc # "move"
        <5>1. ASSUME NEW s \in Watchers, reg'[s].pc = "move" PROVE FALSE
          <6>1. s # r /\ s \in Registrars
            BY <2>2, <2>3, <5>1 DEF Registrars
          <6>2. reg[s].pc = "move"
            BY <2>3, <5>1, <6>1
          <6> QED BY <1>1, <6>1, <6>2, LockHolder
        <5> QED BY <5>1
      <4>3. ASSUME NEW x \in Registrars, Refers(x)', reg'[x].key = Key(d), reg'[x].id \notin Live'
            PROVE  d \in dropped'
        <5>1. Refers(x) /\ reg[x].key = Key(d) /\ reg[x].id \notin Live
          <6>1. CASE x = r
            BY <1>1, <2>2, <2>3, <4>3, <6>1 DEF Refers, RowsStay
          <6>2. CASE x # r
            BY <1>1, <2>3, <4>3, <6>2 DEF Refers, RowsStay
          <6> QED BY <6>1, <6>2
        <5> QED BY <1>1, <3>4, <5>1 DEF BillOK
      <4>4. \A u \in Uploaders : ~Handles(u, d)'
        <5>1. \A u \in Uploaders : ~Handles(u, d)
          BY <1>1, <2>6, <3>4 DEF BillOK
        <5> QED BY <1>1, <2>3, <5>1 DEF Handles, Key, Registrars
      <4> QED BY <4>1, <4>2, <4>3, <4>4 DEF BillOK, Key
    <3> QED BY <3>3, <3>4 DEF Traced
  <2>7. CASE g.key # Key(d)
    <3>1. n # NameOf[d] /\ e # d
      BY <1>2, <2>7, AloneIs
    <3>2. drive'[Key(d)] = drive[Key(d)]
      BY <1>2, <2>1, <2>5, <2>7
    <3>3. Somewhere(d)'
      <4>1. \A p \in QueueDirs : queue[p][NameOf[d]] = d => queue'[p][NameOf[d]] = d
        BY <1>2, <2>1, <2>5, <3>1 DEF Put
      <4> QED BY <1>1, <2>4, <2>5, <3>2, <4>1 DEF Somewhere, Traced, QueueDirs
    <3>4. ASSUME BillOK(d) PROVE BillOK(d)'
      <4>1. dropped \subseteq dropped' /\ reg'[r].key # Key(d) /\ reg[r].key # Key(d)
        BY <1>1, <2>2, <2>3, <2>7
      <4> QED BY <1>1, <2>2, <2>3, <3>2, <3>4, <4>1, BillStep
    <3> QED BY <3>3, <3>4 DEF Traced
  <2> QED BY <2>6, <2>7
<1> QED BY <1>3, <1>4, <1>5

LEMMA CommitTraces ==
  ASSUME IntakeAssumption, IntakeNulls, IntakeInv, "commit" \notin Faults, NEW d \in Deliveries,
         Alone(d), Traced(d), NEW r \in Watchers, CommitRow(r) \/ CommitFails(r)
  PROVE  Traced(d)'
<1>1. /\ r \in Registrars /\ r \notin Uploaders /\ reg[r].pc = "commit" /\ Release(r)
      /\ reg \in [Registrars -> RegType] /\ UNCHANGED <<store, hand, printed, failed, dropped>>
  BY WatcherIs DEF CommitRow, CommitFails, IntakeInv, RegOK, fate
<1>2. RowsStay /\ ((\E i \in Live' : rows'[i].key = reg[r].key) \/ (reg[r].id # Nobody /\ reg[r].id \notin Live))
  <2>1. CASE CommitRow(r)
    BY <2>1, CommitRowEffect
  <2>2. CASE CommitFails(r)
    BY <2>2, SameRows DEF CommitFails, IntakeInv
  <2> QED BY <2>1, <2>2
<1>3. /\ \A y \in Registrars \ {r} : reg'[y] = reg[y]
      /\ reg'[r].pc = "idle" /\ reg'[r].d = NoFile
  BY <1>1, IdleIs DEF Release
<1>4. reg[r].d = NoFile
  BY <1>1, RegIs DEF AtWork, Carries
<1>5. Somewhere(d)'
  BY <1>1, <1>3, <1>4, SomewhereSame DEF Traced, Registrars
<1>6. ASSUME BillOK(d) PROVE BillOK(d)'
  <2>1. drive'[Key(d)] = drive[Key(d)] /\ dropped \subseteq dropped' /\ ~Refers(r)'
    BY <1>1, <1>3 DEF Refers, store
  <2>2. reg[r].key = Key(d) => Followed(d)'
    <3>1. ASSUME reg[r].key = Key(d) PROVE (\E i \in Live' : rows'[i].key = Key(d)) \/ d \in dropped'
      <4>1. CASE reg[r].id # Nobody /\ reg[r].id \notin Live
        BY <1>1, <1>6, <3>1, <4>1 DEF BillOK, Refers
      <4> QED BY <1>2, <3>1, <4>1
    <3> QED BY <3>1 DEF Followed, Key
  <2> QED BY <1>1, <1>2, <1>3, <1>6, <2>1, <2>2, BillStep
<1> QED BY <1>5, <1>6 DEF Traced

LEMMA UploadTraces ==
  ASSUME IntakeAssumption, IntakeNulls, IntakeInv, AllTraced, NEW d \in Deliveries, Alone(d)',
         NEW u \in Uploaders, NEW e \in Deliveries, NEW kind \in {"stage", "zip"}, Upload(u, e, kind)
  PROVE  Traced(d)'
<1> DEFINE g == [Idle EXCEPT !.pc = kind, !.d = e, !.key = Key(e), !.tmpls = TemplatesOf[e],
                    !.appr = With("APPROVED"), !.rej = With("REJECTED"), !.mode = mode]
<1>1. /\ u \in Registrars /\ u \notin Watchers /\ reg[u].pc = "idle" /\ e \notin sent
      /\ sent' = sent \cup {e} /\ reg \in [Registrars -> RegType] /\ reg[u].d = NoFile
      /\ UNCHANGED <<store, rows, hand, printed, failed, dropped>> /\ RowsStay
  BY UploaderIs, RegIs, SameRows DEF Upload, AtWork, Carries, IntakeInv, RegOK
<1>2. reg' = [reg EXCEPT ![u] = g]
  BY DEF Upload
<1>3. g.pc = kind /\ g.d = e /\ g.key = Key(e)
  BY DEF Idle
<1> HIDE DEF g
<1>4. reg'[u] = g /\ \A y \in Registrars \ {u} : reg'[y] = reg[y]
  BY <1>1, <1>2
<1>5. ~Refers(u)'
  BY <1>3, <1>4 DEF Refers
<1>6. \A x \in Watchers \cup Uploaders : x \in Registrars
  BY DEF Registrars
<1>7. CASE d = e
  <2>1. reg'[u].d = d
    BY <1>3, <1>4, <1>7
  <2>2. Somewhere(d)'
    BY <2>1 DEF Somewhere
  <2>3. /\ drive[Key(d)] = NoFile
        /\ \A x \in Registrars : reg[x].pc = "idle" \/ reg[x].key # Key(d)
    BY <1>1, <1>7, NewcomerIs
  <2>4. \A x \in Registrars \ {u} : reg'[x].pc = "idle" \/ reg'[x].key # Key(d)
    BY <1>4, <2>3
  <2>5. drive'[Key(d)] # d
    BY <1>1, <2>3 DEF IntakeNulls, store
  <2>6. Followed(d)'
    <3>1. Handles(u, d)'
      BY <1>3, <1>4, <1>7 DEF Handles, Key
    <3> QED BY <3>1 DEF Followed
  <2>7. BillOK(d)'
    <3>1. \A r \in Watchers : reg'[r].pc = "idle" \/ reg'[r].key # Key(d)
      BY <1>1, <1>6, <2>4
    <3>2. \A x \in Registrars : ~(Refers(x)' /\ reg'[x].key = Key(d))
      BY <1>5, <2>4 DEF Refers
    <3> QED BY <2>5, <2>6, <3>1, <3>2 DEF BillOK, Key
  <2> QED BY <2>2, <2>7 DEF Traced
<1>8. CASE d # e
  <2>1. Alone(d) /\ NameOf[d] # NameOf[e]
    BY <1>1, <1>8 DEF Alone
  <2>2. Key(d) # Key(e) /\ Traced(d)
    BY <2>1 DEF Key, AllTraced
  <2>3. Somewhere(d)'
    <3>1. \A v \in Uploaders : reg[v].d = d => reg'[v].d = d
      BY <1>1, <1>4, <1>6 DEF IntakeNulls
    <3> QED BY <1>1, <2>2, <3>1 DEF Somewhere, Traced, store
  <2>4. ASSUME BillOK(d) PROVE BillOK(d)'
    <3>1. drive'[Key(d)] = drive[Key(d)] /\ dropped \subseteq dropped'
          /\ ~Handles(u, d)' /\ ~Handles(u, d)
      BY <1>1, <1>3, <1>4, <2>2 DEF store, Handles, Key
    <3> QED BY <1>1, <1>4, <1>5, <2>4, <3>1, BillStep
  <2> QED BY <2>2, <2>3, <2>4 DEF Traced
<1> QED BY <1>7, <1>8

LEMMA StageRowTraces ==
  ASSUME IntakeAssumption, IntakeNulls, IntakeInv, NEW d \in Deliveries, Alone(d), Traced(d),
         NEW u \in Uploaders, StageRow(u)
  PROVE  Traced(d)'
<1>1. /\ u \in Registrars /\ u \notin Watchers /\ reg[u] \in RegType /\ reg[u].pc = "stage"
      /\ reg \in [Registrars -> RegType] /\ Carries(u)
      /\ UNCHANGED <<store, rows, hand, printed, failed>> /\ RowsStay /\ RowsOK
  BY UploaderIs, RegIs, SameRows DEF StageRow, IntakeInv, RegOK, Carries
<1>2. PICK i \in Found(reg[u].key) :
        \/ reg' = [reg EXCEPT ![u] = Idle] /\ dropped' = dropped \cup {reg[u].d}
        \/ /\ dropped' = dropped
           /\ \E old, p, st : reg' = [reg EXCEPT ![u] =
                [reg[u] EXCEPT !.pc = "place", !.path = p, !.status = st, !.id = i, !.read = old]]
  <2> DEFINE plan == Destination(reg[u], mode)
             old(i) == IF i = Nobody THEN NoRow ELSE rows[i]
             placed(i) == [reg EXCEPT ![u] =
                [reg[u] EXCEPT !.pc = "place", !.path = plan.path, !.status = plan.status,
                               !.id = i, !.read = old(i)]]
  <2>1. PICK i \in Found(reg[u].key) :
        \/ reg' = [reg EXCEPT ![u] = Idle] /\ dropped' = dropped \cup {reg[u].d}
        \/ dropped' = dropped /\ reg' = placed(i)
    BY DEF StageRow
  <2> QED BY <2>1
<1>3. reg[u].key = Key(d) => reg[u].d = d
  BY <1>1, AloneIs
<1>4. \A y \in Registrars \ {u} : reg'[y] = reg[y]
  BY <1>1, <1>2
<1>5. CASE reg' = [reg EXCEPT ![u] = Idle] /\ dropped' = dropped \cup {reg[u].d}
  <2>1. reg'[u].pc = "idle" /\ ~Refers(u)' /\ ~Handles(u, d)'
    BY <1>1, <1>5, IdleIs DEF Refers, Handles
  <2>2. Somewhere(d)'
    BY <1>1, <1>4, <1>5 DEF Somewhere, Traced, store, Registrars
  <2>3. ASSUME BillOK(d) PROVE BillOK(d)'
    <3>1. drive'[Key(d)] = drive[Key(d)] /\ dropped \subseteq dropped'
      BY <1>1, <1>5 DEF store
    <3>2. Handles(u, d) => Followed(d)'
      BY <1>3, <1>5 DEF Handles, Followed
    <3> QED BY <1>1, <1>4, <2>1, <2>3, <3>1, <3>2, BillStep
  <2> QED BY <2>2, <2>3 DEF Traced
<1>6. CASE /\ dropped' = dropped
           /\ \E old, p, st : reg' = [reg EXCEPT ![u] =
                [reg[u] EXCEPT !.pc = "place", !.path = p, !.status = st, !.id = i, !.read = old]]
  <2>1. reg'[u].pc = "place" /\ reg'[u].key = reg[u].key /\ reg'[u].id = i /\ reg'[u].d = reg[u].d
    <3>1. PICK old, p, st : reg' = [reg EXCEPT ![u] =
                [reg[u] EXCEPT !.pc = "place", !.path = p, !.status = st, !.id = i, !.read = old]]
      BY <1>6
    <3>2. reg'[u] = [reg[u] EXCEPT !.pc = "place", !.path = p, !.status = st, !.id = i, !.read = old]
      BY <1>1, <3>1
    <3> QED BY <1>1, <3>2 DEF RegType
  <2>2. Somewhere(d)'
    BY <1>1, <1>4, <1>6, <2>1, SomewhereSame DEF Traced, Registrars
  <2>3. ASSUME BillOK(d) PROVE BillOK(d)'
    <3>1. drive'[Key(d)] = drive[Key(d)] /\ dropped \subseteq dropped'
      BY <1>1, <1>6 DEF store
    <3>2. Handles(u, d)' <=> Handles(u, d)
      BY <1>1, <2>1 DEF Handles, Key
    <3>3. Handles(u, d)' => Followed(d)'
      BY DEF Followed
    <3>4. Refers(u)' => reg'[u].id \in Live'
      <4>1. Refers(u)' => i # Nobody
        BY <2>1 DEF Refers
      <4>2. i # Nobody => i \in Live
        BY <1>2 DEF Found, RowsOf
      <4>3. i \in Live => i \in Live'
        BY <1>1 DEF RowsStay
      <4>4. reg'[u].id = i
        BY <2>1
      <4> QED BY <4>1, <4>2, <4>3, <4>4
    <3> QED BY <1>1, <1>4, <2>3, <3>1, <3>2, <3>3, <3>4, BillStep
  <2> QED BY <2>2, <2>3 DEF Traced
<1> QED BY <1>2, <1>5, <1>6

\* A task puts its file where its row says.
LEMMA PlaceTraces ==
  ASSUME IntakeAssumption, IntakeNulls, IntakeInv, NEW d \in Deliveries, Alone(d), Somewhere(d),
         NEW u \in Uploaders, reg[u].pc \in {"place", "copy"}, Place(reg[u]),
         \A v \in Uploaders \ {u} : reg'[v] = reg[v], UNCHANGED <<hand, printed, failed, dropped>>
  PROVE  /\ Somewhere(d)'
         /\ FolderOf[d] # Test => drive'[Key(d)] = drive[Key(d)]
<1> DEFINE g == reg[u]
<1>1. /\ AtWork(u) /\ g.key \in Keys /\ g.d \in sent /\ Key(g.d) = g.key /\ u \in Registrars
      /\ Delivered(g.key) /\ g.key[2] = NameOf[g.d] /\ g.key[2] \in Names
      /\ g.path \in {"drive", "incoming", "pending"} /\ (g.path = "drive" <=> g.key[1] = Test)
      /\ drive \in [Keys -> Deliveries \cup {NoFile}]
      /\ queue \in [QueueDirs -> [Names -> Deliveries \cup {NoFile}]]
  BY RegIs, UploaderIs DEF AtWork, Carries, Planned, Keys, Key, IntakeInv, FilesOK
<1>2. NameOf[d] \in Names /\ (\A p \in QueueDirs, m \in Names : queue[p][m] = d => m = NameOf[d])
      /\ (\A k \in Keys : drive[k] = d => k = Key(d)) /\ Key(d) \in Keys /\ Key(d)[1] = FolderOf[d]
      /\ (g.d # d => NameOf[g.d] # NameOf[d]) /\ Key(d)[2] = NameOf[d]
      /\ \A v \in Uploaders : reg[v].d = d => g.d = d \/ v # u
  BY <1>1, AloneIs
<1>3. CASE g.path = "drive"
  <2>1. drive' = [drive EXCEPT ![g.key] = g.d] /\ queue' = queue
    BY <1>3 DEF Place
  <2>2. FolderOf[d] # Test => drive'[Key(d)] = drive[Key(d)]
    BY <1>1, <1>2, <1>3, <2>1
  <2>3. Somewhere(d)'
    <3>1. CASE g.d = d
      BY <1>1, <2>1, <3>1 DEF Somewhere
    <3>2. CASE g.d # d
      <4>1. drive'[Key(d)] = drive[Key(d)]
        BY <1>1, <1>2, <2>1, <3>2
      <4> QED BY <1>2, <2>1, <3>2, <4>1 DEF Somewhere
    <3> QED BY <3>1, <3>2
  <2> QED BY <2>2, <2>3
<1>4. CASE g.path # "drive"
  <2>1. queue' = Put(g.path, g.key[2], g.d) /\ drive' = drive /\ g.path \in QueueDirs
    BY <1>1, <1>4 DEF Place, QueueDirs
  <2>2. Somewhere(d)'
    <3>1. CASE g.d = d
      <4>1. queue'[g.path][g.key[2]] = d
        BY <1>1, <2>1, <3>1 DEF Put
      <4> QED BY <1>1, <2>1, <4>1 DEF Somewhere, QueueDirs
    <3>2. CASE g.d # d
      <4>1. \A p \in QueueDirs : queue[p][NameOf[d]] = d => queue'[p][NameOf[d]] = d
        BY <1>1, <1>2, <2>1, <3>2 DEF Put
      <4> QED BY <1>2, <2>1, <3>2, <4>1 DEF Somewhere, QueueDirs
    <3> QED BY <3>1, <3>2
  <2> QED BY <2>1, <2>2
<1> QED BY <1>3, <1>4

LEMMA StageMoveTraces ==
  ASSUME IntakeAssumption, IntakeNulls, IntakeInv, NEW d \in Deliveries, Alone(d), Traced(d),
         NEW u \in Uploaders, StageMove(u)
  PROVE  Traced(d)'
<1> DEFINE h == [reg[u] EXCEPT !.pc = "commit", !.d = NoFile]
<1>1. /\ u \in Registrars /\ u \notin Watchers /\ reg[u] \in RegType /\ reg[u].pc = "place"
      /\ reg \in [Registrars -> RegType] /\ Place(reg[u])
      /\ UNCHANGED <<rows, hand, printed, failed, dropped>> /\ RowsStay
  BY UploaderIs, RegIs, SameRows DEF StageMove, IntakeInv, RegOK, fate
<1>2. reg' = [reg EXCEPT ![u] = h]
  BY <1>1 DEF StageMove
<1>3. h.pc = "commit" /\ h.key = reg[u].key /\ h.id = reg[u].id
  BY <1>1 DEF RegType
<1> HIDE DEF h
<1>4. reg'[u] = h /\ \A y \in Registrars \ {u} : reg'[y] = reg[y]
  BY <1>1, <1>2
<1>5. Somewhere(d)' /\ (FolderOf[d] # Test => drive'[Key(d)] = drive[Key(d)])
  BY <1>1, <1>4, PlaceTraces DEF Traced, Registrars
<1>6. ASSUME BillOK(d), FolderOf[d] # Test PROVE BillOK(d)'
  <2>1. Handles(u, d)' <=> Handles(u, d)
    BY <1>1, <1>3, <1>4 DEF Handles, Key
  <2>2. Handles(u, d)' => Followed(d)'
    BY DEF Followed
  <2>3. Refers(u)' /\ reg'[u].key = Key(d) /\ reg'[u].id \notin Live' => d \in dropped'
    BY <1>1, <1>3, <1>4, <1>6 DEF Refers, BillOK, RowsStay
  <2> QED BY <1>1, <1>4, <1>5, <1>6, <2>1, <2>2, <2>3, BillStep
<1> QED BY <1>5, <1>6 DEF Traced

LEMMA StageCommitTraces ==
  ASSUME IntakeAssumption, IntakeNulls, IntakeInv, NEW d \in Deliveries, Alone(d), Traced(d),
         NEW u \in Uploaders, StageCommit(u)
  PROVE  Traced(d)'
<1>1. /\ u \in Registrars /\ u \notin Watchers /\ reg[u].pc = "commit" /\ reg[u].d = NoFile
      /\ reg \in [Registrars -> RegType] /\ reg' = [reg EXCEPT ![u] = Idle]
      /\ UNCHANGED <<store, hand, printed, failed, dropped>>
  BY UploaderIs, RegIs DEF StageCommit, IntakeInv, RegOK, fate, AtWork, Carries
<1>2. RowsStay /\ ((\E i \in Live' : rows'[i].key = reg[u].key) \/ (reg[u].id # Nobody /\ reg[u].id \notin Live))
  BY StageCommitEffect
<1>3. /\ reg'[u].pc = "idle" /\ reg'[u].d = NoFile /\ \A y \in Registrars \ {u} : reg'[y] = reg[y]
  BY <1>1, IdleIs
<1>4. Somewhere(d)'
  BY <1>1, <1>3, SomewhereSame DEF Traced, Registrars
<1>5. ASSUME BillOK(d) PROVE BillOK(d)'
  <2>1. drive'[Key(d)] = drive[Key(d)] /\ dropped \subseteq dropped' /\ ~Refers(u)' /\ ~Handles(u, d)'
    BY <1>1, <1>3 DEF Refers, store, Handles
  <2>2. reg[u].key = Key(d) => Followed(d)'
    <3>1. ASSUME reg[u].key = Key(d) PROVE (\E i \in Live' : rows'[i].key = Key(d)) \/ d \in dropped'
      <4>1. CASE reg[u].id # Nobody /\ reg[u].id \notin Live
        BY <1>1, <1>5, <3>1, <4>1 DEF BillOK, Refers
      <4> QED BY <1>2, <3>1, <4>1
    <3> QED BY <3>1 DEF Followed, Key
  <2>3. Handles(u, d) => Followed(d)'
    BY <2>2 DEF Handles
  <2> QED BY <1>1, <1>2, <1>3, <1>5, <2>1, <2>3, BillStep
<1> QED BY <1>4, <1>5 DEF Traced

LEMMA ZipTraces ==
  ASSUME IntakeAssumption, IntakeNulls, IntakeInv, NEW d \in Deliveries, Alone(d), Traced(d),
         NEW u \in Uploaders, ZipRow(u) \/ ZipCopy(u)
  PROVE  Traced(d)'
<1>0. /\ u \in Registrars /\ u \notin Watchers /\ reg \in [Registrars -> RegType]
  BY UploaderIs DEF IntakeInv, RegOK
<1>1. CASE ZipRow(u)
  <2>1. /\ reg[u].pc = "zip" /\ UNCHANGED <<store, hand, printed, failed, dropped>>
        /\ \A y \in Registrars \ {u} : reg'[y] = reg[y]
    BY <1>0, <1>1 DEF ZipRow, fate
  <2>2. /\ RowsStay /\ \E i \in Live' : rows'[i].key = reg[u].key
        /\ reg'[u].pc = "copy" /\ reg'[u].key = reg[u].key /\ reg'[u].d = reg[u].d
    BY <1>1, ZipRowEffect
  <2>3. Somewhere(d)'
    BY <2>1, <2>2, SomewhereSame DEF Traced, Registrars
  <2>4. ASSUME BillOK(d) PROVE BillOK(d)'
    <3>1. drive'[Key(d)] = drive[Key(d)] /\ dropped \subseteq dropped' /\ ~Refers(u)' /\ ~Handles(u, d)'
      BY <2>1, <2>2 DEF Refers, store, Handles
    <3>2. Handles(u, d) => Followed(d)'
      BY <2>2 DEF Handles, Followed, Key
    <3> QED BY <1>0, <2>1, <2>2, <2>4, <3>1, <3>2, BillStep
  <2> QED BY <2>3, <2>4 DEF Traced
<1>2. CASE ZipCopy(u)
  <2>1. /\ reg[u].pc = "copy" /\ Place(reg[u]) /\ reg' = [reg EXCEPT ![u] = Idle]
        /\ UNCHANGED <<rows, hand, printed, failed, dropped>> /\ RowsStay
    BY <1>2, SameRows DEF ZipCopy, fate, IntakeInv
  <2>2. reg'[u].pc = "idle" /\ \A y \in Registrars \ {u} : reg'[y] = reg[y]
    BY <1>0, <2>1, IdleIs
  <2>3. Somewhere(d)' /\ (FolderOf[d] # Test => drive'[Key(d)] = drive[Key(d)])
    BY <2>1, <2>2, PlaceTraces DEF Traced, Registrars
  <2>4. ~Refers(u)' /\ ~Handles(u, d)' /\ ~Handles(u, d)
    BY <2>1, <2>2 DEF Refers, Handles
  <2>5. ASSUME BillOK(d), FolderOf[d] # Test PROVE BillOK(d)'
    BY <1>0, <2>1, <2>2, <2>3, <2>4, <2>5, BillStep
  <2> QED BY <2>3, <2>5 DEF Traced
<1> QED BY <1>1, <1>2

LEMMA TableRow ==
  ASSUME NEW f \in RowTable, NEW i \in DOMAIN f
  PROVE  f[i] \in Row
BY DEF RowTable

LEMMA CascadeMoveTraces ==
  ASSUME IntakeAssumption, IntakeNulls, IntakeInv, NEW d \in Deliveries, Alone(d), Traced(d),
         NEW i \in RowIds, CascadeMove(i)
  PROVE  Traced(d)'
<1> DEFINE row == casc.read[i]
           n == row.key[2]
           to == Goal(row, casc)
           moves == /\ row.key[1] # Test
                    /\ row.path \in {"incoming", "pending"} \ {to}
                    /\ queue[row.path][n] # NoFile
<1>1. /\ UNCHANGED <<drive, rows, reg, hand, printed, failed, dropped>> /\ RowsStay
      /\ i \in DOMAIN casc.read /\ casc.read \in RowTable
      /\ queue \in [QueueDirs -> [Names -> Deliveries \cup {NoFile}]]
  BY SameRows DEF CascadeMove, IntakeInv, CascOK, CascType, FilesOK, fate
<1>2. queue' = IF moves
               THEN [queue EXCEPT ![row.path][n] = NoFile, ![to][n] = queue[row.path][n]]
               ELSE queue
  BY DEF CascadeMove
<1>3. n \in Names /\ to \in QueueDirs
  <2>1. row \in Row
    <3>1. casc.read \in RowTable /\ i \in DOMAIN casc.read
      BY <1>1
    <3> QED BY <3>1, TableRow
  <2> QED BY <2>1 DEF Row, Keys, Goal, QueueDirs
<1>4. NameOf[d] \in Names /\ (\A p \in QueueDirs, m \in Names : queue[p][m] = d => m = NameOf[d])
      /\ \A p \in QueueDirs : queue[p][NameOf[d]] \in {NoFile, d}
  BY AloneIs
<1>5. ASSUME NEW p \in QueueDirs, queue[p][NameOf[d]] = d
      PROVE  \E q \in QueueDirs : queue'[q][NameOf[d]] = d
  <2>1. CASE moves /\ n = NameOf[d]
    <3>1. row.path \in QueueDirs /\ row.path # to /\ queue[row.path][n] = d
      BY <1>3, <1>4, <2>1 DEF QueueDirs
    <3>2. queue'[to][n] = d
      <4>1. queue' = [queue EXCEPT ![row.path][n] = NoFile, ![to][n] = queue[row.path][n]]
        BY <1>2, <2>1
      <4> HIDE DEF to, row
      <4> QED BY <1>1, <1>3, <3>1, <4>1
    <3> QED BY <1>3, <2>1, <3>2
  <2>2. CASE moves /\ n # NameOf[d]
    <3>1. row.path \in QueueDirs
      BY <2>2 DEF QueueDirs
    <3>2. queue' = [queue EXCEPT ![row.path][n] = NoFile, ![to][n] = queue[row.path][n]]
      BY <1>2, <2>2
    <3>3. queue'[p][NameOf[d]] = queue[p][NameOf[d]]
      <4> HIDE DEF to, row
      <4> QED BY <1>1, <1>3, <1>4, <2>2, <3>1, <3>2
    <3> QED BY <1>5, <3>3
  <2>3. CASE ~moves
    BY <1>2, <1>5, <2>3
  <2> QED BY <2>1, <2>2, <2>3
<1>6. Somewhere(d)'
  BY <1>1, <1>4, <1>5 DEF Somewhere, Traced, QueueDirs
<1> QED BY <1>1, <1>6, TraceQuiet

LEMMA DeleteTraces ==
  ASSUME IntakeAssumption, IntakeNulls, IntakeInv, NEW d \in Deliveries, Alone(d), Traced(d),
         NEW i \in RowIds, DeleteUpload(i)
  PROVE  Traced(d)'
<1> DEFINE row == rows[i]
<1>1. /\ UNCHANGED <<reg, hand, sent, printed, failed>> /\ i \in Live /\ d \in sent
      /\ dropped' = dropped \cup {e \in sent : Key(e) = row.key \/ e = FileAt(row)}
      /\ drive' = (IF row.path = "drive" THEN [drive EXCEPT ![row.key] = NoFile] ELSE drive)
      /\ queue' = (IF row.path \in {"incoming", "pending"}
                   THEN Put(row.path, row.key[2], NoFile) ELSE queue)
      /\ drive \in [Keys -> Deliveries \cup {NoFile}]
      /\ queue \in [QueueDirs -> [Names -> Deliveries \cup {NoFile}]]
  BY DEF DeleteUpload, Alone, IntakeInv, FilesOK
<1>2. row.key \in Keys /\ row.key[2] \in Names /\ row.path \in Path
  <2>1. row \in Row
    BY <1>1 DEF IntakeInv, RowsOK, Live
  <2> QED BY <2>1 DEF Row, Keys
<1>3. /\ Key(d) \in Keys /\ NameOf[d] \in Names
      /\ \A k \in Keys : drive[k] = d => k = Key(d)
      /\ \A p \in QueueDirs, m \in Names : queue[p][m] = d => m = NameOf[d]
      /\ d # NoFile
  BY AloneIs
<1>4. /\ \A j \in Live \ {i} : j \in Live' /\ rows'[j].key = rows[j].key
      /\ i \notin Live'
  BY DeleteEffect
<1>5. Somewhere(d)'
  <2>1. CASE d \in dropped'
    BY <2>1 DEF Somewhere
  <2>2. CASE d \notin dropped'
    <3>1. Key(d) # row.key /\ d # FileAt(row) /\ d \notin dropped
      BY <1>1, <2>2
    <3>2. drive'[Key(d)] = drive[Key(d)]
      BY <1>1, <1>2, <1>3, <3>1
    <3>3. ASSUME NEW p \in QueueDirs, queue[p][NameOf[d]] = d PROVE queue'[p][NameOf[d]] = d
      <4>1. CASE row.path \in {"incoming", "pending"}
        <5>1. queue' = [queue EXCEPT ![row.path][row.key[2]] = NoFile]
          BY <1>1, <4>1 DEF Put
        <5>2. FileAt(row) = queue[row.path][row.key[2]]
          BY <4>1 DEF FileAt
        <5>3. p # row.path \/ NameOf[d] # row.key[2]
          BY <3>1, <3>3, <5>2
        <5> QED BY <1>1, <1>2, <1>3, <3>3, <4>1, <5>1, <5>3 DEF QueueDirs
      <4>2. CASE row.path \notin {"incoming", "pending"}
        BY <1>1, <3>3, <4>2
      <4> QED BY <4>1, <4>2
    <3> QED BY <1>1, <1>3, <3>1, <3>2, <3>3 DEF Somewhere, Traced, QueueDirs
  <2> QED BY <2>1, <2>2
<1>6. ASSUME BillOK(d) PROVE BillOK(d)'
  <2>0. drive'[Key(d)] \in {NoFile, drive[Key(d)]}
    BY <1>1, <1>2, <1>3
  <2>1. \A u \in Uploaders : Handles(u, d)' => Handles(u, d)
    BY <1>1 DEF Handles, Key
  <2>2. \A u \in Uploaders : Handles(u, d)' =>
           /\ drive'[Key(d)] # d
           /\ \A r \in Watchers : reg'[r].pc # "idle" => reg'[r].key # Key(d)
    BY <1>1, <1>3, <1>6, <2>0, <2>1 DEF BillOK
  <2>3. CASE d \in dropped'
    <3>1. Followed(d)'
      BY <2>3 DEF Followed
    <3> QED BY <2>2, <2>3, <3>1 DEF BillOK, Key
  <2>4. CASE d \notin dropped'
    <3>1. Key(d) # row.key /\ d \notin dropped
      BY <1>1, <2>4
    <3>2. drive'[Key(d)] = drive[Key(d)]
      BY <1>1, <1>2, <1>3, <3>1
    <3>3. drive'[Key(d)] # d => Followed(d)'
      <4>1. ASSUME NEW j \in Live, rows[j].key = Key(d) PROVE j \in Live' /\ rows'[j].key = Key(d)
        BY <1>4, <3>1, <4>1
      <4> QED BY <1>1, <1>6, <3>1, <3>2, <4>1 DEF BillOK, Followed, Handles, Key
    <3>4. ASSUME NEW x \in Registrars, Refers(x)', reg'[x].key = Key(d), reg'[x].id \notin Live'
          PROVE  FALSE
      <4>1. Refers(x) /\ reg[x].key = Key(d) /\ reg[x].id = reg'[x].id
        BY <1>1, <3>4 DEF Refers
      <4>2. reg[x].id \in Live
        BY <1>6, <3>1, <4>1 DEF BillOK
      <4>3. reg[x].id = i
        BY <1>4, <3>4, <4>1, <4>2
      <4>4. rows[i].key = Key(d)
        BY <1>1, <4>1, <4>3, RegIs DEF AtWork, Known
      <4> QED BY <3>1, <4>4
    <3> QED BY <1>1, <1>6, <2>2, <3>2, <3>3, <3>4 DEF BillOK, Key
  <2> QED BY <2>3, <2>4
<1> QED BY <1>5, <1>6 DEF Traced

LEMMA ClaimTraces ==
  ASSUME IntakeAssumption, IntakeNulls, IntakeInv, NEW d \in Deliveries, Alone(d), Traced(d),
         NEW n \in Names, Claim(n)
  PROVE  Traced(d)'
<1>1. /\ UNCHANGED <<drive, rows, reg, printed, failed, dropped>> /\ RowsStay
      /\ queue' = [queue EXCEPT !["incoming"][n] = NoFile] /\ hand'.d = queue["incoming"][n]
      /\ hand.pc = "idle" /\ queue \in [QueueDirs -> [Names -> Deliveries \cup {NoFile}]]
      /\ hand.d = NoFile /\ d # NoFile
  BY SameRows, AloneIs DEF Claim, Put, EmptyHand, IntakeInv, FilesOK, HandOK, fate
<1>2. NameOf[d] \in Names /\ (\A p \in QueueDirs, m \in Names : queue[p][m] = d => m = NameOf[d])
  BY AloneIs
<1>3. \A p \in QueueDirs, m \in Names : queue[p][m] = d => queue'[p][m] = d \/ hand'.d = d
  BY <1>1 DEF QueueDirs
<1>4. Somewhere(d)'
  BY <1>1, <1>3 DEF Somewhere, Traced, QueueDirs
<1> QED BY <1>1, <1>4, TraceQuiet

LEMMA DoneTraces ==
  ASSUME IntakeAssumption, IntakeNulls, IntakeInv, NEW d \in Deliveries, Alone(d), Traced(d),
         NEW o \in {"printed", "failed", "kept"}, WorkDone(o)
  PROVE  Traced(d)'
<1>1. /\ UNCHANGED <<drive, reg, dropped>> /\ RowsStay /\ hand.pc = "work"
      /\ printed \subseteq printed' /\ failed \subseteq failed'
      /\ \/ queue' = queue /\ hand.d \in printed' \cup failed'
         \/ queue' = Put("pending", hand.name, hand.d)
      /\ queue \in [QueueDirs -> [Names -> Deliveries \cup {NoFile}]]
  BY DoneEffect DEF WorkDone, IntakeInv, FilesOK
<1>2. /\ NameOf[d] \in Names /\ (\A p \in QueueDirs, m \in Names : queue[p][m] = d => m = NameOf[d])
      /\ hand.d = d <=> hand.name = NameOf[d]
  BY <1>1, AloneIs
<1>3. hand.name \in Names
  BY <1>1 DEF IntakeInv, HandOK
<1>4. Somewhere(d)'
  <2>1. CASE queue' = queue /\ hand.d \in printed' \cup failed'
    BY <1>1, <2>1 DEF Somewhere, Traced
  <2>2. CASE queue' = Put("pending", hand.name, hand.d)
    <3>1. queue' = [queue EXCEPT !["pending"][hand.name] = hand.d]
      BY <2>2 DEF Put
    <3>2. hand.d = d => queue'["pending"][hand.name] = d
      BY <1>1, <1>3, <3>1 DEF QueueDirs
    <3>3. hand.d # d => \A p \in QueueDirs, m \in Names : queue[p][m] = d => queue'[p][m] = d
      BY <1>1, <1>2, <3>1 DEF QueueDirs
    <3> QED BY <1>1, <1>3, <3>2, <3>3 DEF Somewhere, Traced, QueueDirs
  <2> QED BY <1>1, <2>1, <2>2
<1> QED BY <1>1, <1>4, TraceQuiet

LEMMA OrphanTraces ==
  ASSUME IntakeInv, NEW d \in Deliveries, Traced(d), DeleteOrphan
  PROVE  Traced(d)'
<1>1. /\ UNCHANGED <<store, rows, reg, printed, failed>> /\ RowsStay
      /\ dropped' = dropped \cup {hand.d}
  BY SameRows DEF DeleteOrphan, IntakeInv
<1>2. Somewhere(d)'
  BY <1>1 DEF Somewhere, Traced, store
<1> QED BY <1>1, <1>2, TraceQuiet DEF store

LEMMA NextTraces ==
  ASSUME IntakeAssumption, IntakeNulls, OneLock, "commit" \notin Faults, IntakeInv, AllTraced,
         [Next]_vars, NEW d \in Deliveries, Alone(d)'
  PROVE  Traced(d)'
<1> USE IntakeAssumption, IntakeNulls, IntakeInv
<1>1. ASSUME sent' = sent PROVE Alone(d) /\ Traced(d)
  BY <1>1, AloneStays DEF AllTraced
<1>2. CASE UNCHANGED vars
  <2>1. RowsStay /\ UNCHANGED <<store, reg, printed, failed, hand, dropped>> /\ sent' = sent
    BY <1>2, SameRows DEF vars, store, IntakeInv
  <2> QED BY <1>1, <2>1, TraceRows
<1>3. ASSUME NEW e \in Deliveries, Drop(e) PROVE Traced(d)'
  BY <1>3, DropTraces
<1>4. ASSUME ChangeMode PROVE Traced(d)'
  <2>1. RowsStay /\ UNCHANGED <<store, reg, printed, failed, hand, dropped>> /\ sent' = sent
    BY <1>4, SameRows DEF ChangeMode, fate, IntakeInv
  <2> QED BY <1>1, <2>1, TraceRows
<1>5. ASSUME NEW r \in Watchers, NEW k \in Keys, OnEvent(r, k) \/ ScanExistingFiles(r, k)
      PROVE  Traced(d)'
  <2>1. CASE Detect(r, k)
    <3>1. sent' = sent
      BY <2>1 DEF Detect, fate
    <3> QED BY <1>1, <2>1, <3>1, DetectTraces
  <2>2. CASE UNCHANGED <<verdict, mode, decisions, store, rows, lock, reg, casc, hand, fate>>
    <3>1. RowsStay /\ UNCHANGED <<store, reg, printed, failed, hand, dropped>> /\ sent' = sent
      BY <2>2, SameRows DEF fate, IntakeInv
    <3> QED BY <1>1, <3>1, TraceRows
  <2> QED BY <1>5, <2>1, <2>2 DEF OnEvent, ScanExistingFiles
<1>6. ASSUME NEW r \in Watchers, Register(r) PROVE Traced(d)'
  <2>1. sent' = sent
    BY <1>6 DEF Register, Plan, MoveToQueue, CommitRow, CommitFails, fate
  <2> QED BY <1>1, <1>6, <2>1, PlanTraces, MoveTraces, CommitTraces DEF Register
<1>7. ASSUME NEW u \in Uploaders, Task(u) PROVE Traced(d)'
  <2>1. ASSUME NEW e \in Deliveries, NEW kind \in {"stage", "zip"}, Upload(u, e, kind)
        PROVE  Traced(d)'
    BY <2>1, UploadTraces
  <2>2. ASSUME StageRow(u) \/ StageMove(u) \/ StageCommit(u) \/ ZipRow(u) \/ ZipCopy(u)
        PROVE  Traced(d)'
    <3>1. sent' = sent
      BY <2>2 DEF StageRow, StageMove, StageCommit, ZipRow, ZipCopy, fate
    <3> QED BY <1>1, <2>2, <3>1, StageRowTraces, StageMoveTraces, StageCommitTraces, ZipTraces
  <2> QED BY <1>7, <2>1, <2>2 DEF Task
<1>8. ASSUME Cascade PROVE Traced(d)'
  <2>1. ASSUME NEW t \in Templates, NEW v \in {"APPROVED", "REJECTED"}, SetTemplate(t, v)
        PROVE  Traced(d)'
    <3>1. RowsStay /\ UNCHANGED <<store, reg, printed, failed, hand, dropped>> /\ sent' = sent
      BY <2>1, SameRows DEF SetTemplate, fate, IntakeInv
    <3> QED BY <1>1, <3>1, TraceRows
  <2>2. ASSUME CascadeLoad PROVE Traced(d)'
    <3>1. RowsStay /\ UNCHANGED <<store, reg, printed, failed, hand, dropped>> /\ sent' = sent
      BY <2>2, SameRows DEF CascadeLoad, fate, IntakeInv
    <3> QED BY <1>1, <3>1, TraceRows
  <2>3. ASSUME CascadeCommit PROVE Traced(d)'
    <3>1. RowsStay /\ UNCHANGED <<store, reg, printed, failed, hand, dropped>> /\ sent' = sent
      BY <2>3, CascadeCommitEffect DEF CascadeCommit, fate
    <3> QED BY <1>1, <3>1, TraceRows
  <2>4. ASSUME NEW i \in RowIds, CascadeMove(i) PROVE Traced(d)'
    <3>1. sent' = sent
      BY <2>4 DEF CascadeMove, fate
    <3> QED BY <1>1, <2>4, <3>1, CascadeMoveTraces
  <2> QED BY <1>8, <2>1, <2>2, <2>3, <2>4 DEF Cascade
<1>9. ASSUME NEW i \in RowIds, DeleteUpload(i) PROVE Traced(d)'
  <2>1. sent' = sent
    BY <1>9 DEF DeleteUpload
  <2> QED BY <1>1, <1>9, <2>1, DeleteTraces
<1>10. ASSUME Worker PROVE Traced(d)'
  <2>1. sent' = sent
    BY <1>10 DEF Worker, Claim, LookUpRow, DeleteOrphan, WorkDone, fate
  <2>2. ASSUME LookUpRow PROVE Traced(d)'
    <3>1. RowsStay /\ UNCHANGED <<store, reg, printed, failed, dropped>> /\ hand'.d = hand.d
      BY <2>2, LookUpEffect DEF LookUpRow, fate
    <3> QED BY <1>1, <2>1, <3>1, TraceRows
  <2> QED BY <1>1, <1>10, <2>1, <2>2, ClaimTraces, OrphanTraces, DoneTraces DEF Worker
<1> QED BY <1>2, <1>3, <1>4, <1>5, <1>6, <1>7, <1>8, <1>9, <1>10 DEF Next

\* A delivery whose name no other has never disappears between the drive, the
\* queue, the upload tasks and the worker: what the watcher unlinks before it
\* moves a file is never that file (watcher.py:297-342).  The lock that shows it
\* is one per process, and a commit that fails after the move leaves a queued
\* file without a row, so both are excluded.
THEOREM DeliveriesKept ==
  ASSUME OneLock, "commit" \notin Faults
  PROVE  Spec => []NothingLost
<1>1. Init => AllTraced
  BY DEF Init, AllTraced, Alone
<1>2. ASSUME IntakeInv, AllTraced, [Next]_vars PROVE AllTraced'
  <2>1. ASSUME NEW d \in Deliveries, Alone(d)' PROVE Traced(d)'
    BY <1>2, <2>1, IntakeAssumption, IntakeNulls, NextTraces
  <2> QED BY <2>1 DEF AllTraced
<1>3. ASSUME IntakeInv, AllTraced PROVE NothingLost
  BY <1>3 DEF AllTraced, Alone, Traced, NothingLost, IntakeInv, FatesOK
<1> QED BY <1>1, <1>2, <1>3, IntakeInvariant, PTL DEF Spec
=============================================================================
