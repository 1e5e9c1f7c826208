--------------------------- MODULE UserAccessProofs ---------------------------
(***************************************************************************)
(* Proofs about UserAccess, for any number of management calls, readers,    *)
(* processes and requests and any lifetime of a cache entry: types, and     *)
(* that a reader is answered with roles no older than that lifetime.        *)
(***************************************************************************)
EXTENDS UserAccess, TLAPS

OpType ==
  [pc : {"new", "loaded", "ready", "committed", "done"},
   kind : {"none", "create", "delete", "update", "approve", "reject"},
   list : RoleLists \cup {<<>>}, tick : Tickets \cup {NoUser},
   proc : Processes \cup {NoUser}, saw : Account \cup {NoUser},
   rm : SUBSET (Roles \X Handlers), add : SUBSET Roles]
CallType ==
  [pc : {"idle", "lookup", "user", "grants", "fill", "answered"},
   proc : Processes \cup {NoUser}, began : Nat,
   primary : Roles \cup {NoUser}, roles : SUBSET Roles]
Entry == [roles : SUBSET Roles, until : Nat]
TicketType == [status : {"none", "PENDING", "APPROVED", "REJECTED"},
               roles : RoleLists \cup {<<>>}]

ClockOK == clock \in 0..MaxTime
UserOK == user \in Account \cup {NoUser}
TicketOK == ticket \in [Tickets -> TicketType]
OpOK == op \in [Handlers -> OpType]
CacheOK == cache \in [Processes -> Entry \cup {NoEntry}]
CallOK == call \in [Clients -> CallType]
PastOK == past \in SUBSET [had : Holdings, until : Nat]

\* A request that was filed asks for something.
Asked == \A t \in Tickets : ticket[t].status # "none" => ticket[t].roles # <<>>

\* A call that will create an account has its first role.
Named ==
  \A h \in Handlers :
    /\ op[h].kind = "create" => op[h].list # <<>>
    /\ op[h].kind \in {"approve", "reject"} =>
         op[h].tick \in Tickets /\ ticket[op[h].tick].status # "none"
    /\ op[h].kind = "approve" /\ op[h].pc = "ready" => op[h].list # <<>>

Types == ClockOK /\ UserOK /\ TicketOK /\ OpOK /\ CacheOK /\ CallOK /\ PastOK /\ Asked /\ Named

\* Where a reader stands, what it carries is no older than its beginning.
Fresh(c) ==
  /\ call[c].began <= clock
  /\ call[c].pc # "idle" => call[c].proc \in Processes
  /\ call[c].pc \in {"lookup", "user"} => call[c].roles = {}
  /\ call[c].pc = "grants" =>
       /\ call[c].primary \in Roles
       /\ \E had \in Since(call[c].began) : call[c].primary \in had.primary
  /\ call[c].pc = "fill" => Recent(call[c].roles, call[c].began)
  /\ call[c].pc = "answered" => Recent(call[c].roles, call[c].began - TTL)

\* An entry of a cache is no older than its lifetime.
CacheFresh(p) ==
  cache[p] # NoEntry =>
    /\ cache[p].until - TTL <= clock
    /\ Recent(cache[p].roles, cache[p].until - TTL)

AllFresh == (\A c \in Clients : Fresh(c)) /\ (\A p \in Processes : CacheFresh(p))

AccessInv == Types /\ AllFresh
-----------------------------------------------------------------------------
(* The roles the account has, and had. *)

\* What the account has is a set of grants and at most one primary role.
LEMMA HavingTyped ==
  ASSUME UserOK
  PROVE  Having \in Holdings
BY DEF UserOK, Having, Holdings, Account, Granted

\* The younger the time, the fewer the roles the account had since.
LEMMA SinceEarlier ==
  ASSUME PastOK, NEW t \in Int, NEW u \in Int, u <= t
  PROVE  Since(t) \subseteq Since(u)
BY DEF PastOK, Since

LEMMA RecentEarlier ==
  ASSUME PastOK, NEW t \in Int, NEW u \in Int, u <= t, NEW roles, Recent(roles, t)
  PROVE  Recent(roles, u)
BY SinceEarlier DEF Recent

\* What the account has now, it had since any time.
LEMMA HavingSince == \A t : Having \in Since(t)
BY DEF Since

\* A transaction writes down what it replaces.
RolesStep == UNCHANGED <<user, past>> \/ \E u : Write(u)

LEMMA SinceGrows ==
  ASSUME ClockOK, AccessAssumption, NEW t \in Int, t <= clock, RolesStep
  PROVE  Since(t) \subseteq Since(t)'
<1>1. CASE UNCHANGED <<user, past>>
  BY <1>1 DEF Since, Having, Granted
<1>2. CASE \E u : Write(u)
  <2>1. past' = past \cup {[had |-> Having, until |-> clock]}
    BY <1>2 DEF Write
  <2>2. \A q \in past : q \in past'
    BY <2>1
  <2>3. [had |-> Having, until |-> clock] \in {q \in past' : q.until >= t}
    BY <2>1 DEF ClockOK, AccessAssumption
  <2>4. Having \in {p.had : p \in {q \in past' : q.until >= t}}
    BY <2>3
  <2> QED BY <2>2, <2>4 DEF Since
<1> QED BY <1>1, <1>2 DEF RolesStep

LEMMA RecentStays ==
  ASSUME ClockOK, AccessAssumption, NEW t \in Int, t <= clock, RolesStep,
         NEW roles, Recent(roles, t)
  PROVE  Recent(roles, t)'
BY SinceGrows DEF Recent

\* Whoever moves, the account changes by transactions only.
LEMMA NextIsRolesStep ==
  ASSUME Next
  PROVE  RolesStep
<1>1. CASE Tick
  BY <1>1 DEF Tick, RolesStep
<1>2. CASE \E t \in Tickets, list \in RoleLists : RequestAccess(t, list)
  BY <1>2 DEF RequestAccess, RolesStep
<1>3. CASE \E h \in Handlers : HandlerStep(h)
  <2> PICK h \in Handlers : HandlerStep(h)
    BY <1>3
  <2>1. CASE Commit(h)
    <3> USE DEF RolesStep
    <3>1. CASE CommitCreate(h)
      BY <3>1 DEF CommitCreate
    <3>2. CASE CommitDelete(h)
      BY <3>2 DEF CommitDelete
    <3>3. CASE CommitUpdate(h)
      BY <3>3 DEF CommitUpdate
    <3>4. CASE CommitApprove(h)
      BY <3>4 DEF CommitApprove
    <3>5. CASE CommitReject(h)
      BY <3>5 DEF CommitReject
    <3> QED BY <2>1, <3>1, <3>2, <3>3, <3>4, <3>5 DEF Commit, Committed
  <2>2. CASE ~Commit(h)
    BY <2>2 DEF HandlerStep, CreateUser, UpdateUserRoles, DeleteUser, ApproveRequest,
                RejectRequest, Start, Prepare, Refuse, Invalidate, RolesStep
  <2> QED BY <2>1, <2>2
<1>4. CASE \E c \in Clients : ClientStep(c)
  BY <1>4 DEF ClientStep, BeginCall, LookUp, ReadUser, ReadGrants, Fill, RolesStep
<1> QED BY <1>1, <1>2, <1>3, <1>4 DEF Next
-----------------------------------------------------------------------------
(* Types. *)

LEMMA NewOpTyped == NewOp \in OpType /\ Done \in OpType
BY DEF NewOp, Done, OpType

LEMMA NewCallTyped == NewCall \in CallType
BY DEF NewCall, CallType

LEMMA InitTyped ==
  ASSUME AccessAssumption, Init
  PROVE  Types
<1> USE DEF Init
<1>1. ClockOK /\ UserOK /\ PastOK
  BY DEF ClockOK, UserOK, PastOK, AccessAssumption
<1>2. TicketOK /\ Asked
  BY DEF TicketOK, TicketType, Asked
<1>3. OpOK /\ Named
  BY NewOpTyped DEF OpOK, Named, NewOp
<1>4. CacheOK /\ CallOK
  BY NewCallTyped DEF CacheOK, CallOK
<1> QED BY <1>1, <1>2, <1>3, <1>4 DEF Types

\* A list of a payload holds roles.
LEMMA ListTyped ==
  ASSUME AccessAssumption, NEW list \in RoleLists \cup {<<>>}
  PROVE  /\ list \in Seq(Roles)
         /\ ToSet(list) \subseteq Roles
         /\ list # <<>> => Head(list) \in Roles
<1>1. list \in Seq(Roles)
  <2>1. CASE list \in RoleLists
    BY <2>1 DEF AccessAssumption
  <2>2. CASE list = <<>>
    BY <2>2
  <2> QED BY <2>1, <2>2
<1>2. DOMAIN list = 1..Len(list) /\ \A i \in 1..Len(list) : list[i] \in Roles
  BY <1>1
<1>3. ToSet(list) \subseteq Roles
  BY <1>2 DEF ToSet
<1>4. list # <<>> => Head(list) \in Roles
  BY <1>1
<1> QED BY <1>1, <1>3, <1>4

\* A transaction writes an account, and what it replaces.
LEMMA WriteTyped ==
  ASSUME Types, NEW u \in Account \cup {NoUser}, Write(u), AccessAssumption
  PROVE  UserOK' /\ PastOK'
<1>1. [had |-> Having, until |-> clock] \in [had : Holdings, until : Nat]
  BY HavingTyped DEF Types, ClockOK, AccessAssumption
<1> QED BY <1>1 DEF Write, UserOK, PastOK, Types

\* A call that starts has a kind, and what its kind needs.
LEMMA StartTyped ==
  ASSUME Types, NEW h \in Handlers, NEW p \in Processes, NEW o \in OpType, Start(h, p, o),
         o.kind = "create" => o.list # <<>>,
         o.kind \in {"approve", "reject"} =>
           o.tick \in Tickets /\ ticket[o.tick].status # "none"
  PROVE  Types'
<1>1. [o EXCEPT !.pc = "loaded", !.proc = p] \in OpType
  BY DEF OpType
<1>2. OpOK'
  BY <1>1 DEF Start, OpOK, Types
<1>3. Named'
  <2>1. op'[h] = [o EXCEPT !.pc = "loaded", !.proc = p]
    BY DEF Start, Types, OpOK
  <2>2. op'[h].kind = o.kind /\ op'[h].list = o.list /\ op'[h].tick = o.tick /\ op'[h].pc # "ready"
    BY <2>1 DEF OpType
  <2>3. \A g \in Handlers : g # h => op'[g] = op[g]
    BY DEF Start, Types, OpOK
  <2> QED BY <2>2, <2>3 DEF Start, Types, Named
<1> QED BY <1>2, <1>3 DEF Start, Types, ClockOK, UserOK, TicketOK, CacheOK, CallOK, PastOK, Asked

LEMMA PrepareTyped ==
  ASSUME AccessAssumption, Types, NEW h \in Handlers, Prepare(h)
  PROVE  Types'
<1> DEFINE o == [op[h] EXCEPT !.pc = "ready"]
           p == op'[h]
           Good == /\ p \in OpType /\ p.kind = op[h].kind /\ p.tick = op[h].tick
                   /\ p.kind = "create" => p.list = op[h].list
                   /\ p.kind = "approve" => p.list # <<>>
<1>1. op[h] \in OpType /\ o \in OpType
  BY DEF Types, OpOK, OpType
<1>2. user \in Account \cup {NoUser}
  BY DEF Types, UserOK
<1>3. ASSUME op[h].kind = "update"
     PROVE  Good
  <2> DEFINE rm == IF user = NoUser THEN {} ELSE user.grants
             add == ToSet(o.list)
  <2>1. p = [o EXCEPT !.add = add, !.rm = rm]
    BY <1>3, <1>1 DEF Prepare, Types, OpOK
  <2>2. add \subseteq Roles
    BY <1>1, ListTyped DEF OpType
  <2>3. rm \in SUBSET (Roles \X Handlers)
    BY <1>2 DEF Account
  <2> HIDE DEF rm, add
  <2> QED BY <1>1, <1>3, <2>1, <2>2, <2>3 DEF OpType
<1>4. ASSUME op[h].kind = "create"
     PROVE  Good
  <2> DEFINE add == ToSet(o.list)
  <2>1. p = [o EXCEPT !.add = add]
    BY <1>4, <1>1 DEF Prepare, Types, OpOK
  <2>2. add \subseteq Roles
    BY <1>1, ListTyped DEF OpType
  <2> HIDE DEF add
  <2> QED BY <1>1, <1>4, <2>1, <2>2 DEF OpType
<1>5. ASSUME op[h].kind = "approve"
     PROVE  Good
  <2> DEFINE roles == ticket[op[h].tick].roles
             add == Requested(roles) \ (IF user = NoUser THEN {} ELSE Granted(user))
  <2>1. p = [o EXCEPT !.saw = user, !.list = roles, !.add = add]
    BY <1>5, <1>1 DEF Prepare, Types, OpOK, OpType
  <2>2. roles \in RoleLists \cup {<<>>} /\ roles # <<>>
    BY <1>5 DEF Types, Named, TicketOK, TicketType, Asked
  <2>3. add \subseteq Roles
    BY <2>2, ListTyped DEF Requested, Roles
  <2> HIDE DEF roles, add
  <2> QED BY <1>1, <1>2, <1>5, <2>1, <2>2, <2>3 DEF OpType
<1>6. ASSUME op[h].kind \notin {"update", "create", "approve"}
     PROVE  Good
  <2>1. p = o
    BY <1>6, <1>1 DEF Prepare, Types, OpOK
  <2> QED BY <1>6, <1>1, <2>1 DEF OpType
<1>7. Good
  BY <1>3, <1>4, <1>5, <1>6
<1>8. \A g \in Handlers : g # h => op'[g] = op[g]
  BY DEF Prepare, Types, OpOK
<1>9. OpOK'
  <2>1. op' = [op EXCEPT ![h] = p]
    BY DEF Prepare, Types, OpOK
  <2> QED BY <2>1, <1>7 DEF Types, OpOK
<1>10. Named'
  BY <1>7, <1>8 DEF Named, Types, Prepare
<1> QED BY <1>9, <1>10 DEF Prepare, Types, ClockOK, UserOK, TicketOK, CacheOK, CallOK, PastOK, Asked

\* The rows of a call are grants.
LEMMA RowsTyped ==
  ASSUME Types, NEW h \in Handlers
  PROVE  /\ Rows(h) \in SUBSET (Roles \X Handlers)
         /\ op[h] \in OpType
BY DEF Types, OpOK, OpType, Rows

LEMMA NewAccountTyped ==
  ASSUME AccessAssumption, Types, NEW h \in Handlers, NEW active \in BOOLEAN,
         op[h].list # <<>>
  PROVE  NewAccount(h, active) \in Account
<1>1. Head(op[h].list) \in Roles
  BY RowsTyped, ListTyped DEF OpType
<1> QED BY <1>1, RowsTyped DEF NewAccount, Account

LEMMA CommittedTyped ==
  ASSUME AccessAssumption, Types, NEW h \in Handlers, op[h].pc = "ready", Committed(h)
  PROVE  UserOK' /\ PastOK'
<1>1. op[h] \in OpType /\ Rows(h) \in SUBSET (Roles \X Handlers)
  BY RowsTyped
<1>2. CASE UNCHANGED <<user, past>>
  BY <1>2 DEF Types, UserOK, PastOK
<1>3. ASSUME CommitCreate(h)
      PROVE  UserOK' /\ PastOK'
  <2>1. op[h].list # <<>>
    BY <1>3 DEF CommitCreate, Types, Named
  <2> QED BY <1>3, <2>1, NewAccountTyped, WriteTyped DEF CommitCreate
<1>4. ASSUME CommitDelete(h)
      PROVE  UserOK' /\ PastOK'
  BY <1>4, <1>2, WriteTyped DEF CommitDelete
<1>5. ASSUME CommitUpdate(h)
      PROVE  UserOK' /\ PastOK'
  <2> DEFINE u == [user EXCEPT !.grants = Kept(h) \cup Rows(h), !.primary = NewPrimary(h)]
  <2>1. user \in Account /\ op[h].saw \in Account
    BY <1>1, <1>5 DEF CommitUpdate, SameAccount, Types, UserOK, OpType
  <2>2. NewPrimary(h) \in Roles
    <3>1. op[h].list # <<>> => Head(op[h].list) \in Roles
      BY <1>1, ListTyped DEF OpType
    <3> QED BY <2>1, <3>1 DEF NewPrimary, Roles, Account
  <2>3. Kept(h) \in SUBSET (Roles \X Handlers)
    BY <2>1 DEF Kept, Account
  <2>4. u \in Account
    BY <1>1, <2>1, <2>2, <2>3 DEF Account
  <2> QED BY <1>5, <2>4, WriteTyped DEF CommitUpdate
<1>6. ASSUME CommitApprove(h)
      PROVE  UserOK' /\ PastOK'
  <2>1. CASE Write(NewAccount(h, TRUE))
    <3>1. op[h].list # <<>>
      BY <1>6 DEF CommitApprove, Types, Named
    <3> QED BY <2>1, <3>1, NewAccountTyped, WriteTyped
  <2>2. CASE SameAccount(h) /\ Write([user EXCEPT !.grants = @ \cup Rows(h)])
    <3>1. user \in Account
      BY <2>2 DEF SameAccount, Types, UserOK
    <3>2. [user EXCEPT !.grants = @ \cup Rows(h)] \in Account
      BY <1>1, <3>1 DEF Account
    <3> QED BY <2>2, <3>2, WriteTyped
  <2> QED BY <1>2, <1>6, <2>1, <2>2 DEF CommitApprove
<1>7. ASSUME CommitReject(h)
      PROVE  UserOK' /\ PastOK'
  BY <1>7, <1>2 DEF CommitReject
<1> QED BY <1>3, <1>4, <1>5, <1>6, <1>7 DEF Committed

\* A decision keeps what was asked for.
LEMMA DecideTyped ==
  ASSUME Types, NEW h \in Handlers, NEW status \in {"APPROVED", "REJECTED"},
         op[h].kind \in {"approve", "reject"}, Decide(h, status)
  PROVE  TicketOK' /\ Asked' /\ \A t \in Tickets :
            ticket'[t].roles = ticket[t].roles /\
            (ticket[t].status # "none" => ticket'[t].status # "none")
<1> DEFINE k == op[h].tick
<1>1. k \in Tickets /\ ticket[k].status # "none"
  BY DEF Types, Named
<1>2. ticket' = [ticket EXCEPT ![k] = [ticket[k] EXCEPT !.status = status]]
  BY DEF Decide
<1>3. [ticket[k] EXCEPT !.status = status] \in TicketType
  BY <1>1 DEF Types, TicketOK, TicketType
<1>4. \A t \in Tickets : ticket[t] \in TicketType /\ DOMAIN ticket = Tickets
  BY DEF Types, TicketOK
<1>5. ticket'[k].roles = ticket[k].roles /\ ticket'[k].status = status
  BY <1>1, <1>2, <1>4 DEF TicketType
<1>6. \A t \in Tickets : t # k => ticket'[t] = ticket[t]
  BY <1>2, <1>4
<1>7. TicketOK'
  BY <1>2, <1>3 DEF Types, TicketOK
<1> HIDE DEF k
<1>8. Asked'
  BY <1>1, <1>5, <1>6 DEF Types, Asked
<1> QED BY <1>1, <1>5, <1>6, <1>7, <1>8

LEMMA TicketsTyped ==
  ASSUME Types, NEW h \in Handlers, Committed(h)
  PROVE  TicketOK' /\ Asked' /\ \A t \in Tickets :
            ticket'[t].roles = ticket[t].roles /\
            (ticket[t].status # "none" => ticket'[t].status # "none")
<1>1. CASE UNCHANGED ticket
  BY <1>1 DEF Types, TicketOK, Asked
<1>2. CASE CommitApprove(h)
  BY <1>2, DecideTyped DEF CommitApprove
<1>3. CASE CommitReject(h)
  BY <1>3, DecideTyped DEF CommitReject
<1> QED BY <1>1, <1>2, <1>3 DEF Committed, CommitCreate, CommitDelete, CommitUpdate

\* A call that moves on without its fields keeps the others as they were.
LEMMA OpReset ==
  ASSUME Types, NEW h \in Handlers, NEW o \in OpType, o.kind = "none",
         op' = [op EXCEPT ![h] = o],
         \A t \in Tickets : ticket[t].status # "none" => ticket'[t].status # "none"
  PROVE  OpOK' /\ Named'
<1>1. OpOK'
  BY DEF Types, OpOK
<1>2. op'[h] = o /\ \A g \in Handlers : g # h => op'[g] = op[g]
  BY DEF Types, OpOK
<1> QED BY <1>1, <1>2 DEF Types, Named

LEMMA CommitTyped ==
  ASSUME AccessAssumption, Types, NEW h \in Handlers, Commit(h)
  PROVE  Types'
<1> DEFINE o == IF op[h].kind = "reject" THEN Done
                ELSE [Done EXCEPT !.pc = "committed", !.proc = op[h].proc]
<1>1. o \in OpType /\ o.kind = "none"
  BY NewOpTyped, RowsTyped DEF OpType, Done, NewOp
<1>2. op' = [op EXCEPT ![h] = o]
  BY DEF Commit
<1>3. UserOK' /\ PastOK'
  BY CommittedTyped DEF Commit
<1>4. TicketOK' /\ Asked' /\ \A t \in Tickets : ticket[t].status # "none" => ticket'[t].status # "none"
  BY TicketsTyped DEF Commit
<1>5. OpOK' /\ Named'
  <2> HIDE DEF o
  <2> QED BY <1>1, <1>2, <1>4, OpReset
<1> QED BY <1>3, <1>4, <1>5 DEF Commit, Types, ClockOK, CacheOK, CallOK

LEMMA HandlerTyped ==
  ASSUME AccessAssumption, Types, NEW h \in Handlers, HandlerStep(h)
  PROVE  Types'
<1>1. ASSUME NEW p \in Processes, NEW list \in RoleLists, CreateUser(h, p, list)
      PROVE  Types'
  <2>1. [NewOp EXCEPT !.kind = "create", !.list = list] \in OpType
    BY DEF NewOp, OpType
  <2> QED BY <1>1, <2>1, StartTyped DEF CreateUser, NewOp
<1>2. ASSUME NEW p \in Processes, NEW list \in RoleLists, UpdateUserRoles(h, p, list)
      PROVE  Types'
  <2>1. [NewOp EXCEPT !.kind = "update", !.list = list, !.saw = user] \in OpType
    BY DEF NewOp, OpType, Types, UserOK
  <2> QED BY <1>2, <2>1, StartTyped DEF UpdateUserRoles, NewOp
<1>3. ASSUME NEW p \in Processes, DeleteUser(h, p)
      PROVE  Types'
  <2>1. [NewOp EXCEPT !.kind = "delete", !.saw = user] \in OpType
    BY DEF NewOp, OpType, Types, UserOK
  <2> QED BY <1>3, <2>1, StartTyped DEF DeleteUser, NewOp
<1>4. ASSUME NEW p \in Processes, NEW t \in Tickets, ApproveRequest(h, p, t)
      PROVE  Types'
  <2>1. [NewOp EXCEPT !.kind = "approve", !.tick = t] \in OpType
    BY DEF NewOp, OpType
  <2> QED BY <1>4, <2>1, StartTyped DEF ApproveRequest, NewOp
<1>5. ASSUME NEW p \in Processes, NEW t \in Tickets, RejectRequest(h, p, t)
      PROVE  Types'
  <2>1. [NewOp EXCEPT !.kind = "reject", !.tick = t] \in OpType
    BY DEF NewOp, OpType
  <2> QED BY <1>5, <2>1, StartTyped DEF RejectRequest, NewOp
<1>6. ASSUME Refuse(h)
      PROVE  Types'
  <2>1. Done \in OpType /\ Done.kind = "none"
    BY NewOpTyped DEF Done, NewOp
  <2>2. OpOK' /\ Named'
    BY <1>6, <2>1, OpReset DEF Refuse
  <2> QED BY <1>6, <2>2 DEF Refuse, Types, ClockOK, UserOK, TicketOK, CacheOK, CallOK, PastOK, Asked
<1>7. ASSUME Invalidate(h)
      PROVE  Types'
  <2>1. Done \in OpType /\ Done.kind = "none"
    BY NewOpTyped DEF Done, NewOp
  <2>2. OpOK' /\ Named'
    BY <1>7, <2>1, OpReset DEF Invalidate
  <2>3. CacheOK'
    BY <1>7 DEF Invalidate, Types, CacheOK
  <2> QED BY <1>7, <2>2, <2>3 DEF Invalidate, Types, ClockOK, UserOK, TicketOK, CallOK, PastOK, Asked
<1> QED BY <1>1, <1>2, <1>3, <1>4, <1>5, <1>6, <1>7, PrepareTyped, CommitTyped DEF HandlerStep

LEMMA RequestTyped ==
  ASSUME Types, NEW t \in Tickets, NEW list \in RoleLists, RequestAccess(t, list)
  PROVE  Types'
<1> DEFINE row == [status |-> "PENDING", roles |-> list]
<1>1. row \in TicketType
  BY DEF TicketType
<1>2. TicketOK'
  BY <1>1 DEF RequestAccess, Types, TicketOK
<1>3. ticket'[t] = row /\ \A s \in Tickets : s # t => ticket'[s] = ticket[s]
  BY DEF RequestAccess, Types, TicketOK
<1>4. Asked'
  BY <1>3 DEF RequestAccess, Types, Asked
<1>5. Named'
  <2>1. \A s \in Tickets : ticket[s].status # "none" => ticket'[s].status # "none"
    BY <1>3 DEF RequestAccess
  <2> QED BY <2>1 DEF RequestAccess, Types, Named
<1> QED BY <1>2, <1>4, <1>5 DEF RequestAccess, Types, ClockOK, UserOK, OpOK, CacheOK, CallOK, PastOK

\* A call that reads changes itself and at most the cache.
LEMMA CallTyped ==
  ASSUME Types, NEW c \in Clients, NEW k \in CallType, call' = [call EXCEPT ![c] = k]
  PROVE  CallOK'
BY DEF Types, CallOK

LEMMA ClientTyped ==
  ASSUME AccessAssumption, Types, AllFresh, NEW c \in Clients, ClientStep(c)
  PROVE  Types'
<1> DEFINE k == call'[c]
<1>1. call[c] \in CallType /\ clock \in Nat /\ user \in Account \cup {NoUser}
  BY DEF Types, CallOK, ClockOK, UserOK, AccessAssumption
<1>2. ASSUME NEW p \in Processes, BeginCall(c, p)
      PROVE  CallOK' /\ CacheOK'
  <2>1. [NewCall EXCEPT !.pc = "lookup", !.proc = p, !.began = clock] \in CallType
    BY <1>1 DEF NewCall, CallType
  <2> QED BY <1>2, <2>1, CallTyped DEF BeginCall, Types, CacheOK
<1>3. ASSUME LookUp(c)
      PROVE  CallOK' /\ CacheOK'
  <2> DEFINE e == cache[call[c].proc]
             l == IF Hit(c) THEN [call[c] EXCEPT !.pc = "answered", !.roles = e.roles]
                  ELSE [call[c] EXCEPT !.pc = "user"]
  <2>1. call[c].proc \in Processes
    BY <1>3 DEF LookUp, AllFresh, Fresh
  <2>2. Hit(c) => e \in Entry
    BY <2>1 DEF Hit, Types, CacheOK
  <2>3. l \in CallType
    BY <1>1, <2>2 DEF CallType, Entry
  <2>4. call' = [call EXCEPT ![c] = l]
    BY <1>3 DEF LookUp
  <2> QED BY <1>3, <2>3, <2>4, CallTyped DEF LookUp, Types, CacheOK
<1>4. ASSUME ReadUser(c)
      PROVE  CallOK' /\ CacheOK'
  <2> DEFINE l == IF user = NoUser THEN [call[c] EXCEPT !.pc = "fill"]
                  ELSE IF user.active THEN [call[c] EXCEPT !.pc = "grants", !.primary = user.primary]
                  ELSE NewCall
  <2>1. l \in CallType
    BY <1>1, NewCallTyped DEF CallType, Account
  <2>2. call' = [call EXCEPT ![c] = l]
    BY <1>4 DEF ReadUser
  <2> QED BY <1>4, <2>1, <2>2, CallTyped DEF ReadUser, Types, CacheOK
<1>5. ASSUME ReadGrants(c)
      PROVE  CallOK' /\ CacheOK'
  <2> DEFINE roles == RolesOf(call[c].primary, IF user = NoUser THEN {} ELSE Granted(user))
             l == [call[c] EXCEPT !.pc = "fill", !.roles = roles]
  <2>1. call[c].primary \in Roles
    BY <1>5 DEF ReadGrants, AllFresh, Fresh
  <2>2. roles \in SUBSET Roles
    BY <1>1, <2>1 DEF RolesOf, Granted, Account
  <2>3. l \in CallType
    <3> HIDE DEF roles
    <3> QED BY <1>1, <2>2 DEF CallType
  <2>4. call' = [call EXCEPT ![c] = l]
    BY <1>5 DEF ReadGrants
  <2> QED BY <1>5, <2>3, <2>4, CallTyped DEF ReadGrants, Types, CacheOK
<1>6. ASSUME Fill(c)
      PROVE  CallOK' /\ CacheOK'
  <2> DEFINE l == [call[c] EXCEPT !.pc = "answered"]
             e == [roles |-> call[c].roles, until |-> call[c].began + TTL]
  <2>1. l \in CallType
    BY <1>1 DEF CallType
  <2>2. e \in Entry
    BY <1>1 DEF CallType, Entry, AccessAssumption
  <2>3. call' = [call EXCEPT ![c] = l] /\ cache' = [cache EXCEPT ![call[c].proc] = e]
    BY <1>6 DEF Fill
  <2>4. CacheOK'
    BY <2>2, <2>3 DEF Types, CacheOK
  <2> QED BY <2>1, <2>3, <2>4, CallTyped
<1>7. UNCHANGED <<clock, user, ticket, op, past>> /\ CallOK' /\ CacheOK'
  <2>1. UNCHANGED <<clock, user, ticket, op, past>>
    BY DEF ClientStep, BeginCall, LookUp, ReadUser, ReadGrants, Fill
  <2>2. CallOK' /\ CacheOK'
    BY <1>2, <1>3, <1>4, <1>5, <1>6 DEF ClientStep
  <2> QED BY <2>1, <2>2
<1> QED BY <1>7 DEF Types, ClockOK, UserOK, TicketOK, OpOK, PastOK, Asked, Named

LEMMA NextTyped ==
  ASSUME AccessAssumption, Types, AllFresh, Next
  PROVE  Types'
<1>1. CASE Tick
  BY <1>1 DEF Tick, Types, ClockOK, UserOK, TicketOK, OpOK, CacheOK, CallOK, PastOK, Asked, Named,
              AccessAssumption
<1> QED BY <1>1, RequestTyped, HandlerTyped, ClientTyped DEF Next
-----------------------------------------------------------------------------
(* A reader that is not at its turn, and a cache that is not written, keep  *)
(* what they have: what was recent stays recent.                            *)

LEMMA FreshStays ==
  ASSUME AccessAssumption, Types, RolesStep, clock <= clock', clock' \in Int,
         NEW c \in Clients, Fresh(c), call'[c] = call[c]
  PROVE  Fresh(c)'
<1>1. clock \in Int /\ call[c] \in CallType /\ call[c].began \in Int
  BY DEF Types, ClockOK, CallOK, CallType, AccessAssumption
<1>2. call[c].began <= clock
  BY DEF Fresh
<1>3. Since(call[c].began) \subseteq Since(call[c].began)'
  BY <1>1, <1>2, SinceGrows DEF Types
<1>4. ASSUME call[c].pc = "fill"
      PROVE  Recent(call[c].roles, call[c].began)'
  BY <1>1, <1>2, <1>4, RecentStays DEF Types, Fresh
<1>5. ASSUME call[c].pc = "answered"
      PROVE  Recent(call[c].roles, call[c].began - TTL)'
  <2>1. call[c].began - TTL \in Int /\ call[c].began - TTL <= clock
    BY <1>1, <1>2 DEF AccessAssumption
  <2> QED BY <2>1, <1>5, RecentStays DEF Types, Fresh
<1> QED BY <1>1, <1>2, <1>3, <1>4, <1>5 DEF Fresh

LEMMA CacheStays ==
  ASSUME AccessAssumption, Types, RolesStep, clock <= clock', clock' \in Int,
         NEW p \in Processes, CacheFresh(p), cache'[p] = cache[p]
  PROVE  CacheFresh(p)'
<1>1. clock \in Int
  BY DEF Types, ClockOK, AccessAssumption
<1> SUFFICES ASSUME cache[p] # NoEntry
             PROVE  /\ cache[p].until - TTL <= clock'
                    /\ Recent(cache[p].roles, cache[p].until - TTL)'
  BY DEF CacheFresh
<1>2. cache[p].until - TTL \in Int
  BY DEF Types, CacheOK, Entry, AccessAssumption
<1>3. Recent(cache[p].roles, cache[p].until - TTL)'
  BY <1>2, RecentStays DEF CacheFresh, Types
<1> QED BY <1>1, <1>2, <1>3 DEF CacheFresh
-----------------------------------------------------------------------------
(* The reader at its turn. *)

LEMMA BeginFresh ==
  ASSUME Types, NEW c \in Clients, NEW p \in Processes, BeginCall(c, p), clock \in Int
  PROVE  Fresh(c)'
<1>1. call'[c] = [NewCall EXCEPT !.pc = "lookup", !.proc = p, !.began = clock]
  BY DEF BeginCall, Types, CallOK
<1>2. call'[c].pc = "lookup" /\ call'[c].proc = p /\ call'[c].began = clock /\ call'[c].roles = {}
  BY <1>1 DEF NewCall
<1>3. clock' = clock
  BY DEF BeginCall
<1> QED BY <1>2, <1>3 DEF Fresh

\* An entry that is still valid is no older than its lifetime.
LEMMA LookUpFresh ==
  ASSUME AccessAssumption, Types, AllFresh, NEW c \in Clients, LookUp(c), RolesStep,
         clock \in Int
  PROVE  Fresh(c)'
<1>1. /\ call[c] \in CallType /\ call[c].began \in Int /\ call[c].began <= clock
      /\ call[c].proc \in Processes /\ call[c].roles = {}
  BY DEF Types, CallOK, CallType, AllFresh, Fresh, LookUp
<1>2. clock' = clock
  BY DEF LookUp
<1>3. CASE Hit(c)
  <2>1. PICK e, t : e = cache[call[c].proc] /\ t = call[c].began
    OBVIOUS
  <2>2. e \in Entry /\ e # NoEntry /\ e.until > t
    BY <1>1, <1>3, <2>1 DEF Hit, Types, CacheOK
  <2>3. Recent(e.roles, e.until - TTL) /\ e.until - TTL <= clock
    BY <1>1, <2>1, <2>2 DEF AllFresh, CacheFresh
  <2>4. e.until - TTL \in Int /\ t - TTL \in Int /\ t - TTL <= e.until - TTL /\ t - TTL <= clock
    BY <1>1, <2>1, <2>2 DEF Entry, AccessAssumption
  <2>5. Recent(e.roles, t - TTL)
    BY <2>3, <2>4, RecentEarlier DEF Types
  <2>6. Recent(e.roles, t - TTL)'
    BY <2>4, <2>5, RecentStays DEF Types
  <2>7. call'[c] = [call[c] EXCEPT !.pc = "answered", !.roles = e.roles]
    BY <1>3, <2>1 DEF LookUp, Types, CallOK
  <2>8. /\ call'[c].pc = "answered" /\ call'[c].roles = e.roles
        /\ call'[c].began = t /\ call'[c].proc = call[c].proc
    BY <1>1, <2>1, <2>7 DEF CallType
  <2> QED BY <1>1, <1>2, <2>1, <2>6, <2>8 DEF Fresh
<1>4. CASE ~Hit(c)
  <2>1. call'[c] = [call[c] EXCEPT !.pc = "user"]
    BY <1>4 DEF LookUp, Types, CallOK
  <2>2. /\ call'[c].pc = "user" /\ call'[c].roles = {}
        /\ call'[c].began = call[c].began /\ call'[c].proc = call[c].proc
    BY <1>1, <2>1 DEF CallType
  <2> QED BY <1>1, <1>2, <2>2 DEF Fresh
<1> QED BY <1>3, <1>4

\* Without an account there are no roles; with one the primary role is read.
LEMMA ReadUserFresh ==
  ASSUME AccessAssumption, Types, AllFresh, NEW c \in Clients, ReadUser(c), clock \in Int
  PROVE  Fresh(c)'
<1>1. /\ call[c] \in CallType /\ call[c].began <= clock
      /\ call[c].proc \in Processes /\ call[c].roles = {}
  BY DEF Types, CallOK, AllFresh, Fresh, ReadUser
<1>2. UNCHANGED <<clock, user, past>>
  BY DEF ReadUser
<1>3. CASE user = NoUser
  <2>1. call'[c] = [call[c] EXCEPT !.pc = "fill"]
    BY <1>3 DEF ReadUser, Types, CallOK
  <2>2. Recent({}, call[c].began)'
    <3>1. Having' \in Since(call[c].began)'
      BY DEF Since
    <3>2. Having'.grants = {}
      BY <1>2, <1>3 DEF Having
    <3> QED BY <3>1, <3>2 DEF Recent
  <2> QED BY <1>1, <1>2, <2>1, <2>2 DEF Fresh, CallType, Recent
<1>4. CASE user # NoUser /\ user.active
  <2>1. call'[c] = [call[c] EXCEPT !.pc = "grants", !.primary = user.primary]
    BY <1>4 DEF ReadUser, Types, CallOK
  <2>2. user.primary \in Roles
    BY <1>4 DEF Types, UserOK, Account
  <2>3. Having' \in Since(call[c].began)' /\ user.primary \in Having'.primary
    BY <1>2, <1>4 DEF Since, Having
  <2> QED BY <1>1, <1>2, <2>1, <2>2, <2>3 DEF Fresh, CallType
<1>5. CASE user # NoUser /\ ~user.active
  <2>1. call'[c] = NewCall
    BY <1>5 DEF ReadUser, Types, CallOK
  <2> QED BY <1>2, <2>1 DEF Fresh, NewCall, Types, ClockOK
<1> QED BY <1>3, <1>4, <1>5

\* The primary role was the account's at the first read, the grants are at the
\* second.
LEMMA ReadGrantsFresh ==
  ASSUME AccessAssumption, Types, AllFresh, NEW c \in Clients, ReadGrants(c), clock \in Int
  PROVE  Fresh(c)'
<1>1. call[c] \in CallType /\ call[c].began <= clock /\ call[c].proc \in Processes
  BY DEF Types, CallOK, AllFresh, Fresh, ReadGrants
<1>2. PICK t, granted, roles :
        /\ t = call[c].began
        /\ granted = IF user = NoUser THEN {} ELSE Granted(user)
        /\ roles = RolesOf(call[c].primary, granted)
  OBVIOUS
<1>3. \E had \in Since(t) : call[c].primary \in had.primary
  BY <1>2 DEF AllFresh, Fresh, ReadGrants
<1>4. Having \in Since(t) /\ Having.grants = granted
  BY <1>2 DEF Since, Having
<1>5. Recent(roles, t)
  <2>1. CASE granted = {}
    <3>1. roles = {call[c].primary}
      BY <1>2, <2>1 DEF RolesOf
    <3> QED BY <1>3, <1>4, <2>1, <3>1 DEF Recent
  <2>2. CASE granted # {}
    <3>1. roles = granted
      BY <1>2, <2>2 DEF RolesOf
    <3> QED BY <1>4, <3>1 DEF Recent
  <2> QED BY <2>1, <2>2
<1>6. UNCHANGED <<clock, user, past>>
  BY DEF ReadGrants
<1>7. Recent(roles, t)'
  BY <1>5, <1>6 DEF Recent, Since, Having, Granted
<1>8. /\ call'[c].pc = "fill" /\ call'[c].roles = roles /\ call'[c].began = t
      /\ call'[c].proc = call[c].proc
  <2>1. call'[c] = [call[c] EXCEPT !.pc = "fill", !.roles = roles]
    BY <1>2 DEF ReadGrants, Types, CallOK
  <2> QED BY <1>1, <1>2, <2>1 DEF CallType
<1> QED BY <1>1, <1>2, <1>6, <1>7, <1>8 DEF Fresh

LEMMA FillFresh ==
  ASSUME AccessAssumption, Types, AllFresh, NEW c \in Clients, Fill(c), RolesStep,
         clock \in Int
  PROVE  Fresh(c)' /\ \E p \in Processes : p = call[c].proc /\ CacheFresh(p)'
<1>1. PICK t, roles, e : /\ t = call[c].began /\ roles = call[c].roles
                         /\ e = [roles |-> roles, until |-> t + TTL]
  OBVIOUS
<1>2. /\ call[c] \in CallType /\ t \in Int /\ t <= clock /\ call[c].proc \in Processes
      /\ Recent(roles, t)
  BY <1>1 DEF Types, CallOK, CallType, AllFresh, Fresh, Fill
<1>3. /\ call'[c].pc = "answered" /\ call'[c].roles = roles
      /\ call'[c].began = t /\ call'[c].proc = call[c].proc
  <2>1. call'[c] = [call[c] EXCEPT !.pc = "answered"]
    BY DEF Fill, Types, CallOK
  <2> QED BY <1>1, <1>2, <2>1 DEF CallType
<1>4. cache'[call[c].proc] = e /\ clock' = clock
  BY <1>1, <1>2 DEF Fill, Types, CacheOK
<1>5. Recent(roles, t)'
  BY <1>2, RecentStays DEF Types
<1>6. Recent(roles, t - TTL)'
  <2>1. t - TTL \in Int /\ t - TTL <= t /\ t - TTL <= clock
    BY <1>2 DEF Types, ClockOK, AccessAssumption
  <2>2. Recent(roles, t - TTL)
    BY <1>2, <2>1, RecentEarlier DEF Types
  <2> QED BY <2>1, <2>2, RecentStays DEF Types
<1>7. Fresh(c)'
  BY <1>2, <1>3, <1>4, <1>6 DEF Fresh
<1>8. PICK p : p = call[c].proc
  OBVIOUS
<1>9. e.until - TTL = t /\ e.roles = roles
  BY <1>1, <1>2 DEF AccessAssumption
<1>10. CacheFresh(p)'
  BY <1>2, <1>4, <1>5, <1>8, <1>9 DEF CacheFresh
<1> QED BY <1>2, <1>7, <1>8, <1>10

-----------------------------------------------------------------------------
LEMMA ClientFresh ==
  ASSUME AccessAssumption, Types, AllFresh, RolesStep, NEW c \in Clients, ClientStep(c)
  PROVE  AllFresh'
<1>1. clock \in Int /\ clock' = clock
  <2>1. clock' = clock
    BY DEF ClientStep, BeginCall, LookUp, ReadUser, ReadGrants, Fill
  <2> QED BY <2>1 DEF Types, ClockOK, AccessAssumption
<1>2. \A d \in Clients : d # c => call'[d] = call[d]
  BY DEF Types, CallOK, ClientStep, BeginCall, LookUp, ReadUser, ReadGrants, Fill
<1>3. \A d \in Clients : d # c => Fresh(d)'
  BY <1>1, <1>2, FreshStays DEF AllFresh
<1>4. CASE Fill(c)
  <2>1. \A p \in Processes : p # call[c].proc => cache'[p] = cache[p]
    BY <1>4 DEF Fill, Types, CacheOK
  <2>2. \A p \in Processes : p # call[c].proc => CacheFresh(p)'
    BY <1>1, <2>1, CacheStays DEF AllFresh
  <2>3. Fresh(c)' /\ \E p \in Processes : p = call[c].proc /\ CacheFresh(p)'
    BY <1>1, <1>4, FillFresh
  <2>4. \A p \in Processes : CacheFresh(p)'
    BY <2>2, <2>3
  <2> QED BY <1>3, <2>3, <2>4 DEF AllFresh
<1>5. CASE ~Fill(c)
  <2>1. cache' = cache
    BY <1>5 DEF ClientStep, BeginCall, LookUp, ReadUser, ReadGrants
  <2>2. \A p \in Processes : CacheFresh(p)'
    BY <1>1, <2>1, CacheStays DEF AllFresh
  <2>3. Fresh(c)'
    BY <1>1, <1>5, BeginFresh, LookUpFresh, ReadUserFresh, ReadGrantsFresh DEF ClientStep
  <2> QED BY <1>3, <2>2, <2>3 DEF AllFresh
<1> QED BY <1>4, <1>5

\* Time and the management calls leave the readers alone, and clear caches only.
LEMMA OthersFresh ==
  ASSUME AccessAssumption, Types, AllFresh, RolesStep,
         call' = call, clock <= clock', clock' \in Int,
         \A p \in Processes : cache'[p] \in {cache[p], NoEntry}
  PROVE  AllFresh'
<1>1. \A c \in Clients : Fresh(c)'
  BY FreshStays DEF AllFresh
<1>2. \A p \in Processes : CacheFresh(p)'
  <2> TAKE p \in Processes
  <2>1. CASE cache'[p] = cache[p]
    BY <2>1, CacheStays DEF AllFresh
  <2>2. CASE cache'[p] = NoEntry
    BY <2>2 DEF CacheFresh
  <2> QED BY <2>1, <2>2
<1> QED BY <1>1, <1>2 DEF AllFresh

LEMMA NextFresh ==
  ASSUME AccessAssumption, Types, AllFresh, Next
  PROVE  AllFresh'
<1>1. RolesStep /\ clock \in Int
  BY NextIsRolesStep DEF Types, ClockOK, AccessAssumption
<1>2. CASE Tick
  <2>1. clock <= clock' /\ clock' \in Int /\ UNCHANGED <<call, cache>>
    BY <1>1, <1>2 DEF Tick
  <2> QED BY <1>1, <2>1, OthersFresh
<1>3. CASE \E t \in Tickets, list \in RoleLists : RequestAccess(t, list)
  <2>1. UNCHANGED <<clock, call, cache>>
    BY <1>3 DEF RequestAccess
  <2> QED BY <1>1, <2>1, OthersFresh
<1>4. CASE \E h \in Handlers : HandlerStep(h)
  <2> PICK h \in Handlers : HandlerStep(h)
    BY <1>4
  <2>1. UNCHANGED <<clock, call>>
    BY DEF HandlerStep, CreateUser, UpdateUserRoles, DeleteUser, ApproveRequest, RejectRequest,
           Start, Prepare, Commit, Refuse, Invalidate
  <2>2. \A p \in Processes : cache'[p] \in {cache[p], NoEntry}
    BY DEF HandlerStep, CreateUser, UpdateUserRoles, DeleteUser, ApproveRequest, RejectRequest,
           Start, Prepare, Commit, Refuse, Invalidate, Types, CacheOK
  <2> QED BY <1>1, <2>1, <2>2, OthersFresh
<1>5. CASE \E c \in Clients : ClientStep(c)
  BY <1>1, <1>5, ClientFresh
<1> QED BY <1>2, <1>3, <1>4, <1>5 DEF Next

LEMMA InitFresh ==
  ASSUME AccessAssumption, Init
  PROVE  AllFresh
BY DEF Init, AllFresh, Fresh, CacheFresh, NewCall

LEMMA StutterKeeps ==
  ASSUME AccessAssumption, AccessInv, UNCHANGED vars
  PROVE  AccessInv'
<1> USE DEF vars
<1>1. Types'
  BY DEF AccessInv, Types, ClockOK, UserOK, TicketOK, OpOK, CacheOK, CallOK, PastOK, Asked, Named
<1>2. RolesStep /\ clock <= clock' /\ clock' \in Int
  BY DEF RolesStep, AccessInv, Types, ClockOK, AccessAssumption
<1> QED BY <1>1, <1>2, OthersFresh DEF AccessInv

\* Types and freshness hold in every state: each entry of a cache and each call
\* under way carries roles the account had within the lifetime of an entry.
THEOREM Invariance == Spec => []AccessInv
<1>1. Init => AccessInv
  BY AccessAssumption, InitTyped, InitFresh DEF AccessInv
<1>2. AccessInv /\ [Next]_vars => AccessInv'
  BY AccessAssumption, NextTyped, NextFresh, StutterKeeps DEF AccessInv
<1> QED BY <1>1, <1>2, PTL DEF Spec

\* The type invariant of the accounts, requests, calls and caches.
THEOREM TypeCorrect == Spec => []TypeOK
<1>1. AccessInv => TypeOK
  BY DEF AccessInv, Types, ClockOK, UserOK, TicketOK, TicketType, OpOK, OpType, CacheOK, Entry,
         CallOK, CallType, PastOK, TypeOK
<1> QED BY <1>1, Invariance, PTL

\* get_current_user never answers with a set of roles whose members the account
\* did not have, one by one, within USER_CACHE_TTL of the beginning of the call,
\* for any number of processes, callers and management calls.
THEOREM AnswersAreRecent == Spec => []AnswersRecent
<1>1. AccessInv => AnswersRecent
  BY DEF AccessInv, AllFresh, Fresh, AnswersRecent
<1> QED BY <1>1, Invariance, PTL
=============================================================================
