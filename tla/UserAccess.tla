------------------------------ MODULE UserAccess ------------------------------
(***************************************************************************)
(* Who may do what: the accounts and their role grants, the requests for    *)
(* access that managers decide (app/api/routers/users.py), and the cache of *)
(* users that every API process keeps in front of them                      *)
(* (app/auth/dependencies.py).  One account; the transactions of different  *)
(* accounts do not meet.                                                    *)
(***************************************************************************)
EXTENDS Integers, Sequences, SequencesExt

CONSTANTS
  Handlers,          \* calls of the management endpoints, one operation each
  Clients,           \* calls of get_current_user under way at once
  Processes,         \* API processes, each with a cache of its own
  Tickets,           \* rows of permission_requests
  RoleLists,         \* the lists of roles a payload may carry
  TTL,               \* USER_CACHE_TTL
  MaxTime,
  NoUser, NoEntry

Roles == {"ADMIN", "GMF_HANDLER", "ENVELOPE_HANDLER", "MANAGER", "CUSTOMER"}

ASSUME AccessAssumption ==
  /\ TTL \in Nat \ {0}
  /\ MaxTime \in Nat
  /\ RoleLists \subseteq Seq(Roles)

VARIABLES
  clock,             \* time.time(), in units of which TTL is a multiple
  user,              \* the committed row of users with its grants, or NoUser
  ticket,            \* permission_requests: status and requested roles
  op,                \* the management call of each handler
  cache,             \* _USER_OUT_CACHE of each process
  call,              \* the get_current_user call of each client
  past               \* history: which roles the account had, and until when

vars == <<clock, user, ticket, op, cache, call, past>>

\* The primary role, and the rows of user_role_grants by who inserted them.
Account == [id : Handlers, primary : Roles, active : BOOLEAN,
            grants : SUBSET (Roles \X Handlers)]

Granted(u) == {g[1] : g \in u.grants}

\* _build_user_out: the grants, or the primary role of an account without any.
\* The two accounts with fixed roles are left out.
RolesOf(primary, granted) == IF granted = {} THEN {primary} ELSE granted

\* What the account has: its grants, and its primary role besides.
Having == IF user = NoUser THEN [grants |-> {}, primary |-> {}]
          ELSE [grants |-> Granted(user), primary |-> {user.primary}]

\* The roles of the account from one transaction to the next.
Write(u) ==
  /\ user' = u
  /\ past' = past \cup {[had |-> Having, until |-> clock]}
-----------------------------------------------------------------------------
NewOp == [pc |-> "new", kind |-> "none", list |-> <<>>, tick |-> NoUser,
          proc |-> NoUser, saw |-> NoUser, rm |-> {}, add |-> {}]

Done == [NewOp EXCEPT !.pc = "done"]

NewCall == [pc |-> "idle", proc |-> NoUser, began |-> 0, primary |-> NoUser,
            roles |-> {}]

Init ==
  /\ clock = 0
  /\ user = NoUser
  /\ ticket = [t \in Tickets |-> [status |-> "none", roles |-> <<>>]]
  /\ op = [h \in Handlers |-> NewOp]
  /\ cache = [p \in Processes |-> NoEntry]
  /\ call = [c \in Clients |-> NewCall]
  /\ past = {}

Tick ==
  /\ clock < MaxTime
  /\ clock' = clock + 1
  /\ UNCHANGED <<user, ticket, op, cache, call, past>>

\* request_access: anybody may file one, also while another one is pending.
RequestAccess(t, list) ==
  /\ ticket[t].status = "none"
  /\ list # <<>>
  /\ ticket' = [ticket EXCEPT ![t] = [status |-> "PENDING", roles |-> list]]
  /\ UNCHANGED <<clock, user, op, cache, call, past>>
-----------------------------------------------------------------------------
(* The management endpoints.  Each reads, prepares and commits in one        *)
(* transaction (READ COMMITTED, autoflush off), and clears the entry in the  *)
(* cache of its own process afterwards.                                     *)

Start(h, p, o) ==
  /\ op[h].pc = "new"
  /\ op' = [op EXCEPT ![h] = [o EXCEPT !.pc = "loaded", !.proc = p]]
  /\ UNCHANGED <<clock, user, ticket, cache, call, past>>

CreateUser(h, p, list) ==
  /\ user = NoUser
  /\ list # <<>>
  /\ Start(h, p, [NewOp EXCEPT !.kind = "create", !.list = list])

DeleteUser(h, p) ==
  /\ user # NoUser
  /\ Start(h, p, [NewOp EXCEPT !.kind = "delete", !.saw = user])

UpdateUserRoles(h, p, list) ==
  /\ user # NoUser
  /\ Start(h, p, [NewOp EXCEPT !.kind = "update", !.list = list, !.saw = user])

ApproveRequest(h, p, t) ==
  /\ ticket[t].status = "PENDING"
  /\ Start(h, p, [NewOp EXCEPT !.kind = "approve", !.tick = t])

RejectRequest(h, p, t) ==
  /\ ticket[t].status = "PENDING"
  /\ Start(h, p, [NewOp EXCEPT !.kind = "reject", !.tick = t])

\* An ADMIN gets every portal role as well.
Requested(list) ==
  ToSet(list) \cup
    IF "ADMIN" \in ToSet(list) THEN {"GMF_HANDLER", "ENVELOPE_HANDLER", "MANAGER"} ELSE {}

\* The statements between the first read and the commit: the DELETE of the
\* grants there are now, the search for the grants a request still needs.
Prepare(h) ==
  /\ op[h].pc = "loaded"
  /\ LET o == [op[h] EXCEPT !.pc = "ready"]
     IN op' = [op EXCEPT ![h] =
          CASE o.kind = "update" ->
                 [o EXCEPT !.add = ToSet(o.list),
                           !.rm = IF user = NoUser THEN {} ELSE user.grants]
            [] o.kind = "create" -> [o EXCEPT !.add = ToSet(o.list)]
            [] o.kind = "approve" ->
                 [o EXCEPT !.saw = user,
                           !.list = ticket[o.tick].roles,
                           !.add = Requested(ticket[o.tick].roles)
                                     \ (IF user = NoUser THEN {} ELSE Granted(user))]
            [] OTHER -> o]
  /\ UNCHANGED <<clock, user, ticket, cache, call, past>>

Rows(h) == op[h].add \X {h}

NewAccount(h, active) ==
  [id |-> h, primary |-> Head(op[h].list), active |-> active, grants |-> Rows(h)]

SameAccount(h) == user # NoUser /\ op[h].saw # NoUser /\ user.id = op[h].saw.id

\* The grants that stay when those of the DELETE are gone.
Kept(h) == user.grants \ op[h].rm

NoDuplicate(h) == \A g \in Kept(h) : g[1] \notin op[h].add

\* The column is written only if the new value differs from the one that was
\* loaded.
NewPrimary(h) ==
  LET first == IF op[h].list = <<>> THEN "CUSTOMER" ELSE Head(op[h].list)
  IN IF first = op[h].saw.primary THEN user.primary ELSE first

CommitCreate(h) ==
  /\ op[h].kind = "create"
  /\ user = NoUser
  /\ \E active \in BOOLEAN : Write(NewAccount(h, active))
  /\ UNCHANGED ticket

CommitDelete(h) ==
  /\ op[h].kind = "delete"
  /\ IF SameAccount(h) THEN Write(NoUser) ELSE UNCHANGED <<user, past>>
  /\ UNCHANGED ticket

CommitUpdate(h) ==
  /\ op[h].kind = "update"
  /\ SameAccount(h)
  /\ NoDuplicate(h)
  /\ Write([user EXCEPT !.grants = Kept(h) \cup Rows(h), !.primary = NewPrimary(h)])
  /\ UNCHANGED ticket

Decide(h, status) == ticket' = [ticket EXCEPT ![op[h].tick].status = status]

CommitApprove(h) ==
  /\ op[h].kind = "approve"
  /\ Decide(h, "APPROVED")
  /\ \/ /\ op[h].saw = NoUser /\ user = NoUser
        /\ Write(NewAccount(h, TRUE))
     \/ /\ op[h].saw # NoUser /\ SameAccount(h) /\ NoDuplicate(h)
        /\ Write([user EXCEPT !.grants = @ \cup Rows(h)])
     \/ /\ op[h].saw # NoUser /\ op[h].add = {} /\ ~SameAccount(h)
        /\ UNCHANGED <<user, past>>

CommitReject(h) ==
  /\ op[h].kind = "reject"
  /\ Decide(h, "REJECTED")
  /\ UNCHANGED <<user, past>>

Committed(h) ==
  \/ CommitCreate(h) \/ CommitDelete(h) \/ CommitUpdate(h)
  \/ CommitApprove(h) \/ CommitReject(h)

\* A rejection and a refused commit touch no cache.
Commit(h) ==
  /\ op[h].pc = "ready"
  /\ Committed(h)
  /\ op' = [op EXCEPT ![h] = IF op[h].kind = "reject" THEN Done
                             ELSE [Done EXCEPT !.pc = "committed", !.proc = op[h].proc]]
  /\ UNCHANGED <<clock, cache, call>>

\* A unique or foreign key is violated: another call was first.
Fails(h) ==
  CASE op[h].kind = "create" -> user # NoUser
    [] op[h].kind = "update" -> ~(SameAccount(h) /\ NoDuplicate(h))
    [] op[h].kind = "approve" ->
         IF op[h].saw = NoUser THEN user # NoUser
         ELSE IF SameAccount(h) THEN ~NoDuplicate(h) ELSE op[h].add # {}
    [] OTHER -> FALSE

Refuse(h) ==
  /\ op[h].pc = "ready"
  /\ Fails(h)
  /\ op' = [op EXCEPT ![h] = Done]
  /\ UNCHANGED <<clock, user, ticket, cache, call, past>>

\* invalidate_user_cache, after the commit and in this process only.
Invalidate(h) ==
  /\ op[h].pc = "committed"
  /\ cache' = [cache EXCEPT ![op[h].proc] = NoEntry]
  /\ op' = [op EXCEPT ![h] = Done]
  /\ UNCHANGED <<clock, user, ticket, call, past>>
-----------------------------------------------------------------------------
(* get_current_user *)

BeginCall(c, p) ==
  /\ call[c].pc \in {"idle", "answered"}
  /\ call' = [call EXCEPT ![c] = [NewCall EXCEPT !.pc = "lookup", !.proc = p, !.began = clock]]
  /\ UNCHANGED <<clock, user, ticket, op, cache, past>>

\* (mutant) the age of an entry is not looked at
HitAnyAge(c) == cache[call[c].proc] # NoEntry

Hit(c) ==
  LET e == cache[call[c].proc] IN e # NoEntry /\ e.until > call[c].began

\* The e-mail of the token may take an await before this.
LookUp(c) ==
  /\ call[c].pc = "lookup"
  /\ call' = [call EXCEPT ![c] =
       IF Hit(c) THEN [@ EXCEPT !.pc = "answered", !.roles = cache[call[c].proc].roles]
                 ELSE [@ EXCEPT !.pc = "user"]]
  /\ UNCHANGED <<clock, user, ticket, op, cache, past>>

\* An inactive account is turned away and nothing is cached.
ReadUser(c) ==
  /\ call[c].pc = "user"
  /\ call' = [call EXCEPT ![c] =
       IF user = NoUser THEN [@ EXCEPT !.pc = "fill"]
       ELSE IF user.active THEN [@ EXCEPT !.pc = "grants", !.primary = user.primary]
       ELSE NewCall]
  /\ UNCHANGED <<clock, user, ticket, op, cache, past>>

\* A second query, of what is committed by then.
ReadGrants(c) ==
  /\ call[c].pc = "grants"
  /\ call' = [call EXCEPT ![c] =
       [@ EXCEPT !.pc = "fill",
                 !.roles = RolesOf(call[c].primary, IF user = NoUser THEN {} ELSE Granted(user))]]
  /\ UNCHANGED <<clock, user, ticket, op, cache, past>>

\* The entry lives until TTL after the call began, whatever was cleared since.
Fill(c) ==
  /\ call[c].pc = "fill"
  /\ cache' = [cache EXCEPT ![call[c].proc] =
       [roles |-> call[c].roles, until |-> call[c].began + TTL]]
  /\ call' = [call EXCEPT ![c].pc = "answered"]
  /\ UNCHANGED <<clock, user, ticket, op, past>>
-----------------------------------------------------------------------------
HandlerStep(h) ==
  \/ \E p \in Processes :
       \/ \E list \in RoleLists : CreateUser(h, p, list) \/ UpdateUserRoles(h, p, list)
       \/ DeleteUser(h, p)
       \/ \E t \in Tickets : ApproveRequest(h, p, t) \/ RejectRequest(h, p, t)
  \/ Prepare(h) \/ Commit(h) \/ Refuse(h) \/ Invalidate(h)

ClientStep(c) ==
  \/ \E p \in Processes : BeginCall(c, p)
  \/ LookUp(c) \/ ReadUser(c) \/ ReadGrants(c) \/ Fill(c)

Next ==
  \/ Tick
  \/ \E t \in Tickets, list \in RoleLists : RequestAccess(t, list)
  \/ \E h \in Handlers : HandlerStep(h)
  \/ \E c \in Clients : ClientStep(c)

Spec == Init /\ [][Next]_vars
-----------------------------------------------------------------------------
Holdings == [grants : SUBSET Roles, primary : SUBSET Roles]

TypeOK ==
  /\ clock \in 0..MaxTime
  /\ user \in Account \cup {NoUser}
  /\ ticket \in [Tickets -> [status : {"none", "PENDING", "APPROVED", "REJECTED"},
                             roles : RoleLists \cup {<<>>}]]
  /\ op \in [Handlers ->
       [pc : {"new", "loaded", "ready", "committed", "done"},
        kind : {"none", "create", "delete", "update", "approve", "reject"},
        list : RoleLists \cup {<<>>}, tick : Tickets \cup {NoUser},
        proc : Processes \cup {NoUser}, saw : Account \cup {NoUser},
        rm : SUBSET (Roles \X Handlers), add : SUBSET Roles]]
  /\ cache \in [Processes -> [roles : SUBSET Roles, until : Nat] \cup {NoEntry}]
  /\ call \in [Clients ->
       [pc : {"idle", "lookup", "user", "grants", "fill", "answered"},
        proc : Processes \cup {NoUser}, began : Nat,
        primary : Roles \cup {NoUser}, roles : SUBSET Roles]]
  /\ past \in SUBSET [had : Holdings, until : Nat]

\* What the account had at some time from t on.
Since(t) == {Having} \cup {p.had : p \in {q \in past : q.until >= t}}

\* Each role that is there was granted or primary; each that is missing was
\* not granted.
Recent(roles, t) ==
  /\ \A r \in roles : \E had \in Since(t) : r \in had.grants \cup had.primary
  /\ \A r \in Roles \ roles : \E had \in Since(t) : r \notin had.grants

\* A call is answered with roles the account had, one by one, at most TTL before
\* the call began, and without none it had all that time, whichever process
\* answers, whatever it cached and however the two reads, the changes and the
\* invalidations interleave (dependencies.py:207, 245-248, 276-297): a change
\* that some process was not told of is forgotten after a minute.
AnswersRecent ==
  \A c \in Clients :
    call[c].pc = "answered" => Recent(call[c].roles, call[c].began - TTL)

\* "Update primary role to first in list (or CUSTOMER if empty)" (users.py:231):
\* when the call has committed, the row says so.
PrimaryFollowsList ==
  [][\A h \in Handlers :
       op[h].kind = "update" /\ op[h].pc = "ready" /\ op'[h].pc = "committed" =>
         user'.primary = IF op[h].list = <<>> THEN "CUSTOMER" ELSE Head(op[h].list)]_vars
=============================================================================
