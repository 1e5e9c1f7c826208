---------------------------- MODULE MCUserAccess ----------------------------
(***************************************************************************)
(* Small instances of UserAccess: nothing, one role, or the role that brings *)
(* the others with it.  The calls that race meet an account that an earlier  *)
(* call has created.                                                        *)
(***************************************************************************)
EXTENDS UserAccess, TLC

CONSTANT Creator      \* the handler of that earlier call

SomeLists == {<<>>, <<"MANAGER">>, <<"ADMIN">>}

\* A state Spec reaches when the first call creates a manager.
CreatedInit ==
  /\ clock = 0
  /\ user = [id |-> Creator, primary |-> "MANAGER", active |-> TRUE,
             grants |-> {<<"MANAGER", Creator>>}]
  /\ ticket = [t \in Tickets |-> [status |-> "none", roles |-> <<>>]]
  /\ op = [h \in Handlers |-> IF h = Creator THEN Done ELSE NewOp]
  /\ cache = [p \in Processes |-> NoEntry]
  /\ call = [c \in Clients |-> NewCall]
  /\ past = {[had |-> [grants |-> {}, primary |-> {}], until |-> 0]}

CreatedSpec == CreatedInit /\ [][Next]_vars

Symmetry == Permutations(Handlers \ {Creator}) \cup Permutations(Processes)
=============================================================================
