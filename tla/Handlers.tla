------------------------------- MODULE Handlers -------------------------------
(***************************************************************************)
(* The server every service runs in: one Node process that interleaves its  *)
(* requests at each await, and a pool of PoolMax database connections.  A   *)
(* plain statement borrows a connection and gives it back; a handler inside *)
(* dataSource.transaction keeps one from BEGIN to COMMIT or ROLLBACK, and   *)
(* whoever finds the pool empty waits without a time limit.                 *)
(*                                                                          *)
(* A handler is a record with at least: op, its endpoint; pc, the statement *)
(* it sends next; catch, where an exception takes it; back, where a         *)
(* subroutine returns to.                                                   *)
(***************************************************************************)
EXTENDS Integers, FiniteSets

CONSTANTS
  Requests,      \* how many requests arrive
  None,          \* SQL NULL / "not yet known"
  Desks,         \* the sets of endpoints that may be in use
  MaxInFlight,   \* how many handlers run at once (1: requests are serialised)
  PoolMax,       \* database.poolMax
  MayThrow,      \* the endpoints whose statements may fail
  MayCrash       \* the endpoints that may be cut off by the end of the process

Req == 1..Requests   \* in the order of arrival

ASSUME ServerAssumption == /\ Requests \in Nat
                           /\ MaxInFlight \in Nat
                           /\ PoolMax \in Nat
                           /\ None \notin Req

VARIABLES
  req,       \* the handlers
  desk,      \* the endpoints in use, fixed at the start
  holding    \* handlers that keep a connection: the open transactions

server == <<req, desk, holding>>

Ended == {"done", "failed", "died"}

InFlight  == {r \in Req : req[r].pc \notin Ended \cup {"idle"}}
AllServed == \A r \in Req : req[r].pc \in {"idle", "done", "failed"}

ServerInit ==
  /\ req = [r \in Req |-> [op |-> "none", pc |-> "idle"]]
  /\ desk \in Desks
  /\ holding = {}

Connected == Cardinality(holding) < PoolMax

CanStart(r, op) == /\ op \in desk
                   /\ req[r].pc = "idle"
                   /\ \A q \in 1..(r - 1) : req[q].pc # "idle"
                   /\ Cardinality(InFlight) < MaxInFlight
                   /\ Connected

At(r, pc) == req[r].pc = pc /\ Connected

\* A handler takes the steps of its own endpoint.
Handles(r, ops) == req[r].op \in ops \cup {"none"}

\* The rows a table may start with; one will do where no endpoint uses them.
Varying(ops, rows) == IF desk \cap ops # {} THEN rows ELSE {CHOOSE row \in rows : TRUE}

Begin(r, handler) == req' = [req EXCEPT ![r] = handler] /\ UNCHANGED <<desk, holding>>
Goto(r, pc)       == req' = [req EXCEPT ![r].pc = pc] /\ UNCHANGED <<desk, holding>>
Return(r)         == Goto(r, req[r].back)

\* An exception: an open transaction is rolled back and its connection given
\* back; control is at the catch block, out of which a second exception leaves.
Rollback_Leaks(r) == holding' = holding
Rollback(r) == holding' = holding \ {r}
Raise(r) ==
  /\ req' = [req EXCEPT ![r].pc = req[r].catch, ![r].catch = "failed"]
  /\ Rollback(r)
  /\ UNCHANGED desk

Throw(r) == /\ r \in InFlight
            /\ req[r].op \in MayThrow
            /\ req[r].catch # None
            /\ Raise(r)

Crash(r) == /\ r \in InFlight
            /\ req[r].op \in MayCrash
            /\ req' = [req EXCEPT ![r].pc = "died"]
            /\ holding' = holding \ {r}
            /\ UNCHANGED desk
===============================================================================
