------------------------------- MODULE Execution ------------------------------
(***************************************************************************)
(* execution.service.ts, the "Decision Execution Engine": actions submitted *)
(* under an execution id, a ledger row per id, and an outbox.  The actions  *)
(* modelled are the disbursement to the university, which the engine does   *)
(* itself, and the two it hands to ContractsService; an action type it does *)
(* not know is refused.  The transaction around the dispatch keeps a        *)
(* connection and protects nothing: the services use connections of their  *)
(* own.                                                                     *)
(***************************************************************************)
EXTENDS Contracts

CONSTANTS
  ExecutionId,   \* ids the callers chose
  ActionType,    \* the action an id is for
  RetryLimit     \* attempts after which an event is a dead letter (5)

Actions == {"disbursement.record", "contract.generate", "contract.send_for_signature", "unknown"}

ASSUME ExecutionAssumption == /\ ActionType \in [ExecutionId -> Actions]
                              /\ RetryLimit \in Nat
                              /\ None \notin ExecutionId

VARIABLES
  exec,        \* table execution_ledger, by execution id
  disbursed,   \* table university_disbursements: the id each row was made for
  outbox,      \* table outbox_events, an event per disbursement
  task         \* what each execute handler keeps in memory

execution == <<exec, disbursed, outbox, task>>

LedgerStatus == {"absent", "pending", "executing", "committed", "failed"}
EventStatus  == {"absent", "pending", "processed", "dead_letter"}

ExecutionInit ==
  /\ exec = [x \in ExecutionId |-> [status |-> "absent", result |-> None]]
  /\ disbursed = [r \in Req |-> None]
  /\ outbox = [r \in Req |-> [status |-> "absent", retry |-> 0]]
  /\ task = [r \in Req |-> [exec |-> None, batch |-> {}, event |-> None]]

Submitted(r) == task[r].exec

\* What the action needs: a decision to generate from, a contract to send.
Payload(x) ==
  CASE ActionType[x] = "contract.generate" -> {<<None, d>> : d \in Decision}
    [] ActionType[x] = "contract.send_for_signature" -> Generated \X {None}
    [] OTHER -> {<<None, None>>}

(***************************************************************************)
(* execute: the id is looked up; a committed one is answered from the       *)
(* ledger, one that is executing is refused, any other is (re)tried.        *)
(***************************************************************************)
Retriable_Executing(x) == exec[x].status # "committed"
Retriable_Committed(x) == exec[x].status # "executing"
Retriable(x) == exec[x].status \notin {"committed", "executing"}

Lookup(r) ==
  /\ CanStart(r, "execute")
  /\ \E x \in ExecutionId : \E p \in Payload(x) :
        /\ Retriable(x)
        /\ Begin(r, ContractCall("execute", "ledger", p[1], p[2], None))
        /\ task' = [task EXCEPT ![r].exec = x]
  /\ UNCHANGED <<exec, disbursed, outbox, contracts>>

Replay(r) ==
  /\ CanStart(r, "execute")
  /\ \E x \in ExecutionId :
        /\ exec[x].status = "committed"
        /\ req' = [req EXCEPT ![r] =
             [ContractCall("execute", "done", None, None, None) EXCEPT !.result = exec[x].result]]
        /\ task' = [task EXCEPT ![r].exec = x]
  /\ UNCHANGED <<desk, holding, exec, disbursed, outbox, contracts>>

InsertLedger(r) ==   \* ON CONFLICT DO NOTHING
  /\ At(r, "ledger")
  /\ exec' = IF exec[Submitted(r)].status = "absent"
             THEN [exec EXCEPT ![Submitted(r)].status = "pending"] ELSE exec
  /\ Goto(r, "executing")
  /\ UNCHANGED <<disbursed, outbox, task, contracts>>

MarkExecuting(r) ==   \* WHERE status = 'pending'; the count is not looked at
  /\ At(r, "executing")
  /\ exec' = IF exec[Submitted(r)].status = "pending"
             THEN [exec EXCEPT ![Submitted(r)].status = "executing"] ELSE exec
  /\ req' = [req EXCEPT ![r].pc = "transaction", ![r].catch = "mark_failed",
                        ![r].back = "end"]
  /\ UNCHANGED <<desk, holding, disbursed, outbox, task, contracts>>

\* dispatch: the first statement of the action.
Dispatch(x) ==
  CASE ActionType[x] = "disbursement.record" -> "disburse"
    [] ActionType[x] = "contract.generate" -> "version"
    [] ActionType[x] = "contract.send_for_signature" -> "draft"
    [] OTHER -> "unknown"

BeginTransaction(r) ==
  /\ At(r, "transaction")
  /\ holding' = holding \cup {r}
  /\ req' = [req EXCEPT ![r].pc = Dispatch(Submitted(r))]
  /\ UNCHANGED <<desk, execution, contracts>>

UnknownAction(r) ==
  /\ req[r].pc = "unknown"
  /\ Raise(r)
  /\ UNCHANGED <<execution, contracts>>

Disburse(r) ==
  /\ At(r, "disburse")
  /\ disbursed' = [disbursed EXCEPT ![r] = Submitted(r)]
  /\ Goto(r, "event")
  /\ UNCHANGED <<exec, outbox, task, contracts>>

QueueEvent_Lost(r) ==
  /\ At(r, "event")
  /\ req' = [req EXCEPT ![r].result = r, ![r].pc = req[r].back]
  /\ UNCHANGED <<desk, holding, execution, contracts>>
QueueEvent(r) ==
  /\ At(r, "event")
  /\ outbox' = [outbox EXCEPT ![r].status = "pending"]
  /\ req' = [req EXCEPT ![r].result = r, ![r].pc = req[r].back]
  /\ UNCHANGED <<desk, holding, exec, disbursed, task, contracts>>

EndTransaction(r) ==
  /\ req[r].pc = "end"
  /\ holding' = holding \ {r}
  /\ req' = [req EXCEPT ![r].pc = "commit"]
  /\ UNCHANGED <<desk, execution, contracts>>

Commit(r) ==
  /\ At(r, "commit")
  /\ exec' = [exec EXCEPT ![Submitted(r)] = [status |-> "committed", result |-> req[r].result]]
  /\ Goto(r, "outbox")
  /\ UNCHANGED <<disbursed, outbox, task, contracts>>

MarkFailed(r) ==   \* whatever the status is by now; its own failure is ignored
  /\ At(r, "mark_failed")
  /\ exec' = [exec EXCEPT ![Submitted(r)].status = "failed"]
  /\ task' = [task EXCEPT ![r].batch = {}, ![r].event = None]
  /\ Goto(r, "failed")
  /\ UNCHANGED <<disbursed, outbox, contracts>>

(***************************************************************************)
(* processOutbox: the pending events of everybody, read once and handled    *)
(* one by one.  An event whose UPDATE fails is put back, whatever it has    *)
(* become meanwhile, until RetryLimit.                                      *)
(***************************************************************************)
ReadOutbox(r) ==
  /\ At(r, "outbox")
  /\ task' = [task EXCEPT ![r].batch = {e \in Req : outbox[e].status = "pending"}]
  /\ req' = [req EXCEPT ![r].pc = "drain", ![r].catch = None]
  /\ UNCHANGED <<desk, holding, exec, disbursed, outbox, contracts>>

HandleEvent(r) ==
  /\ At(r, "drain")
  /\ \E e \in task[r].batch :
        /\ outbox' = [outbox EXCEPT ![e].status = "processed"]
        /\ task' = [task EXCEPT ![r].batch = @ \ {e}]
  /\ UNCHANGED <<server, exec, disbursed, contracts>>

EventFails(r) ==
  /\ "execute" \in MayThrow
  /\ At(r, "drain")
  /\ \E e \in task[r].batch :
        task' = [task EXCEPT ![r].batch = @ \ {e}, ![r].event = e]
  /\ req' = [req EXCEPT ![r].pc = "retry", ![r].catch = "mark_failed"]
  /\ UNCHANGED <<desk, holding, exec, disbursed, outbox, contracts>>

RetryEvent(r) ==
  /\ At(r, "retry")
  /\ outbox' = [outbox EXCEPT ![task[r].event] =
       [status |-> IF @.retry >= RetryLimit THEN "dead_letter" ELSE "pending",
        retry  |-> @.retry + 1]]
  /\ task' = [task EXCEPT ![r].event = None]
  /\ req' = [req EXCEPT ![r].pc = "drain", ![r].catch = None]
  /\ UNCHANGED <<desk, holding, exec, disbursed, contracts>>

Drained(r) ==
  /\ req[r].pc = "drain"
  /\ task[r].batch = {}
  /\ Goto(r, "done")
  /\ UNCHANGED <<execution, contracts>>

ExecutionStep(r) ==
  \/ Lookup(r) \/ Replay(r) \/ InsertLedger(r) \/ MarkExecuting(r)
  \/ BeginTransaction(r) \/ UnknownAction(r) \/ Disburse(r) \/ QueueEvent(r)
  \/ EndTransaction(r) \/ Commit(r) \/ MarkFailed(r)
  \/ ReadOutbox(r) \/ HandleEvent(r) \/ EventFails(r) \/ RetryEvent(r) \/ Drained(r)

-------------------------------------------------------------------------------
ExecutionTypeOK ==
  /\ exec \in [ExecutionId -> [status : LedgerStatus, result : Req \cup {None}]]
  /\ disbursed \in [Req -> ExecutionId \cup {None}]
  /\ outbox \in [Req -> [status : EventStatus, retry : Nat]]
  /\ task \in [Req -> [exec : ExecutionId \cup {None}, batch : SUBSET Req,
                       event : Req \cup {None}]]

\* The rows the actions of an execution id have written.
Effects(x) == {r \in Req : \/ disbursed[r] = x
                           \/ Submitted(r) = x /\ contract[r].status # "absent"}

\* A committed execution shows a result that is there: the disbursement made
\* for this very id with its event, the contract generated for it, the
\* contract it sent.  Under all interleavings and failures.
ResultIsReal ==
  \A x \in ExecutionId : exec[x].status = "committed" =>
    LET res == exec[x].result IN
      /\ res # None
      /\ ActionType[x] = "disbursement.record" =>
           disbursed[res] = x /\ outbox[res].status # "absent"
      /\ ActionType[x] = "contract.generate" =>
           Submitted(res) = x /\ contract[res].status # "absent"
      /\ ActionType[x] = "contract.send_for_signature" =>
           contract[res].status \notin {"absent", "draft"}

\* An id takes effect once, however often it is submitted and wherever an
\* earlier attempt was cut off (docs/README.md, "prevents duplicate side
\* effects via execution_id").
OncePerId == \A x \in ExecutionId : Cardinality(Effects(x)) <= 1

\* Whoever submits an id and is answered gets the same result.
SameAnswer ==
  \A r, q \in Req :
    /\ req[r].op = "execute" /\ req[r].pc = "done"
    /\ req[q].op = "execute" /\ req[q].pc = "done"
    /\ Submitted(r) = Submitted(q)
    => req[r].result = req[q].result
===============================================================================
