----------------------------- MODULE Transactions -----------------------------
(* How the services under apps/web/src/server/services run: one READ          *)
(* COMMITTED transaction per request (db/tenant-context.ts).                  *)
(*                                                                            *)
(* A handler whose write depends on what it read is two steps, a read and a   *)
(* commit, with the steps of other handlers in between; one whose write is    *)
(* unconditional, repeatable or conditional in the database itself is a       *)
(* single step.  Row locks are held to the commit, so the writes of a handler *)
(* are one step.  Actor checks (capability, project, tenant) refuse without a *)
(* state change and are left out.                                             *)
EXTENDS Naturals

CONSTANTS Handlers,  \* requests being served at the same time
          Users,     \* the actors segregation of duties tells apart
          None

ASSUME TransactionsAssumption == None \notin Users

VARIABLES
  work,  \* what each handler has read so far
  raced  \* history: two handlers have overlapped

transactionVars == <<work, raced>>

Work(op, user, id, number, text) ==
  [op |-> op, user |-> user, id |-> id, number |-> number, text |-> text]
Idle == Work("idle", None, 0, 0, "none")

TransactionsInit ==
  /\ work = [h \in Handlers |-> Idle]
  /\ raced = FALSE

Busy(h)      == work[h].op # "idle"
Quiet        == \A h \in Handlers : ~Busy(h)
Doing(h, op) == work[h].op = op

(* Rows get ids in order: id is the first one of the table without a row.     *)
NextId(id, table, noRow) ==
  /\ table[id] = noRow
  /\ \A other \in DOMAIN table : table[other] = noRow => id <= other

(* A transaction reads: from now on others may commit before it writes.       *)
Begin(h, read) ==
  /\ ~Busy(h)
  /\ work' = [work EXCEPT ![h] = read]
  /\ raced' = (raced \/ ~Quiet)

(* A transaction commits, or is rolled back: it is over either way.           *)
End(h) ==
  /\ work' = [work EXCEPT ![h] = Idle]
  /\ UNCHANGED raced

(* A single-step transaction beside the ones that are under way.              *)
AtOnce ==
  /\ raced' = (raced \/ ~Quiet)
  /\ UNCHANGED work

(* A lost connection or the transaction's time limit: nothing is written.     *)
RollBack(h) ==
  /\ Busy(h)
  /\ End(h)

TransactionsTypeOK ==
  /\ DOMAIN work = Handlers
  /\ \A h \in Handlers : /\ work[h].user \in Users \cup {None}
                         /\ work[h].id \in Nat
                         /\ work[h].number \in Nat
  /\ raced \in BOOLEAN
===============================================================================
