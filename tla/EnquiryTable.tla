----------------------------- MODULE EnquiryTable ------------------------------
(***************************************************************************)
(* The enquiries table as a SELECT sees it: createEnquiry's transactions   *)
(* give out ids in one order and commit in any other, some of them never,  *)
(* and processCrmWebhook changes the status of what is committed.          *)
(***************************************************************************)
EXTENDS Naturals

CONSTANTS Statuses,  \* enquiries.status
          MaxId      \* bound on the ids given out

Ids == 1 .. MaxId

VARIABLES lastId,  \* the AUTO_INCREMENT counter
          open,    \* ids of rows whose transaction is open
          status   \* the status of each committed row

tableVars == <<lastId, open, status>>

TableInit ==
  /\ lastId = 0
  /\ open = {}
  /\ status = [e \in {} |-> "new"]

\* FAULT: the INSERT runs outside the transaction.
InsertOutside ==
  /\ lastId < MaxId
  /\ lastId' = lastId + 1
  /\ open' = open \cup {lastId + 1}
  /\ status' = [d \in DOMAIN status \cup {lastId + 1} |-> IF d > lastId THEN "new" ELSE status[d]]

\* A duplicate uses up an id as well.
Insert ==
  /\ lastId < MaxId
  /\ lastId' = lastId + 1
  /\ open' \in {open, open \cup {lastId + 1}}
  /\ UNCHANGED status

Commit(e) ==
  /\ e \in open
  /\ open' = open \ {e}
  /\ status' = [d \in DOMAIN status \cup {e} |-> IF d = e THEN "new" ELSE status[d]]
  /\ UNCHANGED lastId

\* An instance that dies takes all its transactions with it.
Rollback(lost) ==
  /\ lost # {}
  /\ lost \subseteq open
  /\ open' = open \ lost
  /\ UNCHANGED <<lastId, status>>

Transaction ==
  \/ Insert
  \/ \E e \in open : Commit(e)
  \/ \E lost \in SUBSET open : Rollback(lost)

MarkCrmSynced(e, s) ==
  /\ e \in DOMAIN status
  /\ status' = [status EXCEPT ![e] = s]
  /\ UNCHANGED <<lastId, open>>

TableNext == Transaction \/ \E e \in DOMAIN status, s \in Statuses : MarkCrmSynced(e, s)

TableSpec == TableInit /\ [][TableNext]_tableVars
=============================================================================
