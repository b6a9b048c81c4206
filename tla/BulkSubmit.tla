----------------------------- MODULE BulkSubmit ------------------------------
(***************************************************************************)
(* Submission of tasks by concurrent requests: POST /tasks (submitTask,    *)
(* one INSERT that commits by itself) and POST /tasks/bulk                 *)
(* (submitTasksBulk over EnqueueBulk, many INSERTs in one transaction),    *)
(* over a connection pool of bounded size.  TaskStore has the INSERT as    *)
(* one atomic step; here the transaction is taken apart.  Under READ       *)
(* COMMITTED an INSERT ... ON CONFLICT that meets the key of another       *)
(* transaction's uncommitted row waits for its outcome, and PostgreSQL     *)
(* aborts a transaction of a circle of waits.                              *)
(*                                                                         *)
(* A batch is the sequence of the idempotency keys of a request's items,   *)
(* NULL for none, INVALID for an item validateSubmission turns down, all   *)
(* for the same queue.                                                     *)
(*                                                                         *)
(* There are two clocks.  now(), from which the rows get their created_at, *)
(* is the database's; requestStart is time.Now() of the API's host, which  *)
(* may be ahead of it or behind, and by another amount at every request.   *)
(***************************************************************************)
EXTENDS Integers, Sequences, FiniteSets

CONSTANTS Requests,     \* requests, retries of the same submission included
          Bulk,         \* the ones that arrive at /tasks/bulk
          Keys,         \* idempotency keys
          Batches,      \* what may be submitted: the items of each request, in order
          Skew,         \* Skew[r]: how far the API host's clock is ahead when r arrives
          MaxConns,     \* size of the connection pool
          MaxTime,      \* bound of the model: the clock stops here
          MaxFailures,  \* bound: failed statements, lost connections and replies
          NULL, INVALID

ASSUME BatchAssumption ==
    /\ Bulk \subseteq Requests
    /\ Batches \subseteq [Requests -> Seq(Keys \cup {NULL, INVALID}) \ {<<>>}]
    /\ \A b \in Batches : \A r \in Requests \ Bulk : Len(b[r]) = 1
ASSUME SkewAssumption == Skew \in [Requests -> Int]
ASSUME BoundAssumption == MaxTime \in Nat /\ MaxFailures \in Nat /\ MaxConns \in Nat \ {0}
ASSUME KeyAssumption ==
    /\ IsFiniteSet(Keys) /\ NULL \notin Keys /\ INVALID \notin Keys \cup {NULL}
    /\ NULL \notin [by : Requests, task : Nat, key : Keys \cup {NULL}, created : Nat]

VARIABLES batch,     \* per request: its items, in order
          clock,     \* the database's
          table,     \* the committed rows: who inserted them, for which item, key, created_at
          open,      \* per request: the rows of its open transaction
          pc,        \* per request
          todo,      \* per request: the tasks not sent to the server yet
          start,     \* per request: requestStart, by the clock of the API's host
          began,     \* per request: now() of its transaction, by the database's
          enqueued,  \* per request: the row EnqueueBulk (or Enqueue) has for each task
          results,   \* per request: what the response says of each item
          failures

vars == <<batch, clock, table, open, pc, todo, start, began, enqueued, results, failures>>

Items(r) == 1..Len(batch[r])
ValidItems(r) == {i \in Items(r) : batch[r][i] # INVALID}
Tasks(r) == 1..Cardinality(ValidItems(r))

(* An item that is valid is appended: its place is after those before it.  *)
PlaceOf(r, i) == Cardinality({l \in ValidItems(r) : l <= i})
NthValid(r, j) == CHOOSE i \in ValidItems(r) : PlaceOf(r, i) = j

(* Faulty variant: the positions of the tasks taken for those of the items.*)
ValidByPosition(r) == [j \in Tasks(r) |-> j]

(* The positions in the request of the items that become tasks, in order,  *)
(* and the key of every task handed to the store.                          *)
Valid(r) == [j \in Tasks(r) |-> NthValid(r, j)]
Accepted(r) == [j \in Tasks(r) |-> batch[r][NthValid(r, j)]]

Ended == {"answered", "aborted", "failed", "cut"}
Row(r, j) == [by |-> r, task |-> j, key |-> Accepted(r)[j], created |-> began[r]]

Init == /\ batch \in Batches
        /\ clock = 0
        /\ table = {}
        /\ open = [r \in Requests |-> {}]
        /\ pc = [r \in Requests |-> "idle"]
        /\ todo = [r \in Requests |-> Tasks(r)]
        /\ start = [r \in Requests |-> 0]
        /\ began = [r \in Requests |-> 0]
        /\ enqueued = [r \in Requests |-> [j \in Tasks(r) |-> NULL]]
        /\ results = [r \in Requests |-> [i \in Items(r) |-> NULL]]
        /\ failures = 0

(* What the unique index holds for a key, as a statement of r sees it.     *)
Visible(r, k) == {row \in table \cup open[r] : k # NULL /\ row.key = k}
InDoubt(r, k) == {s \in Requests \ {r} : \E row \in open[s] : k # NULL /\ row.key = k}

(* The requests that hold a connection of the pool.                        *)
Connected == {r \in Requests : pc[r] \in {"inserting", "committing"}}
ConnectionFree == Cardinality(Connected) < MaxConns

-----------------------------------------------------------------------------
Refused == [status |-> "invalid", row |-> NULL]

(* The body is decoded and every item validated.  When none is left the    *)
(* answer is given without the store; otherwise the host's clock is read.  *)
Arrive(r) ==
    /\ pc[r] = "idle"
    /\ IF Tasks(r) = {}
       THEN /\ pc' = [pc EXCEPT ![r] = "answered"]
            /\ results' = [results EXCEPT ![r] = [i \in Items(r) |-> Refused]]
            /\ UNCHANGED start
       ELSE /\ pc' = [pc EXCEPT ![r] = "arrived"]
            /\ start' = [start EXCEPT ![r] = clock + Skew[r]]
            /\ UNCHANGED results
    /\ UNCHANGED <<batch, clock, table, open, todo, began, enqueued, failures>>

(* A connection is taken from the pool, for as long as the transaction     *)
(* (EnqueueBulk) or the one INSERT (Enqueue) lasts.                        *)
Begin(r) ==
    /\ pc[r] = "arrived" /\ ConnectionFree
    /\ pc' = [pc EXCEPT ![r] = "inserting"]
    /\ began' = [began EXCEPT ![r] = clock]
    /\ UNCHANGED <<batch, clock, table, open, todo, start, enqueued, results, failures>>

(* The task whose turn it is: the batch is sent in submission order.       *)
NextTask(r, j) == j \in todo[r] /\ \A l \in todo[r] : j <= l

Inserting(r) == pc[r] = "inserting" /\ todo[r] # {}

(* Faulty variant: the tasks are sent in any order, as from a map.         *)
InsertInAnyOrder(r, j) ==
    /\ r \in Bulk /\ Inserting(r) /\ j \in todo[r] /\ InDoubt(r, Accepted(r)[j]) = {}
    /\ IF Visible(r, Accepted(r)[j]) = {}
       THEN /\ open' = [open EXCEPT ![r] = @ \cup {Row(r, j)}]
            /\ enqueued' = [enqueued EXCEPT ![r][j] = Row(r, j)]
       ELSE UNCHANGED <<open, enqueued>>
    /\ todo' = [todo EXCEPT ![r] = @ \ {j}]
    /\ UNCHANGED <<batch, clock, table, pc, start, began, results, failures>>

(* Faulty variant: no wait for the transaction that holds the key.         *)
InsertWithoutWaiting(r, j) ==
    /\ r \in Bulk /\ Inserting(r) /\ NextTask(r, j)
    /\ IF Visible(r, Accepted(r)[j]) = {}
       THEN /\ open' = [open EXCEPT ![r] = @ \cup {Row(r, j)}]
            /\ enqueued' = [enqueued EXCEPT ![r][j] = Row(r, j)]
       ELSE UNCHANGED <<open, enqueued>>
    /\ todo' = [todo EXCEPT ![r] = @ \ {j}]
    /\ UNCHANGED <<batch, clock, table, pc, start, began, results, failures>>

(* One INSERT of the batch: it waits while the key is in doubt, inserts,   *)
(* or leaves the task among the duplicates (those without a row so far).   *)
Insert(r, j) ==
    /\ r \in Bulk /\ Inserting(r) /\ NextTask(r, j) /\ InDoubt(r, Accepted(r)[j]) = {}
    /\ IF Visible(r, Accepted(r)[j]) = {}
       THEN /\ open' = [open EXCEPT ![r] = @ \cup {Row(r, j)}]
            /\ enqueued' = [enqueued EXCEPT ![r][j] = Row(r, j)]
       ELSE UNCHANGED <<open, enqueued>>
    /\ todo' = [todo EXCEPT ![r] = @ \ {j}]
    /\ UNCHANGED <<batch, clock, table, pc, start, began, results, failures>>

(* Faulty variant: the duplicates are selected over the pool, with another *)
(* connection, while the transaction keeps its own.                        *)
ResolveOverPool(r) ==
    /\ pc[r] = "inserting" /\ todo[r] = {} /\ ConnectionFree
    /\ enqueued' = [enqueued EXCEPT ![r] = [j \in Tasks(r) |->
                       IF @[j] # NULL THEN @[j]
                       ELSE CHOOSE row \in Visible(r, Accepted(r)[j]) : TRUE]]
    /\ pc' = [pc EXCEPT ![r] = "committing"]
    /\ UNCHANGED <<batch, clock, table, open, todo, start, began, results, failures>>

(* The batch is closed; the duplicates are selected by their key.          *)
Resolve(r) ==
    /\ pc[r] = "inserting" /\ todo[r] = {}
    /\ enqueued' = [enqueued EXCEPT ![r] = [j \in Tasks(r) |->
                       IF @[j] # NULL THEN @[j]
                       ELSE CHOOSE row \in Visible(r, Accepted(r)[j]) : TRUE]]
    /\ pc' = [pc EXCEPT ![r] = "committing"]
    /\ UNCHANGED <<batch, clock, table, open, todo, start, began, results, failures>>

(* Faulty variant: a row of the same instant counts as an older one.       *)
StatusOfSameInstant(r, row) ==
    IF row.key # NULL /\ row.created <= start[r] THEN "duplicate" ELSE "created"

(* The response's word for a task: EnqueueBulk does not say whether it     *)
(* inserted, so the row's created_at, of the one clock, is compared with   *)
(* requestStart, of the other.                                             *)
StatusOf(r, row) ==
    IF row.key # NULL /\ row.created < start[r] THEN "duplicate" ELSE "created"

(* The results go back to the items' own places in the request.            *)
BulkResults(r) ==
    [i \in Items(r) |->
        IF \E j \in Tasks(r) : Valid(r)[j] = i
        THEN LET row == enqueued[r][CHOOSE j \in Tasks(r) : Valid(r)[j] = i]
             IN  [status |-> StatusOf(r, row), row |-> row]
        ELSE Refused]

(* What was written is committed; the reply may be lost all the same.      *)
Reply(r, response) ==
    \/ /\ pc' = [pc EXCEPT ![r] = "answered"]
       /\ results' = [results EXCEPT ![r] = response]
       /\ UNCHANGED failures
    \/ /\ failures < MaxFailures
       /\ failures' = failures + 1
       /\ pc' = [pc EXCEPT ![r] = "failed"]
       /\ UNCHANGED results

Commit(r) ==
    /\ pc[r] = "committing"
    /\ table' = table \cup open[r]
    /\ open' = [open EXCEPT ![r] = {}]
    /\ Reply(r, BulkResults(r))
    /\ UNCHANGED <<batch, clock, todo, start, began, enqueued>>

(* Enqueue: the INSERT waits like any other.  It commits by itself and     *)
(* says that it did; on a conflict it gives its connection back.           *)
SubmitTask(r) ==
    /\ r \in Requests \ Bulk /\ Inserting(r)
    /\ InDoubt(r, Accepted(r)[1]) = {}
    /\ IF Visible(r, Accepted(r)[1]) = {}
       THEN /\ table' = table \cup {Row(r, 1)}
            /\ enqueued' = [enqueued EXCEPT ![r][1] = Row(r, 1)]
            /\ Reply(r, <<[status |-> "created", row |-> Row(r, 1)]>>)
       ELSE /\ pc' = [pc EXCEPT ![r] = "selecting"]
            /\ UNCHANGED <<table, enqueued, results, failures>>
    /\ todo' = [todo EXCEPT ![r] = {}]
    /\ UNCHANGED <<batch, clock, open, start, began>>

(* Then the row that holds the key is selected, over a connection again.   *)
SelectExisting(r) ==
    /\ pc[r] = "selecting" /\ ConnectionFree
    /\ \E row \in Visible(r, Accepted(r)[1]) :
          /\ enqueued' = [enqueued EXCEPT ![r][1] = row]
          /\ Reply(r, <<[status |-> "duplicate", row |-> row]>>)
    /\ UNCHANGED <<batch, clock, table, open, todo, start, began>>

-----------------------------------------------------------------------------
(* Who waits for whom, and the circles of it.                              *)
WaitsFor(r) == IF Inserting(r)
               THEN UNION {InDoubt(r, Accepted(r)[j]) : j \in {l \in todo[r] : NextTask(r, l)}}
               ELSE {}
Deadlocked(r) == \E S \in SUBSET Requests :
                    r \in S /\ \A s \in S : /\ WaitsFor(s) \cap S # {}
                                            /\ \E u \in S : s \in WaitsFor(u)

(* The deferred Rollback: the rows go, and the response is a 500.          *)
RolledBack(r, end) ==
    /\ open' = [open EXCEPT ![r] = {}]
    /\ pc' = [pc EXCEPT ![r] = end]
    /\ UNCHANGED <<batch, clock, table, todo, start, began, enqueued, results>>

(* PostgreSQL's deadlock detector picks a victim.                          *)
AbortVictim(r) ==
    /\ Deadlocked(r)
    /\ RolledBack(r, "aborted")
    /\ UNCHANGED failures

(* A statement fails, the client hangs up, or the request times out.       *)
Fail(r) ==
    /\ failures < MaxFailures
    /\ pc[r] \in {"arrived", "inserting", "committing", "selecting"}
    /\ failures' = failures + 1
    /\ RolledBack(r, "failed")

Tick ==
    /\ clock < MaxTime
    /\ clock' = clock + 1
    /\ UNCHANGED <<batch, table, open, pc, todo, start, began, enqueued, results, failures>>

(* What a request that has its connection does, and the server for it.     *)
Execute(r) == \/ (\E j \in Tasks(r) : Insert(r, j)) \/ Resolve(r) \/ Commit(r)
              \/ SubmitTask(r) \/ AbortVictim(r)

-----------------------------------------------------------------------------
(* The unique index, from the statements' side: of all the requests that   *)
(* submit a key at the same time, in batches or alone, one inserts it, and *)
(* no two rows in the table or on their way there carry it.                *)
KeyInsertedOnce ==
    LET rows == table \cup UNION {open[r] : r \in Requests}
    IN  \A a, b \in rows : (a.key # NULL /\ a.key = b.key) => a = b

(* A batch is all or nothing: all that is valid of it.  Each item of an    *)
(* answered request is reported invalid, if it was, or with a committed    *)
(* row that has the item's key, its own row if it had no key; an aborted   *)
(* request, or one cut off, left nothing behind; and nothing of a batch is *)
(* in the table while the rest of it is still open.                        *)
Answered(r, i) ==
    LET answer == results[r][i]
    IN  IF batch[r][i] = INVALID
        THEN answer = [status |-> "invalid", row |-> NULL]
        ELSE /\ answer.row \in table /\ answer.row.key = batch[r][i]
             /\ batch[r][i] = NULL => answer.row.by = r

AllOrNothing ==
    \A r \in Requests :
        LET mine == {row \in table : row.by = r}
        IN  /\ pc[r] = "answered" => \A i \in Items(r) : Answered(r, i)
            /\ pc[r] \notin {"answered", "failed"} => mine = {}
            /\ mine # {} => \A j \in Tasks(r) : \E row \in table :
                               (row.by = r /\ row.task = j) \/ (row.key # NULL /\ row.key = Accepted(r)[j])

(* EnqueueBulk sends the items as they come, so a batch may be turned away *)
(* because of what other batches contain; but not as long as all of them   *)
(* list their keys in one order, whichever it is.                          *)
OneOrder ==
    \E rank \in [Keys -> 1..Cardinality(Keys)] :
        \A r \in Requests : \A i, l \in Items(r) :
            (i < l /\ batch[r][i] \in Keys /\ batch[r][l] \in Keys /\ batch[r][i] # batch[r][l])
                => rank[batch[r][i]] < rank[batch[r][l]]

OrderedBatchesAccepted == OneOrder => \A r \in Requests : pc[r] # "aborted"

(* A request that has arrived comes to an end: nobody waits for ever for a *)
(* key, for a connection of the pool, or for each other.                   *)
RequestsEnd == \A r \in Requests : pc[r] = "arrived" ~> pc[r] \in Ended

(* "a partial idempotency hit is visible to the caller": an item reported  *)
(* as a duplicate was indeed inserted by somebody else.  submitTask knows  *)
(* what its INSERT did; submitTasksBulk goes by requestStart, which is     *)
(* right only as long as the API's host is not ahead of the database.      *)
(* (With a host that is ahead, a row the request has just inserted is      *)
(* reported as a duplicate.  The converse does not hold at all: a row      *)
(* another request began after requestStart is reported as created.)       *)
NotAhead(r) == r \in Bulk => Skew[r] <= 0

DuplicateIsTrue ==
    \A r \in Requests : NotAhead(r) => \A i \in Items(r) :
        (results[r][i] # NULL /\ results[r][i].status = "duplicate") =>
            /\ results[r][i].row \in table
            /\ results[r][i].row.by # r
=============================================================================
