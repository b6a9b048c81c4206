-------------------------- MODULE ApiProcessProofs ---------------------------
(***************************************************************************)
(* What tick-api promises whatever requests it is sent and whenever it is  *)
(* told to stop.  The process: a key is inserted once, a clean exit cuts   *)
(* nobody off, and no transaction is left open behind it; for a request    *)
(* has uncommitted rows only while it holds a connection, which is what    *)
(* the pool's Close waits for, and once Shutdown has returned without an   *)
(* error nobody is left and nobody can come any more (AInv).  The          *)
(* requests: a batch is all or nothing, a duplicate is one, and batches in *)
(* one order are never turned away; this follows a request along its way,  *)
(* item by item (RInv), which the others' steps do not disturb because     *)
(* rows that are committed stay.                                           *)
(***************************************************************************)
EXTENDS ApiProcess, TLAPS, FiniteSetTheorems

Shape == pc = [r \in Requests |-> pc[r]] /\ DOMAIN open = Requests

(* Uncommitted rows belong to a request that has a connection; a single    *)
(* submission never has any, its INSERT commits by itself.                 *)
OpenIsConnected == \A r \in Requests : open[r] # {} => r \in Connected
SinglesHaveNone == \A r \in Requests \ Bulk : open[r] = {}

Transactions == Shape /\ OpenIsConnected /\ SinglesHaveNone /\ KeyInsertedOnce

AtRest == \A r \in Requests : pc[r] \in Ended \cup {"idle"}
NobodyCut == \A r \in Requests : pc[r] # "cut"

(* How far run() has got says what may have become of the requests.        *)
Phases ==
    /\ main \in {"pinging", "selecting", "draining"} => code = NULL /\ NobodyCut
    /\ main \in {"draining"} => listener = "shut"
    /\ code = 0 => listener = "shut" /\ AtRest /\ NobodyCut /\ main \in {"closing", "exited"}
    /\ main = "exited" => AtRest

AInv == Transactions /\ Phases

(* All the rows there are, committed or on their way.                      *)
Rows == table \cup UNION {open[r] : r \in Requests}

(* A key that no statement in doubt holds and that r does not see is new   *)
(* to all of them.                                                         *)
LEMMA KeyIsNew ==
    ASSUME NEW r \in Requests, NEW k, k # NULL, InDoubt(r, k) = {}, Visible(r, k) = {}
    PROVE  \A row \in Rows : row.key # k
<1> SUFFICES ASSUME NEW row \in Rows PROVE row.key # k OBVIOUS
<1>1. CASE row \in table BY <1>1 DEF Visible
<1>2. CASE \E s \in Requests : row \in open[s]
  <2>1. PICK s \in Requests : row \in open[s] BY <1>2
  <2>2. CASE s = r BY <2>1, <2>2 DEF Visible
  <2>3. CASE s # r BY <2>1, <2>3 DEF InDoubt
  <2> QED BY <2>2, <2>3
<1> QED BY <1>1, <1>2 DEF Rows

(* One more row with a key that is new, or without one, keeps keys unique. *)
LEMMA OneMoreRow ==
    ASSUME KeyInsertedOnce, NEW new, Rows' = Rows \cup {new},
           new.key # NULL => \A row \in Rows : row.key # new.key
    PROVE  KeyInsertedOnce'
<1>1. \A a, b \in Rows : (a.key # NULL /\ a.key = b.key) => a = b
  BY DEF KeyInsertedOnce, Rows
<1>2. \A a, b \in Rows' : (a.key # NULL /\ a.key = b.key) => a = b
  BY <1>1
<1> QED BY <1>2 DEF KeyInsertedOnce, Rows

(* No new row, no new conflict.                                            *)
LEMMA NoMoreRows ==
    ASSUME KeyInsertedOnce, Rows' \subseteq Rows
    PROVE  KeyInsertedOnce'
<1>1. \A a, b \in Rows' : (a.key # NULL /\ a.key = b.key) => a = b
  BY DEF KeyInsertedOnce, Rows
<1> QED BY <1>1 DEF KeyInsertedOnce, Rows

-----------------------------------------------------------------------------
LEMMA InsertKeeps ==
    ASSUME Transactions, NEW r \in Requests, NEW j \in Tasks(r), Insert(r, j)
    PROVE  Transactions'
<1> USE DEF Transactions
<1>1. /\ r \in Bulk /\ pc[r] = "inserting" /\ InDoubt(r, Accepted(r)[j]) = {}
      /\ UNCHANGED <<table, pc>>
  BY DEF Insert, Inserting
<1>2. CASE Visible(r, Accepted(r)[j]) = {}
  <2>1. open' = [open EXCEPT ![r] = @ \cup {Row(r, j)}] BY <1>2 DEF Insert
  <2>2. Shape' /\ SinglesHaveNone' BY <1>1, <2>1 DEF Shape, SinglesHaveNone
  <2>3. OpenIsConnected' BY <1>1, <2>1 DEF Shape, OpenIsConnected, Connected
  <2>4. Row(r, j).key = Accepted(r)[j] BY DEF Row
  <2>5. Rows' = Rows \cup {Row(r, j)}
    <3>1. \A q \in Requests : open'[q] = IF q = r THEN open[r] \cup {Row(r, j)} ELSE open[q]
      BY <2>1 DEF Shape
    <3> QED BY <1>1, <3>1 DEF Rows
  <2>6. KeyInsertedOnce' BY <1>1, <1>2, <2>4, <2>5, KeyIsNew, OneMoreRow
  <2> QED BY <2>2, <2>3, <2>6
<1>3. CASE Visible(r, Accepted(r)[j]) # {}
  <2>1. UNCHANGED open BY <1>3 DEF Insert
  <2> QED BY <1>1, <2>1 DEF Shape, SinglesHaveNone, OpenIsConnected, Connected, KeyInsertedOnce
<1> QED BY <1>2, <1>3

(* Reply sets where the request is, and nothing of the tables.             *)
LEMMA ReplyEnds ==
    ASSUME NEW r \in Requests, NEW response, Reply(r, response)
    PROVE  \E end \in {"answered", "failed"} : pc' = [pc EXCEPT ![r] = end]
BY DEF Reply

LEMMA CommitKeeps ==
    ASSUME Transactions, NEW r \in Requests, Commit(r)
    PROVE  Transactions'
<1> USE DEF Transactions
<1>1. /\ table' = table \cup open[r]
      /\ open' = [open EXCEPT ![r] = {}]
      /\ Reply(r, BulkResults(r))
  BY DEF Commit
<1>2. PICK end \in {"answered", "failed"} : pc' = [pc EXCEPT ![r] = end]
  BY <1>1, ReplyEnds
<1>3. \A q \in Requests : open'[q] = IF q = r THEN {} ELSE open[q] BY <1>1 DEF Shape
<1>4. Shape' /\ SinglesHaveNone' BY <1>1, <1>2, <1>3 DEF Shape, SinglesHaveNone
<1>5. OpenIsConnected' BY <1>2, <1>3 DEF Shape, OpenIsConnected, Connected
<1>6. Rows' \subseteq Rows BY <1>1, <1>3 DEF Rows
<1>7. KeyInsertedOnce' BY <1>6, NoMoreRows
<1> QED BY <1>4, <1>5, <1>7

LEMMA SubmitTaskKeeps ==
    ASSUME Transactions, NEW r \in Requests, SubmitTask(r)
    PROVE  Transactions'
<1> USE DEF Transactions
<1>1. /\ r \in Requests \ Bulk /\ pc[r] = "inserting" /\ InDoubt(r, Accepted(r)[1]) = {}
      /\ UNCHANGED open
  BY DEF SubmitTask, Inserting
<1>2. open[r] = {} BY <1>1 DEF SinglesHaveNone
<1>3. \E end \in {"answered", "failed", "selecting"} : pc' = [pc EXCEPT ![r] = end]
  <2>1. CASE Visible(r, Accepted(r)[1]) = {}
    <3>1. Reply(r, <<[status |-> "created", row |-> Row(r, 1)]>>) BY <2>1 DEF SubmitTask
    <3> QED BY <3>1, ReplyEnds
  <2>2. CASE Visible(r, Accepted(r)[1]) # {} BY <2>2 DEF SubmitTask
  <2> QED BY <2>1, <2>2
<1>4. Shape' /\ SinglesHaveNone' BY <1>1, <1>3 DEF Shape, SinglesHaveNone
<1>5. OpenIsConnected' BY <1>1, <1>2, <1>3 DEF Shape, OpenIsConnected, Connected
<1>6. KeyInsertedOnce'
  <2>1. CASE Visible(r, Accepted(r)[1]) = {}
    <3>1. table' = table \cup {Row(r, 1)} BY <2>1 DEF SubmitTask
    <3>2. Rows' = Rows \cup {Row(r, 1)} BY <1>1, <3>1 DEF Rows
    <3>3. Row(r, 1).key = Accepted(r)[1] BY DEF Row
    <3> QED BY <1>1, <2>1, <3>2, <3>3, KeyIsNew, OneMoreRow
  <2>2. CASE Visible(r, Accepted(r)[1]) # {}
    <3>1. UNCHANGED table BY <2>2 DEF SubmitTask
    <3> QED BY <1>1, <3>1 DEF KeyInsertedOnce
  <2> QED BY <2>1, <2>2
<1> QED BY <1>4, <1>5, <1>6

(* A step that leaves the tables alone and does not take r's connection    *)
(* away while it has rows.                                                 *)
LEMMA MoveKeeps ==
    ASSUME Transactions, NEW r \in Requests, NEW at, pc' = [pc EXCEPT ![r] = at],
           open[r] = {} \/ at \in {"inserting", "committing"}, UNCHANGED <<table, open>>
    PROVE  Transactions'
BY DEF Transactions, Shape, OpenIsConnected, Connected, SinglesHaveNone, KeyInsertedOnce

LEMMA RolledBackKeeps ==
    ASSUME Transactions, NEW r \in Requests, NEW end, RolledBack(r, end)
    PROVE  Transactions'
<1> USE DEF Transactions
<1>1. /\ open' = [open EXCEPT ![r] = {}] /\ pc' = [pc EXCEPT ![r] = end] /\ UNCHANGED table
  BY DEF RolledBack
<1>2. \A q \in Requests : open'[q] = IF q = r THEN {} ELSE open[q] BY <1>1 DEF Shape
<1>3. Shape' /\ SinglesHaveNone' BY <1>1, <1>2 DEF Shape, SinglesHaveNone
<1>4. OpenIsConnected' BY <1>1, <1>2 DEF Shape, OpenIsConnected, Connected
<1>5. Rows' \subseteq Rows BY <1>1, <1>2 DEF Rows
<1>6. KeyInsertedOnce' BY <1>5, NoMoreRows
<1> QED BY <1>3, <1>4, <1>6

-----------------------------------------------------------------------------
Waiting == {"arrived", "inserting", "committing", "selecting"}

(* What any step of a request that has arrived does to where it is: it was *)
(* not at rest, and it is cut off only when the pool is closed.            *)
LEMMA ServeMoves ==
    ASSUME Transactions, NEW r \in Requests, Serve(r) \/ Break(r)
    PROVE  /\ Transactions' /\ UNCHANGED process
           /\ pc[r] \in Waiting
           /\ \E at \in Waiting \cup {"answered", "failed", "aborted", "cut"} :
                 /\ pc' = [pc EXCEPT ![r] = at]
                 /\ at = "cut" => main = "closing"
                 /\ at = "aborted" => Deadlocked(r)
<1>1. CASE Begin(r) /\ UNCHANGED process
  <2>1. /\ pc[r] = "arrived" /\ pc' = [pc EXCEPT ![r] = "inserting"] /\ UNCHANGED <<table, open>>
    BY <1>1 DEF Begin
  <2>2. Transactions' BY <2>1, MoveKeeps
  <2> QED BY <1>1, <2>1, <2>2 DEF Waiting
<1>2. CASE SelectExisting(r) /\ UNCHANGED process
  <2>1. pc[r] = "selecting" /\ UNCHANGED <<table, open>> BY <1>2 DEF SelectExisting
  <2>2. \E row \in Visible(r, Accepted(r)[1]) : Reply(r, <<[status |-> "duplicate", row |-> row]>>)
    BY <1>2 DEF SelectExisting
  <2>3. PICK end \in {"answered", "failed"} : pc' = [pc EXCEPT ![r] = end]
    BY <2>2, ReplyEnds
  <2>4. open[r] = {} BY <2>1 DEF Transactions, OpenIsConnected, Connected
  <2>5. Transactions' BY <2>1, <2>3, <2>4, MoveKeeps
  <2> QED BY <1>2, <2>1, <2>3, <2>5 DEF Waiting
<1>3. CASE TurnedAway(r)
  <2>1. /\ main = "closing" /\ pc[r] \in {"arrived", "selecting"}
        /\ RolledBack(r, "cut") /\ UNCHANGED process
    BY <1>3 DEF TurnedAway, PoolOpen
  <2>2. pc' = [pc EXCEPT ![r] = "cut"] BY <2>1 DEF RolledBack
  <2>3. Transactions' BY <2>1, RolledBackKeeps
  <2> QED BY <2>1, <2>2, <2>3 DEF Waiting
<1>4. CASE \E j \in Tasks(r) : Insert(r, j) /\ UNCHANGED process
  <2>1. PICK j \in Tasks(r) : Insert(r, j) /\ UNCHANGED process BY <1>4
  <2>2. Transactions' BY <2>1, InsertKeeps
  <2>3. pc[r] = "inserting" /\ UNCHANGED pc BY <2>1 DEF Insert, Inserting
  <2>4. pc' = [pc EXCEPT ![r] = "inserting"]
    BY <2>3 DEF Transactions, Shape
  <2> QED BY <2>1, <2>2, <2>3, <2>4 DEF Waiting
<1>5. CASE Resolve(r) /\ UNCHANGED process
  <2>1. /\ pc[r] = "inserting" /\ pc' = [pc EXCEPT ![r] = "committing"] /\ UNCHANGED <<table, open>>
    BY <1>5 DEF Resolve
  <2>2. Transactions' BY <2>1, MoveKeeps
  <2> QED BY <1>5, <2>1, <2>2 DEF Waiting
<1>6. CASE Commit(r) /\ UNCHANGED process
  <2>1. pc[r] = "committing" /\ Reply(r, BulkResults(r)) BY <1>6 DEF Commit
  <2>2. PICK end \in {"answered", "failed"} : pc' = [pc EXCEPT ![r] = end]
    BY <2>1, ReplyEnds
  <2>3. Transactions' BY <1>6, CommitKeeps
  <2> QED BY <1>6, <2>1, <2>2, <2>3 DEF Waiting
<1>7. CASE SubmitTask(r) /\ UNCHANGED process
  <2>1. pc[r] = "inserting" BY <1>7 DEF SubmitTask, Inserting
  <2>2. PICK end \in {"answered", "failed", "selecting"} : pc' = [pc EXCEPT ![r] = end]
    <3>1. CASE Visible(r, Accepted(r)[1]) = {}
      <4>1. Reply(r, <<[status |-> "created", row |-> Row(r, 1)]>>) BY <1>7, <3>1 DEF SubmitTask
      <4> QED BY <4>1, ReplyEnds
    <3>2. CASE Visible(r, Accepted(r)[1]) # {} BY <1>7, <3>2 DEF SubmitTask
    <3> QED BY <3>1, <3>2
  <2>3. Transactions' BY <1>7, SubmitTaskKeeps
  <2> QED BY <1>7, <2>1, <2>2, <2>3 DEF Waiting
<1>8. CASE AbortVictim(r) /\ UNCHANGED process
  <2>1. RolledBack(r, "aborted") /\ Deadlocked(r) BY <1>8 DEF AbortVictim
  <2>2. WaitsFor(r) # {} BY <2>1 DEF Deadlocked
  <2>3. pc[r] = "inserting" BY <2>2 DEF WaitsFor, Inserting
  <2>4. pc' = [pc EXCEPT ![r] = "aborted"] BY <2>1 DEF RolledBack
  <2>5. Transactions' BY <2>1, RolledBackKeeps
  <2> QED BY <1>8, <2>1, <2>3, <2>4, <2>5 DEF Waiting
<1>9. CASE Break(r)
  <2>1. /\ pc[r] \in Waiting /\ RolledBack(r, "failed") /\ UNCHANGED process
    BY <1>9 DEF Break, Fail, Waiting
  <2>2. pc' = [pc EXCEPT ![r] = "failed"] BY <2>1 DEF RolledBack
  <2>3. Transactions' BY <2>1, RolledBackKeeps
  <2> QED BY <2>1, <2>2, <2>3 DEF Waiting
<1> QED BY <1>1, <1>2, <1>3, <1>4, <1>5, <1>6, <1>7, <1>8, <1>9
        DEF Serve, Connect, Proceed, Execute

(* Hence a request's step keeps the phases.                                *)
LEMMA ServeKeeps ==
    ASSUME AInv, NEW r \in Requests, Serve(r) \/ Break(r)
    PROVE  AInv'
<1> USE DEF AInv
<1>1. /\ Transactions' /\ UNCHANGED <<main, listener, code>> /\ pc[r] \in Waiting
  BY ServeMoves DEF process
<1>2. PICK at \in Waiting \cup {"answered", "failed", "aborted", "cut"} :
         pc' = [pc EXCEPT ![r] = at] /\ (at = "cut" => main = "closing")
  BY ServeMoves
<1>3. ~AtRest BY <1>1 DEF AtRest, Waiting, Ended
<1>4. main # "closing" => (NobodyCut => NobodyCut')
  BY <1>2 DEF NobodyCut, Waiting, Transactions, Shape
<1>5. Phases' BY <1>1, <1>3, <1>4 DEF Phases
<1> QED BY <1>1, <1>5

LEMMA ReceiveKeeps ==
    ASSUME AInv, NEW r \in Requests, Receive(r)
    PROVE  AInv'
<1> USE DEF AInv
<1>1. /\ main \in {"selecting", "closing"} /\ listener \in {"up", "failed"}
      /\ UNCHANGED <<main, listener, code, table, open>>
      /\ pc[r] = "idle" /\ \E at \in {"answered", "arrived"} : pc' = [pc EXCEPT ![r] = at]
  BY DEF Receive, Arrive, process
<1>2. PICK at \in {"answered", "arrived"} : pc' = [pc EXCEPT ![r] = at] BY <1>1
<1>3. open[r] = {} BY <1>1 DEF Transactions, OpenIsConnected, Connected
<1>4. Transactions' BY <1>1, <1>2, <1>3, MoveKeeps
<1>5. NobodyCut => NobodyCut' BY <1>2 DEF NobodyCut, Transactions, Shape
<1>6. code # 0 BY <1>1 DEF Phases
<1>7. Phases' BY <1>1, <1>5, <1>6 DEF Phases
<1> QED BY <1>4, <1>7

(* The steps of main, the signal and the listener leave the requests be.   *)
LEMMA MainKeeps ==
    ASSUME AInv, Boot \/ StartShutdown \/ ServeError \/ Drained \/ GraceExpires
                 \/ Signal \/ ListenerFails \/ Pass
    PROVE  AInv'
<1> USE DEF AInv
<1>1. UNCHANGED <<pc, open, table>>
  BY DEF Boot, PingSucceeds, PingFails, GiveUp, StartShutdown, ServeError, Drained, GraceExpires,
         Signal, ListenerFails, Pass, Tick, vars
<1>2. Transactions'
  BY <1>1 DEF Transactions, Shape, OpenIsConnected, Connected, SinglesHaveNone, KeyInsertedOnce
<1>3. UNCHANGED AtRest /\ UNCHANGED NobodyCut BY <1>1 DEF AtRest, NobodyCut
<1>4. Phases'
  <2> USE <1>3, CodeAssumption DEF Phases
  <2>1. CASE PingSucceeds BY <2>1 DEF PingSucceeds
  <2>2. CASE PingFails BY <2>2 DEF PingFails
  <2>3. CASE GiveUp BY <2>3 DEF GiveUp
  <2>4. CASE StartShutdown BY <2>4 DEF StartShutdown
  <2>5. CASE ServeError BY <2>5 DEF ServeError
  <2>6. CASE Drained
    <3>1. AtRest BY <2>6 DEF Drained, Active, AtRest
    <3> QED BY <2>6, <3>1 DEF Drained
  <2>7. CASE GraceExpires BY <2>7 DEF GraceExpires
  <2>8. CASE Signal BY <2>8 DEF Signal
  <2>9. CASE ListenerFails BY <2>9 DEF ListenerFails
  <2>10. CASE Pass BY <2>10 DEF Pass, process
  <2> QED BY <2>1, <2>2, <2>3, <2>4, <2>5, <2>6, <2>7, <2>8, <2>9, <2>10 DEF Boot
<1> QED BY <1>2, <1>4

(* Exit: nobody holds a connection, so nobody has uncommitted rows; a      *)
(* clean exit finds everybody at rest and cuts nobody off.                 *)
LEMMA ExitKeeps ==
    ASSUME AInv, Exit
    PROVE  AInv'
<1> USE DEF AInv
<1>1. /\ main = "closing" /\ Connected = {} /\ main' = "exited"
      /\ pc' = [r \in Requests |-> IF r \in Active THEN "cut" ELSE pc[r]]
      /\ UNCHANGED <<table, open, listener, code>>
  BY DEF Exit
<1>2. \A r \in Requests : open[r] = {} BY <1>1 DEF Transactions, OpenIsConnected
<1>3. Transactions'
  BY <1>1, <1>2 DEF Transactions, Shape, OpenIsConnected, SinglesHaveNone, KeyInsertedOnce
<1>4. AtRest' BY <1>1 DEF AtRest, Active, Ended
<1>5. AtRest /\ NobodyCut => NobodyCut' BY <1>1 DEF AtRest, NobodyCut, Active
<1>6. Phases' BY <1>1, <1>4, <1>5 DEF Phases
<1> QED BY <1>3, <1>6

LEMMA AInitEstablishes == AInit => AInv
<1> SUFFICES ASSUME AInit PROVE AInv OBVIOUS
<1>1. /\ pc = [r \in Requests |-> "idle"] /\ open = [r \in Requests |-> {}] /\ table = {}
      /\ main = "pinging" /\ listener = "none" /\ code = NULL
  BY DEF AInit, Init
<1>2. Transactions
  BY <1>1 DEF Transactions, Shape, OpenIsConnected, SinglesHaveNone, KeyInsertedOnce
<1>3. Phases BY <1>1, CodeAssumption DEF Phases, NobodyCut
<1> QED BY <1>2, <1>3 DEF AInv

LEMMA AStepPreserves == AInv /\ [ANext]_avars => AInv'
<1> SUFFICES ASSUME AInv, [ANext]_avars PROVE AInv' OBVIOUS
<1>1. CASE UNCHANGED avars
  BY <1>1 DEF avars, vars, process, AInv, Transactions, Shape, OpenIsConnected, Connected,
              SinglesHaveNone, KeyInsertedOnce, Phases, AtRest, NobodyCut
<1> QED BY <1>1, ServeKeeps, ReceiveKeeps, MainKeeps, ExitKeeps DEF ANext, Main

(* The invariant of run() and of the transactions it serves holds through  *)
(* boot, serving and every way to shut down.                               *)
THEOREM ProcessInvariant == ASpec => []AInv
BY AInitEstablishes, AStepPreserves, PTL DEF ASpec

(* Of all the requests that submit a key, in batches or alone, one inserts *)
(* it: for any number of requests, batches and failures, and whenever the  *)
(* process is stopped.                                                     *)
THEOREM KeysInsertedOnce == ASpec => []KeyInsertedOnce
<1>1. AInv => KeyInsertedOnce BY DEF AInv, Transactions
<1> QED BY <1>1, ProcessInvariant, PTL

(* A process that exits with code 0 has cut no request off.                *)
THEOREM CleanExit == ASpec => []CleanExitCutsNobodyOff
<1>1. AInv => CleanExitCutsNobodyOff BY DEF AInv, Phases, NobodyCut, CleanExitCutsNobodyOff
<1> QED BY <1>1, ProcessInvariant, PTL

(* When the process is gone no transaction is left open, however it ended. *)
THEOREM NoTransactionOutlives == ASpec => []NothingLeftOpen
<1>1. ASSUME AInv PROVE NothingLeftOpen
  <2> SUFFICES ASSUME main = "exited", NEW r \in Requests
               PROVE  open[r] = {} /\ pc[r] \in Ended \cup {"idle"}
    BY DEF NothingLeftOpen
  <2>1. pc[r] \in Ended \cup {"idle"} BY <1>1 DEF AInv, Phases, AtRest
  <2>2. r \notin Connected BY <2>1 DEF Connected, Ended
  <2> QED BY <1>1, <2>1, <2>2 DEF AInv, Transactions, OpenIsConnected
<1> QED BY <1>1, ProcessInvariant, PTL

-----------------------------------------------------------------------------
(* Ranks by counting: a finite set of n integers takes the ranks 1 to n,   *)
(* each of them, in its order.                                             *)
RankIn(V, i) == Cardinality({l \in V : l <= i})

LEMMA RankType ==
    ASSUME NEW V, V \subseteq Int, IsFiniteSet(V), NEW i \in V
    PROVE  RankIn(V, i) \in 1..Cardinality(V)
<1> DEFINE B == {l \in V : l <= i}
<1>1. B \in SUBSET V OBVIOUS
<1>2. IsFiniteSet(B) /\ Cardinality(B) <= Cardinality(V) BY <1>1, FS_Subset
<1>3. Cardinality(B) \in Nat /\ Cardinality(V) \in Nat BY <1>2, FS_CardinalityType
<1>4. B # {} BY i \in Int
<1>5. Cardinality(B) # 0 BY <1>2, <1>4, FS_EmptySet
<1> HIDE DEF B
<1>6. Cardinality(B) \in 1..Cardinality(V) BY <1>2, <1>3, <1>5
<1> QED BY <1>6 DEF B, RankIn

LEMMA RankGrows ==
    ASSUME NEW V, V \subseteq Int, IsFiniteSet(V), NEW i \in V, NEW m \in V, i < m
    PROVE  RankIn(V, i) < RankIn(V, m)
<1> DEFINE B == {l \in V : l <= i}
           C == {l \in V : l <= m}
<1>1. i \in Int /\ m \in Int OBVIOUS
<1>2. C \in SUBSET V OBVIOUS
<1>3. IsFiniteSet(C) BY <1>2, FS_Subset
<1>4. \A l \in V : l <= i => l <= m BY <1>1
<1>5. B \in SUBSET C BY <1>4
<1>6. m \in C /\ m \notin B BY <1>1
<1>7. B # C BY <1>6
<1> HIDE DEF B, C
<1>8. /\ IsFiniteSet(B) /\ Cardinality(B) <= Cardinality(C)
      /\ Cardinality(B) # Cardinality(C)
  BY <1>3, <1>5, <1>7, FS_Subset
<1>9. Cardinality(B) \in Nat /\ Cardinality(C) \in Nat BY <1>3, <1>8, FS_CardinalityType
<1>10. Cardinality(B) < Cardinality(C) BY <1>8, <1>9
<1> QED BY <1>10 DEF B, C, RankIn

LEMMA RankTaken ==
    ASSUME NEW V, V \subseteq Int, IsFiniteSet(V), NEW j \in 1..Cardinality(V)
    PROVE  \E i \in V : RankIn(V, i) = j
<1> DEFINE n == Cardinality(V)
           f == [i \in V |-> RankIn(V, i)]
<1>1. n \in Nat BY FS_CardinalityType
<1>2. IsFiniteSet(1..n) /\ Cardinality(1..n) = n BY <1>1, FS_Interval
<1>3. f \in [V -> 1..n] BY RankType
<1>4. \A i, m \in V : i < m => f[i] < f[m] BY RankGrows
<1>5. \A i, m \in V : f[i] = f[m] => i = m
  <2> SUFFICES ASSUME NEW i \in V, NEW m \in V, f[i] = f[m], i # m PROVE FALSE OBVIOUS
  <2>1. i \in Int /\ m \in Int /\ f[i] \in Int /\ f[m] \in Int BY <1>1, <1>3
  <2>2. CASE i < m BY <1>4, <2>1, <2>2
  <2>3. CASE m < i BY <1>4, <2>1, <2>3
  <2> HIDE DEF f
  <2> QED BY <2>1, <2>2, <2>3
<1> HIDE DEF n, f
<1>6. f \in Injection(V, 1..n) BY <1>3, <1>5 DEF Injection, IsInjective
<1>7. f \in Surjection(V, 1..n) BY <1>2, <1>6, FS_Injection DEF n
<1>8. \E i \in V : f[i] = j BY <1>7 DEF n, Surjection
<1> QED BY <1>8 DEF f

(* A finite set of integers has a greatest element.                        *)
LEMMA HasGreatest ==
    ASSUME NEW V, V \subseteq Int, IsFiniteSet(V), V # {}
    PROVE  \E i \in V : \A m \in V : m <= i
<1> DEFINE n == Cardinality(V)
<1>1. n \in Nat /\ n # 0 BY FS_CardinalityType, FS_EmptySet
<1>2. n \in 1..n BY <1>1
<1>3. PICK i \in V : RankIn(V, i) = n BY <1>2, RankTaken
<1>4. \A m \in V : m <= i
  <2> SUFFICES ASSUME NEW m \in V, ~ (m <= i) PROVE FALSE OBVIOUS
  <2>1. i < m BY i \in Int, m \in Int
  <2>2. RankIn(V, i) < RankIn(V, m) BY <2>1, RankGrows
  <2>3. RankIn(V, m) \in 1..n BY RankType
  <2> HIDE DEF n
  <2> QED BY <1>1, <1>3, <2>2, <2>3
<1> QED BY <1>4

-----------------------------------------------------------------------------
(* The items of a request and its tasks.                                   *)
LEMMA ItemsFinite ==
    ASSUME batch \in Batches, NEW r \in Requests
    PROVE  /\ Items(r) \subseteq Int /\ ValidItems(r) \subseteq Int /\ IsFiniteSet(ValidItems(r))
           /\ Cardinality(ValidItems(r)) \in Nat
           /\ \A i \in Items(r) : batch[r][i] \in Keys \cup {NULL, INVALID}
           /\ r \notin Bulk => Items(r) = {1}
           /\ batch[r] # <<>>
<1>1. batch[r] \in Seq(Keys \cup {NULL, INVALID}) \ {<<>>} /\ (r \notin Bulk => Len(batch[r]) = 1)
  BY BatchAssumption
<1>2. Len(batch[r]) \in Nat BY <1>1
<1>3. IsFiniteSet(Items(r)) BY <1>2, FS_Interval DEF Items
<1>4. IsFiniteSet(ValidItems(r)) /\ Cardinality(ValidItems(r)) \in Nat
  BY <1>3, FS_Subset, FS_CardinalityType DEF ValidItems
<1>5. Items(r) \subseteq Int /\ (\A i \in Items(r) : batch[r][i] \in Keys \cup {NULL, INVALID})
  BY <1>1, <1>2 DEF Items
<1>6. r \notin Bulk => Items(r) = {1}
  <2>1. \A n \in Int : n \in 1..1 <=> n \in {1} OBVIOUS
  <2>2. 1..1 = {1} BY <2>1
  <2> QED BY <1>1, <2>2 DEF Items
<1> QED BY <1>1, <1>4, <1>5, <1>6 DEF ValidItems

(* Every task is made of one valid item, with the item's key.              *)
LEMMA TaskIsItem ==
    ASSUME batch \in Batches, NEW r \in Requests, NEW j \in Tasks(r)
    PROVE  /\ Valid(r)[j] \in ValidItems(r) /\ PlaceOf(r, Valid(r)[j]) = j
           /\ Accepted(r)[j] = batch[r][Valid(r)[j]]
           /\ Accepted(r)[j] \in Keys \cup {NULL} /\ j \in Nat
<1>1. \E i \in ValidItems(r) : RankIn(ValidItems(r), i) = j
  BY ItemsFinite, RankTaken DEF Tasks
<1>2. \E i \in ValidItems(r) : PlaceOf(r, i) = j BY <1>1 DEF PlaceOf, RankIn
<1>3. NthValid(r, j) \in ValidItems(r) /\ PlaceOf(r, NthValid(r, j)) = j BY <1>2 DEF NthValid
<1>4. Valid(r)[j] = NthValid(r, j) /\ Accepted(r)[j] = batch[r][NthValid(r, j)]
  BY DEF Valid, Accepted
<1>5. batch[r][NthValid(r, j)] \in Keys \cup {NULL} BY <1>3, ItemsFinite DEF ValidItems
<1>6. j \in Nat BY ItemsFinite DEF Tasks
<1> QED BY <1>3, <1>4, <1>5, <1>6

(* Every valid item becomes a task.                                        *)
LEMMA ItemHasTask ==
    ASSUME batch \in Batches, NEW r \in Requests, NEW i \in ValidItems(r)
    PROVE  \E j \in Tasks(r) : Valid(r)[j] = i
<1> DEFINE j == RankIn(ValidItems(r), i)
           l == Valid(r)[j]
<1>1. j \in Tasks(r) BY ItemsFinite, RankType DEF Tasks
<1> HIDE DEF j
<1>2. l \in ValidItems(r) /\ RankIn(ValidItems(r), l) = j
  BY <1>1, TaskIsItem DEF PlaceOf, RankIn
<1> HIDE DEF l
<1>3. l \in Int /\ i \in Int BY <1>2, ItemsFinite
<1>4. ~ (l < i) /\ ~ (i < l)
  <2>1. ASSUME l < i PROVE FALSE
    <3>1. RankIn(ValidItems(r), l) < RankIn(ValidItems(r), i) BY <1>2, <2>1, ItemsFinite, RankGrows
    <3> QED BY <1>1, <1>2, <3>1, TaskIsItem DEF j
  <2>2. ASSUME i < l PROVE FALSE
    <3>1. RankIn(ValidItems(r), i) < RankIn(ValidItems(r), l) BY <1>2, <2>2, ItemsFinite, RankGrows
    <3> QED BY <1>1, <1>2, <3>1, TaskIsItem DEF j
  <2> QED BY <2>1, <2>2
<1> QED BY <1>1, <1>3, <1>4 DEF l

(* The tasks keep the order of the items.                                  *)
LEMMA TasksInOrder ==
    ASSUME batch \in Batches, NEW r \in Requests, NEW j \in Tasks(r), NEW l \in Tasks(r), j < l
    PROVE  Valid(r)[j] < Valid(r)[l]
<1> DEFINE a == Valid(r)[j]
           b == Valid(r)[l]
<1>1. /\ a \in ValidItems(r) /\ b \in ValidItems(r)
      /\ RankIn(ValidItems(r), a) = j /\ RankIn(ValidItems(r), b) = l
      /\ j \in Int /\ l \in Int
  BY TaskIsItem DEF PlaceOf, RankIn
<1> HIDE DEF a, b
<1>2. a \in Int /\ b \in Int BY <1>1, ItemsFinite
<1>3. ~ (b < a)
  <2> SUFFICES ASSUME b < a PROVE FALSE OBVIOUS
  <2>1. RankIn(ValidItems(r), b) < RankIn(ValidItems(r), a) BY <1>1, ItemsFinite, RankGrows
  <2> QED BY <1>1, <2>1
<1>4. a # b BY <1>1
<1> QED BY <1>2, <1>3, <1>4 DEF a, b

(* A request without a task has no valid item; a single submission that    *)
(* has one has it at place 1.                                              *)
LEMMA NoTaskNoItem ==
    ASSUME batch \in Batches, NEW r \in Requests
    PROVE  /\ Tasks(r) = {} => ValidItems(r) = {}
           /\ Tasks(r) # {} /\ r \notin Bulk => Tasks(r) = {1} /\ ValidItems(r) = {1}
<1>1. Tasks(r) = {} => ValidItems(r) = {} BY ItemHasTask
<1>2. ASSUME Tasks(r) # {}, r \notin Bulk PROVE Tasks(r) = {1} /\ ValidItems(r) = {1}
  <2>1. ValidItems(r) # {} BY <1>2, TaskIsItem
  <2>2. ValidItems(r) = {1} BY <1>2, <2>1, ItemsFinite DEF ValidItems
  <2>3. Cardinality(ValidItems(r)) = 1 BY <2>2, FS_Singleton
  <2> QED BY <2>2, <2>3 DEF Tasks
<1> QED BY <1>1, <1>2

(* All of it is decided by the batch, which never changes.                 *)
LEMMA SameBatch ==
    ASSUME batch' = batch, NEW r \in Requests
    PROVE  /\ Items(r)' = Items(r) /\ Tasks(r)' = Tasks(r) /\ Valid(r)' = Valid(r)
           /\ Accepted(r)' = Accepted(r) /\ ValidItems(r)' = ValidItems(r)
BY DEF Items, Tasks, Valid, Accepted, ValidItems, NthValid, PlaceOf

-----------------------------------------------------------------------------
(* What each request knows and has written at each point of its way.       *)
Fields == /\ batch \in Batches /\ clock \in Nat
          /\ start \in [Requests -> Int] /\ began \in [Requests -> Nat]
          /\ DOMAIN todo = Requests /\ DOMAIN enqueued = Requests /\ DOMAIN results = Requests

(* The tasks are sent in order: those that are left are the last ones.     *)
Progress(r) ==
    /\ todo[r] \subseteq Tasks(r)
    /\ \A l \in todo[r], m \in Tasks(r) : l <= m => m \in todo[r]
    /\ pc[r] \in {"idle", "arrived"} \/ (pc[r] = "inserting" /\ r \notin Bulk) => todo[r] = Tasks(r)
    /\ pc[r] \in {"arrived", "inserting", "selecting"} => Tasks(r) # {}
    /\ pc[r] = "selecting" => r \notin Bulk
    /\ pc[r] = "committing" => r \in Bulk
    /\ pc[r] \in {"committing", "selecting"} => todo[r] = {}

(* requestStart is read before the transaction begins, and from a clock    *)
(* that is not ahead it is not later either.                               *)
Times(r) == Skew[r] <= 0 =>
               /\ start[r] <= clock
               /\ pc[r] \in {"inserting", "committing"} => start[r] <= began[r]

OpenRows(r) == \A row \in open[r] : \E j \in Tasks(r) \ todo[r] : row = Row(r, j)

(* A task that was sent has its row, or somebody's row holds its key.      *)
Sent(r) ==
    /\ DOMAIN enqueued[r] = Tasks(r)
    /\ pc[r] \in {"idle", "arrived", "inserting"} =>
         \A j \in Tasks(r) :
            \/ enqueued[r][j] = NULL /\ (j \in todo[r] \/ Visible(r, Accepted(r)[j]) # {})
            \/ enqueued[r][j] = Row(r, j) /\ j \notin todo[r] /\ Row(r, j) \in open[r]

(* Before the commit every task has a row: its own if it has no key.       *)
Resolved(r) ==
    pc[r] = "committing" => \A j \in Tasks(r) :
        /\ enqueued[r][j] \in table \cup open[r] /\ enqueued[r][j].key = Accepted(r)[j]
        /\ Accepted(r)[j] = NULL => enqueued[r][j] = Row(r, j)

(* AllOrNothing and DuplicateIsTrue, request by request.                   *)
Replied(r) == pc[r] = "answered" => \A i \in Items(r) : Answered(r, i)
Committed(r) == \A row \in table : row.by = r => pc[r] \in {"answered", "failed"}
HasRow(r, j) == \E row \in table :
                   (row.by = r /\ row.task = j) \/ (row.key # NULL /\ row.key = Accepted(r)[j])
Complete(r) == (\E row \in table : row.by = r) => \A j \in Tasks(r) : HasRow(r, j)
TrueDuplicates(r) ==
    NotAhead(r) => \A i \in Items(r) :
        (results[r][i] # NULL /\ results[r][i].status = "duplicate") =>
            results[r][i].row \in table /\ results[r][i].row.by # r

Request(r) == /\ Progress(r) /\ Times(r) /\ OpenRows(r) /\ Sent(r) /\ Resolved(r)
              /\ Replied(r) /\ Committed(r) /\ Complete(r) /\ TrueDuplicates(r)

RInv == Fields /\ \A r \in Requests : Request(r)

Same(r) == /\ pc'[r] = pc[r] /\ open'[r] = open[r] /\ todo'[r] = todo[r] /\ start'[r] = start[r]
           /\ began'[r] = began[r] /\ enqueued'[r] = enqueued[r] /\ results'[r] = results[r]

LEMMA SameRow ==
    ASSUME batch' = batch, NEW r \in Requests, began'[r] = began[r]
    PROVE  \A j : Row(r, j)' = Row(r, j)
BY SameBatch DEF Row

(* What the others commit takes nothing from a request: the rows it counts *)
(* on stay visible, and none of the new ones is its own.                   *)
LEMMA Bystander ==
    ASSUME RInv, NEW q \in Requests, Same(q), batch' = batch, clock' \in Nat, clock <= clock',
           table \subseteq table', \A row \in table' \ table : row.by # q
    PROVE  Request(q)'
<1>1. /\ Progress(q) /\ Times(q) /\ OpenRows(q) /\ Sent(q) /\ Resolved(q)
      /\ Replied(q) /\ Committed(q) /\ Complete(q) /\ TrueDuplicates(q)
  BY DEF RInv, Request
<1>2. /\ Items(q)' = Items(q) /\ Tasks(q)' = Tasks(q) /\ Accepted(q)' = Accepted(q)
      /\ \A j : Row(q, j)' = Row(q, j)
  BY SameBatch, SameRow DEF Same
<1>3. Progress(q)' BY <1>1, <1>2 DEF Progress, Same
<1>4. Times(q)'
  <2>1. start[q] \in Int /\ clock \in Nat BY DEF RInv, Fields
  <2> QED BY <1>1, <2>1 DEF Times, Same
<1>5. OpenRows(q)' BY <1>1, <1>2 DEF OpenRows, Same
<1>6. Sent(q)'
  <2>1. \A k : Visible(q, k) \subseteq Visible(q, k)' BY DEF Visible, Same
  <2> QED BY <1>1, <1>2, <2>1 DEF Sent, Same
<1>7. Resolved(q)' BY <1>1, <1>2 DEF Resolved, Same
<1>8. Replied(q)' BY <1>1, <1>2 DEF Replied, Answered, Same
<1>9. Committed(q)' BY <1>1 DEF Committed, Same
<1>10. Complete(q)' BY <1>1, <1>2 DEF Complete, HasRow
<1>11. TrueDuplicates(q)' BY <1>1, <1>2 DEF TrueDuplicates, Same
<1> QED BY <1>3, <1>4, <1>5, <1>6, <1>7, <1>8, <1>9, <1>10, <1>11 DEF Request

(* Hence a step of r has to be looked at for r alone.                      *)
LEMMA StepOf ==
    ASSUME RInv, NEW r \in Requests, Fields', batch' = batch, clock' = clock, Request(r)',
           \A q \in Requests \ {r} : Same(q),
           table \subseteq table', \A row \in table' \ table : row.by = r
    PROVE  RInv'
<1>1. clock \in Nat /\ clock <= clock' BY DEF RInv, Fields
<1>2. \A q \in Requests \ {r} : Request(q)' BY <1>1, Bystander DEF RInv, Fields
<1> QED BY <1>2 DEF RInv

LEMMA ArriveRequest ==
    ASSUME RInv, Transactions, NEW r \in Requests, Arrive(r)
    PROVE  RInv'
<1>1. /\ pc[r] = "idle" /\ UNCHANGED <<batch, clock, table, open, todo, began, enqueued>>
      /\ Fields /\ Request(r)
  BY DEF Arrive, RInv
<1>2. DOMAIN pc = Requests BY DEF Transactions, Shape
<1>3. Items(r)' = Items(r) /\ Tasks(r)' = Tasks(r) /\ Accepted(r)' = Accepted(r)
      /\ \A j : Row(r, j)' = Row(r, j)
  BY <1>1, SameBatch, SameRow
<1>4. open[r] = {} BY <1>1 DEF Transactions, OpenIsConnected, Connected
<1>5. \A k : Visible(r, k)' = Visible(r, k) BY <1>1 DEF Visible
<1>6. /\ OpenRows(r)' /\ \A row \in table : row.by # r
  BY <1>1, <1>4 DEF OpenRows, Request, Committed
<1>7. Committed(r)' /\ Complete(r)' BY <1>1, <1>6 DEF Committed, Complete
<1>8. CASE Tasks(r) = {}
  <2>1. /\ pc' = [pc EXCEPT ![r] = "answered"] /\ UNCHANGED start
        /\ results' = [results EXCEPT ![r] = [i \in Items(r) |-> Refused]]
    BY <1>8 DEF Arrive
  <2>2. Fields' /\ \A q \in Requests \ {r} : Same(q) BY <1>1, <1>2, <2>1 DEF Fields, Same
  <2>3. pc'[r] = "answered" /\ results'[r] = [i \in Items(r) |-> Refused]
    BY <1>1, <1>2, <2>1 DEF Fields
  <2>4. Progress(r)' /\ Times(r)' /\ Sent(r)' /\ Resolved(r)'
    BY <1>1, <1>3, <2>1, <2>3 DEF Request, Progress, Times, Sent, Resolved
  <2>5. \A i \in Items(r) : batch[r][i] = INVALID
    BY <1>1, <1>8, NoTaskNoItem DEF ValidItems, Fields
  <2>6. Replied(r)' BY <1>1, <1>3, <2>3, <2>5 DEF Replied, Answered, Refused
  <2>7. TrueDuplicates(r)' BY <1>3, <2>3 DEF TrueDuplicates, Refused
  <2>8. Request(r)' BY <1>6, <1>7, <2>4, <2>6, <2>7 DEF Request
  <2> QED BY <1>1, <2>2, <2>8, StepOf
<1>9. CASE Tasks(r) # {}
  <2>1. /\ pc' = [pc EXCEPT ![r] = "arrived"] /\ start' = [start EXCEPT ![r] = clock + Skew[r]]
        /\ UNCHANGED results
    BY <1>9 DEF Arrive
  <2>2. Fields' /\ \A q \in Requests \ {r} : Same(q)
    <3>1. clock + Skew[r] \in Int BY <1>1, SkewAssumption DEF Fields
    <3>2. start' \in [Requests -> Int] BY <1>1, <2>1, <3>1 DEF Fields
    <3>3. Fields' BY <1>1, <2>1, <3>2 DEF Fields
    <3>4. \A q \in Requests \ {r} : Same(q) BY <1>1, <1>2, <2>1 DEF Fields, Same
    <3> QED BY <3>3, <3>4
  <2>3. pc'[r] = "arrived" /\ start'[r] = clock + Skew[r] BY <1>1, <1>2, <2>1 DEF Fields
  <2>4. Progress(r)' BY <1>1, <1>3, <1>9, <2>3 DEF Request, Progress
  <2>5. Times(r)' BY <1>1, <2>3, SkewAssumption DEF Times, Fields
  <2>6. Sent(r)' BY <1>1, <1>3, <1>5, <2>3 DEF Request, Sent
  <2>7. Resolved(r)' /\ Replied(r)' BY <2>3 DEF Resolved, Replied
  <2>8. TrueDuplicates(r)' BY <1>1, <1>3, <2>1 DEF Request, TrueDuplicates
  <2>9. Request(r)' BY <1>6, <1>7, <2>4, <2>5, <2>6, <2>7, <2>8 DEF Request
  <2> QED BY <1>1, <2>2, <2>9, StepOf
<1> QED BY <1>8, <1>9

LEMMA BeginRequest ==
    ASSUME RInv, Transactions, NEW r \in Requests, Begin(r)
    PROVE  RInv'
<1>1. /\ pc[r] = "arrived" /\ UNCHANGED <<batch, clock, table, open, todo, start, enqueued, results>>
      /\ pc' = [pc EXCEPT ![r] = "inserting"] /\ began' = [began EXCEPT ![r] = clock]
      /\ Fields /\ Request(r)
  BY DEF Begin, RInv
<1>2. DOMAIN pc = Requests BY DEF Transactions, Shape
<1>3. Items(r)' = Items(r) /\ Tasks(r)' = Tasks(r) /\ Accepted(r)' = Accepted(r)
  BY <1>1, SameBatch
<1>4. open[r] = {} BY <1>1 DEF Transactions, OpenIsConnected, Connected
<1>5. Fields' /\ \A q \in Requests \ {r} : Same(q) BY <1>1, <1>2 DEF Fields, Same
<1>6. pc'[r] = "inserting" /\ began'[r] = clock BY <1>1, <1>2 DEF Fields
<1>7. Progress(r)' BY <1>1, <1>3, <1>6 DEF Request, Progress
<1>8. Times(r)' BY <1>1, <1>6 DEF Request, Times, Fields
<1>9. OpenRows(r)' BY <1>1, <1>4 DEF OpenRows
<1>10. Sent(r)'
  <2>1. todo[r] = Tasks(r) BY <1>1 DEF Request, Progress
  <2>2. \A j \in Tasks(r) : enqueued[r][j] = NULL BY <1>1, <2>1 DEF Request, Sent
  <2> QED BY <1>1, <1>3, <2>1, <2>2 DEF Request, Sent
<1>11. Resolved(r)' /\ Replied(r)' BY <1>6 DEF Resolved, Replied
<1>12. \A row \in table : row.by # r BY <1>1 DEF Request, Committed
<1>13. Committed(r)' /\ Complete(r)' BY <1>1, <1>12 DEF Committed, Complete
<1>14. TrueDuplicates(r)' BY <1>1, <1>3 DEF Request, TrueDuplicates
<1>15. Request(r)' BY <1>7, <1>8, <1>9, <1>10, <1>11, <1>13, <1>14 DEF Request
<1> QED BY <1>1, <1>5, <1>15, StepOf

LEMMA RolledBackRequest ==
    ASSUME RInv, Transactions, NEW r \in Requests, NEW end \in {"aborted", "failed", "cut"},
           pc[r] \in Waiting, RolledBack(r, end)
    PROVE  RInv'
<1>1. /\ UNCHANGED <<batch, clock, table, todo, start, began, enqueued, results>>
      /\ pc' = [pc EXCEPT ![r] = end] /\ open' = [open EXCEPT ![r] = {}]
      /\ Fields /\ Request(r)
  BY DEF RolledBack, RInv
<1>2. DOMAIN pc = Requests /\ DOMAIN open = Requests BY DEF Transactions, Shape
<1>3. Items(r)' = Items(r) /\ Tasks(r)' = Tasks(r) BY <1>1, SameBatch
<1>4. Fields' /\ \A q \in Requests \ {r} : Same(q) BY <1>1, <1>2 DEF Fields, Same
<1>5. pc'[r] = end /\ open'[r] = {} BY <1>1, <1>2
<1>6. Progress(r)' /\ Times(r)' BY <1>1, <1>3, <1>5 DEF Request, Progress, Times
<1>7. OpenRows(r)' BY <1>5 DEF OpenRows
<1>8. Sent(r)' /\ Resolved(r)' /\ Replied(r)' BY <1>1, <1>3, <1>5 DEF Request, Sent, Resolved, Replied
<1>9. \A row \in table : row.by # r BY <1>1 DEF Request, Committed, Waiting
<1>10. Committed(r)' /\ Complete(r)' BY <1>1, <1>9 DEF Committed, Complete
<1>11. TrueDuplicates(r)' BY <1>1, <1>3 DEF Request, TrueDuplicates
<1>12. Request(r)' BY <1>6, <1>7, <1>8, <1>10, <1>11 DEF Request
<1> QED BY <1>1, <1>4, <1>12, StepOf

LEMMA InsertRequest ==
    ASSUME RInv, Transactions, NEW r \in Requests, NEW j \in Tasks(r), Insert(r, j)
    PROVE  RInv'
<1>1. /\ r \in Bulk /\ pc[r] = "inserting" /\ NextTask(r, j)
      /\ UNCHANGED <<batch, clock, table, pc, start, began, results>>
      /\ todo' = [todo EXCEPT ![r] = @ \ {j}]
      /\ Fields /\ Request(r)
  BY DEF Insert, Inserting, RInv
<1>2. DOMAIN pc = Requests /\ DOMAIN open = Requests BY DEF Transactions, Shape
<1>3. Items(r)' = Items(r) /\ Tasks(r)' = Tasks(r) /\ Accepted(r)' = Accepted(r)
      /\ \A l : Row(r, l)' = Row(r, l)
  BY <1>1, SameBatch, SameRow
<1>4. todo'[r] = todo[r] \ {j} BY <1>1 DEF Fields
<1>5. Tasks(r) \subseteq Nat BY <1>1, TaskIsItem DEF Fields
<1>6. Progress(r)'
  <2>1. \A l \in todo[r] \ {j}, m \in Tasks(r) : l <= m => m \in todo[r] \ {j}
    BY <1>1, <1>5 DEF Request, Progress, NextTask
  <2> QED BY <1>1, <1>3, <1>4, <2>1 DEF Request, Progress
<1>7. Times(r)' BY <1>1 DEF Request, Times
<1>8. Resolved(r)' /\ Replied(r)' BY <1>1 DEF Resolved, Replied
<1>9. Committed(r)' /\ Complete(r)'
  BY <1>1, <1>3 DEF Request, Committed, Complete, HasRow
<1>10. TrueDuplicates(r)' BY <1>1, <1>3 DEF Request, TrueDuplicates
<1>11. j \in todo[r] /\ enqueued[r][j] = NULL
  <2>1. j \in todo[r] BY <1>1 DEF NextTask
  <2> QED BY <1>1, <2>1 DEF Request, Sent
<1>12. CASE Visible(r, Accepted(r)[j]) = {}
  <2>1. /\ open' = [open EXCEPT ![r] = @ \cup {Row(r, j)}]
        /\ enqueued' = [enqueued EXCEPT ![r][j] = Row(r, j)]
    BY <1>12 DEF Insert
  <2>2. Fields' /\ \A q \in Requests \ {r} : Same(q) BY <1>1, <1>2, <2>1 DEF Fields, Same
  <2>3. /\ open'[r] = open[r] \cup {Row(r, j)}
        /\ enqueued'[r] = [enqueued[r] EXCEPT ![j] = Row(r, j)]
    BY <1>1, <1>2, <2>1 DEF Fields
  <2>4. OpenRows(r)' BY <1>1, <1>3, <1>4, <2>3 DEF Request, OpenRows
  <2>5. Sent(r)'
    <3>1. \A k : Visible(r, k) \subseteq Visible(r, k)' BY <1>1, <2>3 DEF Visible
    <3>2. DOMAIN enqueued[r] = Tasks(r) BY <1>1 DEF Request, Sent
    <3>3. DOMAIN enqueued'[r] = Tasks(r) BY <2>3, <3>2
    <3>4. enqueued'[r][j] = Row(r, j) /\ \A l \in Tasks(r) \ {j} : enqueued'[r][l] = enqueued[r][l]
      BY <2>3, <3>2
    <3>5. \A l \in Tasks(r) \ {j} :
             \/ enqueued[r][l] = NULL /\ (l \in todo[r] \/ Visible(r, Accepted(r)[l]) # {})
             \/ enqueued[r][l] = Row(r, l) /\ l \notin todo[r] /\ Row(r, l) \in open[r]
      BY <1>1 DEF Request, Sent
    <3>6. \A l \in Tasks(r) :
             \/ enqueued'[r][l] = NULL /\ (l \in todo'[r] \/ Visible(r, Accepted(r)[l])' # {})
             \/ enqueued'[r][l] = Row(r, l) /\ l \notin todo'[r] /\ Row(r, l) \in open'[r]
      BY <1>3, <1>4, <2>3, <3>1, <3>4, <3>5
    <3> QED BY <1>3, <3>3, <3>6 DEF Sent
  <2>6. Request(r)' BY <1>6, <1>7, <1>8, <1>9, <1>10, <2>4, <2>5 DEF Request
  <2> QED BY <1>1, <2>2, <2>6, StepOf
<1>13. CASE Visible(r, Accepted(r)[j]) # {}
  <2>1. UNCHANGED <<open, enqueued>> BY <1>13 DEF Insert
  <2>2. Fields' /\ \A q \in Requests \ {r} : Same(q) BY <1>1, <1>2, <2>1 DEF Fields, Same
  <2>3. OpenRows(r)' BY <1>1, <1>3, <1>4, <2>1 DEF Request, OpenRows
  <2>4. Sent(r)'
    <3>1. \A k : Visible(r, k) = Visible(r, k)' BY <1>1, <2>1 DEF Visible
    <3> QED BY <1>1, <1>3, <1>4, <1>11, <1>13, <2>1, <3>1 DEF Request, Sent
  <2>5. Request(r)' BY <1>6, <1>7, <1>8, <1>9, <1>10, <2>3, <2>4 DEF Request
  <2> QED BY <1>1, <2>2, <2>5, StepOf
<1> QED BY <1>12, <1>13

(* A row of this request is one that NULL does not stand for.              *)
LEMMA RowIsNotNull ==
    ASSUME Fields, NEW r \in Requests, NEW j \in Tasks(r)
    PROVE  Row(r, j) # NULL /\ Row(r, j).key = Accepted(r)[j] /\ Row(r, j).by = r /\ Row(r, j).task = j
<1>1. j \in Nat /\ Accepted(r)[j] \in Keys \cup {NULL} /\ began[r] \in Nat
  BY TaskIsItem DEF Fields
<1>2. Row(r, j) \in [by : Requests, task : Nat, key : Keys \cup {NULL}, created : Nat]
  BY <1>1 DEF Row
<1>3. Row(r, j) # NULL BY <1>2, KeyAssumption
<1> QED BY <1>3 DEF Row

LEMMA ResolveRequest ==
    ASSUME RInv, Transactions, NEW r \in Requests, Resolve(r)
    PROVE  RInv'
<1> DEFINE found(j) == IF enqueued[r][j] # NULL THEN enqueued[r][j]
                       ELSE CHOOSE row \in Visible(r, Accepted(r)[j]) : TRUE
<1>1. /\ pc[r] = "inserting" /\ todo[r] = {}
      /\ UNCHANGED <<batch, clock, table, open, todo, start, began, results>>
      /\ enqueued' = [enqueued EXCEPT ![r] = [j \in Tasks(r) |-> found(j)]]
      /\ pc' = [pc EXCEPT ![r] = "committing"]
      /\ Fields /\ Request(r)
  BY DEF Resolve, RInv
<1>2. DOMAIN pc = Requests /\ DOMAIN open = Requests BY DEF Transactions, Shape
<1>3. Items(r)' = Items(r) /\ Tasks(r)' = Tasks(r) /\ Accepted(r)' = Accepted(r)
      /\ \A l : Row(r, l)' = Row(r, l)
  BY <1>1, SameBatch, SameRow
<1>4. pc'[r] = "committing" /\ enqueued'[r] = [j \in Tasks(r) |-> found(j)]
  BY <1>1, <1>2 DEF Fields
<1>5. \A j \in Tasks(r) :
         /\ found(j) \in table \cup open[r] /\ found(j).key = Accepted(r)[j]
         /\ Accepted(r)[j] = NULL => found(j) = Row(r, j)
  <2> SUFFICES ASSUME NEW j \in Tasks(r)
               PROVE  /\ found(j) \in table \cup open[r] /\ found(j).key = Accepted(r)[j]
                      /\ Accepted(r)[j] = NULL => found(j) = Row(r, j)
    OBVIOUS
  <2>1. \/ enqueued[r][j] = NULL /\ Visible(r, Accepted(r)[j]) # {}
        \/ enqueued[r][j] = Row(r, j) /\ Row(r, j) \in open[r]
    BY <1>1 DEF Request, Sent
  <2>2. CASE enqueued[r][j] = NULL /\ Visible(r, Accepted(r)[j]) # {}
    <3>1. found(j) \in Visible(r, Accepted(r)[j]) BY <2>2
    <3> QED BY <3>1 DEF Visible
  <2>3. CASE enqueued[r][j] = Row(r, j) /\ Row(r, j) \in open[r]
    BY <1>1, <2>3, RowIsNotNull
  <2> QED BY <2>1, <2>2, <2>3
<1> HIDE DEF found
<1>6. Fields' /\ \A q \in Requests \ {r} : Same(q) BY <1>1, <1>2 DEF Fields, Same
<1>7. Progress(r)' /\ Times(r)' BY <1>1, <1>3, <1>4 DEF Request, Progress, Times
<1>8. OpenRows(r)' BY <1>1, <1>3 DEF Request, OpenRows
<1>9. Sent(r)' /\ Replied(r)' BY <1>3, <1>4 DEF Sent, Replied
<1>10. Resolved(r)' BY <1>1, <1>3, <1>4, <1>5 DEF Resolved
<1>11. \A row \in table : row.by # r BY <1>1 DEF Request, Committed
<1>12. Committed(r)' /\ Complete(r)' BY <1>1, <1>11 DEF Committed, Complete
<1>13. TrueDuplicates(r)' BY <1>1, <1>3 DEF Request, TrueDuplicates
<1>14. Request(r)' BY <1>7, <1>8, <1>9, <1>10, <1>12, <1>13 DEF Request
<1> QED BY <1>1, <1>6, <1>14, StepOf

(* The end of a request that wrote what it had to: whether the reply gets  *)
(* through or not, the rows stay.                                          *)
LEMMA ReplyRequest ==
    ASSUME RInv, Transactions, NEW r \in Requests, NEW response, Reply(r, response),
           UNCHANGED <<batch, clock, start, began>>,
           open'[r] = {}, \A q \in Requests \ {r} : open'[q] = open[q],
           Fields', \A q \in Requests \ {r} : todo'[q] = todo[q] /\ enqueued'[q] = enqueued[q],
           todo'[r] = {}, DOMAIN enqueued'[r] = Tasks(r),
           table \subseteq table', \A row \in table' \ table : row.by = r,
           Complete(r)',
           \A i \in Items(r) :
              IF batch[r][i] = INVALID
              THEN response[i] = [status |-> "invalid", row |-> NULL]
              ELSE /\ response[i].row \in table' /\ response[i].row.key = batch[r][i]
                   /\ batch[r][i] = NULL => response[i].row.by = r
                   /\ NotAhead(r) /\ response[i].status = "duplicate" => response[i].row.by # r
    PROVE  RInv'
<1>1. Fields /\ Request(r) BY DEF RInv
<1>2. DOMAIN pc = Requests /\ DOMAIN open = Requests BY DEF Transactions, Shape
<1>3. Items(r)' = Items(r) /\ Tasks(r)' = Tasks(r) BY SameBatch
<1>4. pc'[r] \in {"answered", "failed"} BY <1>2, ReplyEnds
<1>5. \A q \in Requests \ {r} : pc'[q] = pc[q] /\ results'[q] = results[q]
  BY <1>1, <1>2 DEF Reply, Fields
<1>6. \A q \in Requests \ {r} : Same(q) BY <1>2, <1>5 DEF Same
<1>7. Progress(r)' /\ Times(r)' BY <1>1, <1>4 DEF Request, Progress, Times
<1>8. OpenRows(r)' /\ Sent(r)' /\ Resolved(r)' BY <1>3, <1>4 DEF OpenRows, Sent, Resolved
<1>9. Committed(r)' BY <1>4 DEF Committed
<1>10. Replied(r)' /\ TrueDuplicates(r)'
  <2>1. CASE pc' = [pc EXCEPT ![r] = "answered"] /\ results' = [results EXCEPT ![r] = response]
    <3>1. results'[r] = response BY <1>1, <2>1 DEF Fields
    <3>2. Replied(r)' BY <1>3, <3>1 DEF Replied, Answered
    <3>3. TrueDuplicates(r)' BY <1>3, <3>1 DEF TrueDuplicates
    <3> QED BY <3>2, <3>3
  <2>2. CASE pc' = [pc EXCEPT ![r] = "failed"] /\ UNCHANGED results
    <3>1. pc'[r] = "failed" BY <1>2, <2>2
    <3>2. Replied(r)' BY <3>1 DEF Replied
    <3>3. TrueDuplicates(r)' BY <1>1, <1>3, <2>2 DEF Request, TrueDuplicates
    <3> QED BY <3>2, <3>3
  <2> QED BY <2>1, <2>2 DEF Reply
<1>11. Request(r)' BY <1>7, <1>8, <1>9, <1>10 DEF Request
<1> QED BY <1>6, <1>11, StepOf

LEMMA CommitRequest ==
    ASSUME RInv, Transactions, NEW r \in Requests, Commit(r)
    PROVE  RInv'
<1>1. /\ pc[r] = "committing" /\ UNCHANGED <<batch, clock, todo, start, began, enqueued>>
      /\ table' = table \cup open[r] /\ open' = [open EXCEPT ![r] = {}]
      /\ Reply(r, BulkResults(r)) /\ Fields /\ Request(r)
  BY DEF Commit, RInv
<1>2. Fields' BY <1>1 DEF Fields, Reply
<1>3. /\ \A j \in Tasks(r) : Accepted(r)[j] = NULL => enqueued[r][j] = Row(r, j)
      /\ \A j \in Tasks(r) : enqueued[r][j] \in table' /\ enqueued[r][j].key = Accepted(r)[j]
  BY <1>1 DEF Request, Resolved
<1>4. \A row \in open[r] : row.by = r /\ row.created = began[r]
  BY <1>1 DEF Request, OpenRows, Row
<1>5. Complete(r)'
  <2>1. Tasks(r)' = Tasks(r) /\ Accepted(r)' = Accepted(r) BY <1>1, SameBatch
  <2>2. \A j \in Tasks(r) : \E row \in table' :
           (row.by = r /\ row.task = j) \/ (row.key # NULL /\ row.key = Accepted(r)[j])
    <3> SUFFICES ASSUME NEW j \in Tasks(r)
                 PROVE  LET row == enqueued[r][j]
                        IN  (row.by = r /\ row.task = j) \/ (row.key # NULL /\ row.key = Accepted(r)[j])
      BY <1>3
    <3> QED BY <1>1, <1>3, RowIsNotNull
  <2> QED BY <2>1, <2>2 DEF Complete, HasRow
<1>6. ASSUME NEW i \in Items(r)
      PROVE  IF batch[r][i] = INVALID
             THEN BulkResults(r)[i] = [status |-> "invalid", row |-> NULL]
             ELSE /\ BulkResults(r)[i].row \in table' /\ BulkResults(r)[i].row.key = batch[r][i]
                  /\ batch[r][i] = NULL => BulkResults(r)[i].row.by = r
                  /\ NotAhead(r) /\ BulkResults(r)[i].status = "duplicate" => BulkResults(r)[i].row.by # r
  <2>1. CASE batch[r][i] = INVALID
    <3>1. ~ \E j \in Tasks(r) : Valid(r)[j] = i BY <1>1, <2>1, TaskIsItem DEF ValidItems, Fields
    <3> QED BY <2>1, <3>1 DEF BulkResults, Refused
  <2>2. CASE batch[r][i] # INVALID
    <3> DEFINE t == CHOOSE j \in Tasks(r) : Valid(r)[j] = i
               row == enqueued[r][t]
    <3>1. \E j \in Tasks(r) : Valid(r)[j] = i BY <1>1, <2>2, ItemHasTask DEF ValidItems, Fields
    <3>2. t \in Tasks(r) /\ Valid(r)[t] = i BY <3>1
    <3>3. BulkResults(r)[i] = [status |-> StatusOf(r, row), row |-> row] BY <3>1 DEF BulkResults
    <3> HIDE DEF t
    <3>4. Accepted(r)[t] = batch[r][i] BY <1>1, <3>2, TaskIsItem DEF Fields
    <3>5. row \in table' /\ row.key = batch[r][i] BY <1>3, <3>2, <3>4
    <3>6. batch[r][i] = NULL => row.by = r BY <1>1, <1>3, <3>2, <3>4, RowIsNotNull
    <3>7. NotAhead(r) /\ StatusOf(r, row) = "duplicate" => row.by # r
      <4> SUFFICES ASSUME NotAhead(r), StatusOf(r, row) = "duplicate", row.by = r
                   PROVE  FALSE
        OBVIOUS
      <4>1. row.created < start[r] BY DEF StatusOf
      <4>2. row \notin table BY <1>1 DEF Request, Committed
      <4>3. row.created = began[r] BY <1>1, <1>4, <3>5, <4>2
      <4>4. Skew[r] <= 0 BY <1>1 DEF Request, Progress, NotAhead
      <4>5. start[r] <= began[r] /\ start[r] \in Int /\ began[r] \in Nat
        BY <1>1, <4>4 DEF Request, Times, Fields
      <4> QED BY <4>1, <4>3, <4>5
    <3> HIDE DEF row
    <3> QED BY <2>2, <3>3, <3>5, <3>6, <3>7
  <2> QED BY <2>1, <2>2
<1>7. todo'[r] = {} BY <1>1 DEF Request, Progress
<1>8. DOMAIN enqueued'[r] = Tasks(r) BY <1>1 DEF Request, Sent
<1>9. open'[r] = {} /\ \A q \in Requests \ {r} : open'[q] = open[q]
  BY <1>1 DEF Transactions, Shape
<1> QED BY <1>1, <1>2, <1>4, <1>5, <1>6, <1>7, <1>8, <1>9, ReplyRequest

LEMMA SubmitTaskRequest ==
    ASSUME RInv, Transactions, NEW r \in Requests, SubmitTask(r)
    PROVE  RInv'
<1>1. /\ r \notin Bulk /\ pc[r] = "inserting" /\ todo[r] # {}
      /\ UNCHANGED <<batch, clock, open, start, began>>
      /\ todo' = [todo EXCEPT ![r] = {}]
      /\ Fields /\ Request(r)
  BY DEF SubmitTask, Inserting, RInv
<1>2. DOMAIN pc = Requests /\ DOMAIN open = Requests BY DEF Transactions, Shape
<1>3. open[r] = {} BY <1>1 DEF Transactions, SinglesHaveNone
<1>4. Tasks(r) = {1} /\ ValidItems(r) = {1} /\ Items(r) = {1} /\ batch[r][1] # INVALID
  <2>1. Tasks(r) # {} BY <1>1 DEF Request, Progress
  <2>2. Tasks(r) = {1} /\ ValidItems(r) = {1} BY <1>1, <2>1, NoTaskNoItem DEF Fields
  <2> QED BY <1>1, <2>2, ItemsFinite DEF ValidItems, Fields
<1>5. Accepted(r)[1] = batch[r][1]
  <2>1. Valid(r)[1] = 1 /\ Accepted(r)[1] = batch[r][Valid(r)[1]]
    BY <1>1, <1>4, TaskIsItem DEF Fields
  <2> QED BY <2>1
<1>6. todo'[r] = {} /\ DOMAIN enqueued[r] = Tasks(r) BY <1>1 DEF Request, Sent, Fields
<1>7. /\ Items(r)' = Items(r) /\ Tasks(r)' = Tasks(r) /\ Accepted(r)' = Accepted(r)
  BY <1>1, SameBatch
<1>8. CASE Visible(r, Accepted(r)[1]) = {}
  <2> DEFINE response == <<[status |-> "created", row |-> Row(r, 1)]>>
  <2>1. /\ table' = table \cup {Row(r, 1)}
        /\ enqueued' = [enqueued EXCEPT ![r][1] = Row(r, 1)]
        /\ Reply(r, response)
    BY <1>8 DEF SubmitTask
  <2>2. Row(r, 1).key = batch[r][1] /\ Row(r, 1).by = r /\ Row(r, 1).task = 1
    BY <1>1, <1>4, <1>5, RowIsNotNull
  <2>3. Fields' BY <1>1, <2>1 DEF Fields, Reply
  <2>4. enqueued'[r] = [enqueued[r] EXCEPT ![1] = Row(r, 1)] BY <1>1, <2>1 DEF Fields
  <2>5. DOMAIN enqueued'[r] = Tasks(r) BY <1>6, <2>4
  <2>6. Complete(r)' BY <1>4, <1>7, <2>1, <2>2 DEF Complete, HasRow
  <2>7. open'[r] = {} BY <1>1, <1>3
  <2>8. response[1].row = Row(r, 1) /\ response[1].status = "created" OBVIOUS
  <2> HIDE DEF response
  <2>9. \A i \in Items(r) :
           IF batch[r][i] = INVALID
           THEN response[i] = [status |-> "invalid", row |-> NULL]
           ELSE /\ response[i].row \in table' /\ response[i].row.key = batch[r][i]
                /\ batch[r][i] = NULL => response[i].row.by = r
                /\ NotAhead(r) /\ response[i].status = "duplicate" => response[i].row.by # r
    BY <1>4, <2>1, <2>2, <2>8
  <2>10. \A q \in Requests \ {r} : todo'[q] = todo[q] /\ enqueued'[q] = enqueued[q]
    BY <1>1, <2>1 DEF Fields
  <2> QED BY <1>1, <1>6, <2>1, <2>2, <2>3, <2>5, <2>6, <2>7, <2>9, <2>10, ReplyRequest
<1>9. CASE Visible(r, Accepted(r)[1]) # {}
  <2>1. pc' = [pc EXCEPT ![r] = "selecting"] /\ UNCHANGED <<table, enqueued, results>>
    BY <1>9 DEF SubmitTask
  <2>2. Fields' /\ \A q \in Requests \ {r} : Same(q) BY <1>1, <1>2, <2>1 DEF Fields, Same
  <2>3. pc'[r] = "selecting" BY <1>2, <2>1
  <2>4. Progress(r)' /\ Times(r)' BY <1>1, <1>4, <1>6, <1>7, <2>3 DEF Request, Progress, Times
  <2>5. OpenRows(r)' /\ Sent(r)' BY <1>1, <1>3, <1>6, <1>7, <2>1, <2>3 DEF OpenRows, Sent
  <2>6. Resolved(r)' /\ Replied(r)' BY <2>3 DEF Resolved, Replied
  <2>7. \A row \in table : row.by # r BY <1>1 DEF Request, Committed
  <2>8. Committed(r)' /\ Complete(r)' BY <2>1, <2>7 DEF Committed, Complete
  <2>9. TrueDuplicates(r)' BY <1>1, <1>7, <2>1 DEF Request, TrueDuplicates
  <2>10. Request(r)' BY <2>4, <2>5, <2>6, <2>8, <2>9 DEF Request
  <2> QED BY <1>1, <2>1, <2>2, <2>10, StepOf
<1> QED BY <1>8, <1>9

LEMMA SelectExistingRequest ==
    ASSUME RInv, Transactions, NEW r \in Requests, SelectExisting(r)
    PROVE  RInv'
<1>1. /\ pc[r] = "selecting" /\ UNCHANGED <<batch, clock, table, open, todo, start, began>>
      /\ Fields /\ Request(r)
  BY DEF SelectExisting, RInv
<1>2. PICK row \in Visible(r, Accepted(r)[1]) :
         /\ enqueued' = [enqueued EXCEPT ![r][1] = row]
         /\ Reply(r, <<[status |-> "duplicate", row |-> row]>>)
  BY DEF SelectExisting
<1>3. r \notin Bulk /\ Tasks(r) # {} /\ todo[r] = {} BY <1>1 DEF Request, Progress
<1>4. Tasks(r) = {1} /\ ValidItems(r) = {1} /\ Items(r) = {1} /\ batch[r][1] # INVALID
  <2>1. Tasks(r) = {1} /\ ValidItems(r) = {1} BY <1>1, <1>3, NoTaskNoItem DEF Fields
  <2> QED BY <1>1, <1>3, <2>1, ItemsFinite DEF ValidItems, Fields
<1>5. Accepted(r)[1] = batch[r][1]
  <2>1. Valid(r)[1] = 1 /\ Accepted(r)[1] = batch[r][Valid(r)[1]]
    BY <1>1, <1>4, TaskIsItem DEF Fields
  <2> QED BY <2>1
<1>6. open[r] = {} BY <1>1 DEF Transactions, OpenIsConnected, Connected
<1>7. row \in table /\ row.key = batch[r][1] /\ batch[r][1] # NULL BY <1>2, <1>5, <1>6 DEF Visible
<1>8. \A other \in table : other.by # r BY <1>1 DEF Request, Committed
<1>9. Fields' BY <1>1, <1>2 DEF Fields, Reply
<1>10. DOMAIN enqueued'[r] = Tasks(r)
  <2>1. enqueued'[r] = [enqueued[r] EXCEPT ![1] = row] BY <1>1, <1>2 DEF Fields
  <2> QED BY <1>1, <2>1 DEF Request, Sent
<1>11. Complete(r)' BY <1>1, <1>8 DEF Complete
<1>12. open'[r] = {} BY <1>1, <1>6
<1> DEFINE response == <<[status |-> "duplicate", row |-> row]>>
<1>13. response[1].row = row /\ response[1].status = "duplicate" OBVIOUS
<1>14. Reply(r, response) BY <1>2
<1> HIDE DEF response
<1>15. \A i \in Items(r) :
          IF batch[r][i] = INVALID
          THEN response[i] = [status |-> "invalid", row |-> NULL]
          ELSE /\ response[i].row \in table' /\ response[i].row.key = batch[r][i]
               /\ batch[r][i] = NULL => response[i].row.by = r
               /\ NotAhead(r) /\ response[i].status = "duplicate" => response[i].row.by # r
  BY <1>1, <1>4, <1>7, <1>8, <1>13
<1>16. \A q \in Requests \ {r} : todo'[q] = todo[q] /\ enqueued'[q] = enqueued[q]
  BY <1>1, <1>2 DEF Fields
<1> QED BY <1>1, <1>3, <1>9, <1>10, <1>11, <1>12, <1>14, <1>15, <1>16, ReplyRequest

(* Steps that change nothing of any request, or let time pass.             *)
LEMMA ProcessRequest ==
    ASSUME RInv, Transactions,
           Boot \/ StartShutdown \/ ServeError \/ Drained \/ GraceExpires \/ Signal
           \/ ListenerFails \/ Pass \/ UNCHANGED avars
    PROVE  RInv'
<1>1. UNCHANGED <<batch, table, open, pc, todo, start, began, enqueued, results>>
      /\ (clock' = clock \/ clock' = clock + 1)
  BY DEF Boot, PingSucceeds, PingFails, GiveUp, StartShutdown, ServeError, Drained, GraceExpires,
         Signal, ListenerFails, Pass, Tick, vars, avars
<1>2. clock' \in Nat /\ clock <= clock' BY <1>1 DEF RInv, Fields
<1>3. \A q \in Requests : Request(q)' BY <1>1, <1>2, Bystander DEF Same
<1>4. Fields' BY <1>1, <1>2 DEF RInv, Fields
<1> QED BY <1>3, <1>4 DEF RInv

LEMMA ExitRequest ==
    ASSUME RInv, Transactions, Exit
    PROVE  RInv'
<1>1. /\ Connected = {} /\ pc' = [r \in Requests |-> IF r \in Active THEN "cut" ELSE pc[r]]
      /\ UNCHANGED <<batch, clock, table, open, todo, start, began, enqueued, results>>
  BY DEF Exit
<1>2. Fields' BY <1>1 DEF RInv, Fields
<1>3. ASSUME NEW q \in Requests PROVE Request(q)'
  <2>1. CASE q \notin Active
    <3>1. Same(q) /\ clock' \in Nat /\ clock <= clock' BY <1>1, <2>1 DEF Same, RInv, Fields
    <3> QED BY <1>1, <3>1, Bystander
  <2>2. CASE q \in Active
    <3>1. pc'[q] = "cut" /\ pc[q] \notin {"answered", "failed"} /\ Request(q)
      BY <1>1, <2>2 DEF Active, Ended, RInv
    <3>2. open[q] = {} BY <1>1 DEF Transactions, OpenIsConnected
    <3>3. Items(q)' = Items(q) /\ Tasks(q)' = Tasks(q) BY <1>1, SameBatch
    <3>4. Progress(q)' /\ Times(q)' BY <1>1, <3>1, <3>3 DEF Request, Progress, Times
    <3>5. OpenRows(q)' /\ Sent(q)' BY <1>1, <3>1, <3>2, <3>3 DEF Request, OpenRows, Sent
    <3>6. Resolved(q)' /\ Replied(q)' BY <3>1 DEF Resolved, Replied
    <3>7. \A row \in table : row.by # q BY <3>1 DEF Request, Committed
    <3>8. Committed(q)' /\ Complete(q)' BY <1>1, <3>7 DEF Committed, Complete
    <3>9. TrueDuplicates(q)' BY <1>1, <3>1, <3>3 DEF Request, TrueDuplicates
    <3> QED BY <3>4, <3>5, <3>6, <3>8, <3>9 DEF Request
  <2> QED BY <2>1, <2>2
<1> QED BY <1>2, <1>3 DEF RInv

LEMMA ServeRequest ==
    ASSUME RInv, Transactions, NEW r \in Requests, Receive(r) \/ Serve(r) \/ Break(r)
    PROVE  RInv'
<1>1. CASE Receive(r) BY <1>1, ArriveRequest DEF Receive
<1>2. CASE Connect(r) BY <1>2, BeginRequest, SelectExistingRequest DEF Connect
<1>3. CASE TurnedAway(r)
  <2>1. pc[r] \in Waiting BY <1>3 DEF TurnedAway, Waiting
  <2> QED BY <1>3, <2>1, RolledBackRequest DEF TurnedAway
<1>4. CASE Proceed(r)
  <2>1. CASE AbortVictim(r)
    <3>1. pc[r] \in Waiting BY <1>4, ServeMoves DEF Serve
    <3> QED BY <2>1, <3>1, RolledBackRequest DEF AbortVictim
  <2> QED BY <1>4, <2>1, InsertRequest, ResolveRequest, CommitRequest, SubmitTaskRequest
          DEF Proceed, Execute
<1>5. CASE Break(r)
  <2>1. pc[r] \in Waiting BY <1>5 DEF Break, Fail, Waiting
  <2> QED BY <1>5, <2>1, RolledBackRequest DEF Break, Fail
<1> QED BY <1>1, <1>2, <1>3, <1>4, <1>5 DEF Serve

LEMMA RInitEstablishes == AInit => RInv
<1> SUFFICES ASSUME AInit PROVE RInv OBVIOUS
<1>1. /\ batch \in Batches /\ clock = 0 /\ table = {}
      /\ open = [r \in Requests |-> {}] /\ pc = [r \in Requests |-> "idle"]
      /\ todo = [r \in Requests |-> Tasks(r)]
      /\ start = [r \in Requests |-> 0] /\ began = [r \in Requests |-> 0]
      /\ enqueued = [r \in Requests |-> [j \in Tasks(r) |-> NULL]]
      /\ results = [r \in Requests |-> [i \in Items(r) |-> NULL]]
  BY DEF AInit, Init
<1>2. Fields BY <1>1 DEF Fields
<1>3. ASSUME NEW r \in Requests PROVE Request(r)
  <2>1. Progress(r) /\ Times(r) BY <1>1 DEF Progress, Times
  <2>2. OpenRows(r) /\ Sent(r) /\ Resolved(r) BY <1>1 DEF OpenRows, Sent, Resolved
  <2>3. Replied(r) /\ Committed(r) /\ Complete(r) BY <1>1 DEF Replied, Committed, Complete
  <2>4. TrueDuplicates(r) BY <1>1 DEF TrueDuplicates
  <2> QED BY <2>1, <2>2, <2>3, <2>4 DEF Request
<1> QED BY <1>2, <1>3 DEF RInv

LEMMA RStepPreserves == AInv /\ RInv /\ [ANext]_avars => RInv'
<1> SUFFICES ASSUME AInv, RInv, [ANext]_avars PROVE RInv' OBVIOUS
<1>1. Transactions BY DEF AInv
<1> QED BY <1>1, ProcessRequest, ExitRequest, ServeRequest DEF ANext, Main

(* What submitTasksBulk has sent, resolved, committed and answered fits     *)
(* together for each request, at every step of all the others.             *)
THEOREM RequestsInvariant == ASpec => []RInv
<1>1. ASpec => []AInv BY ProcessInvariant
<1> QED BY <1>1, RInitEstablishes, RStepPreserves, PTL DEF ASpec

(* A batch is written as a whole or not at all, and the answer says what   *)
(* became of each item: whatever was submitted, whoever else submitted it, *)
(* and wherever a request, or the process, is cut off.                     *)
THEOREM BatchesWhole == ASpec => []AllOrNothing
<1>1. RInv => AllOrNothing
  <2> SUFFICES ASSUME RInv, NEW r \in Requests
               PROVE  LET mine == {row \in table : row.by = r}
                      IN  /\ pc[r] = "answered" => \A i \in Items(r) : Answered(r, i)
                          /\ pc[r] \notin {"answered", "failed"} => mine = {}
                          /\ mine # {} => \A j \in Tasks(r) : HasRow(r, j)
    BY DEF AllOrNothing, HasRow
  <2> QED BY DEF RInv, Request, Replied, Committed, Complete
<1> QED BY <1>1, RequestsInvariant, PTL

(* An item reported as a duplicate was inserted by another request, for    *)
(* every single submission, and for a bulk submission whenever the clock   *)
(* of the API's host was not ahead of the database's as it arrived.        *)
THEOREM DuplicatesTrue == ASpec => []DuplicateIsTrue
<1>1. RInv => DuplicateIsTrue BY DEF RInv, Request, TrueDuplicates, DuplicateIsTrue
<1> QED BY <1>1, RequestsInvariant, PTL

-----------------------------------------------------------------------------
(* Batches that list their keys in one order never wait in a circle.  Of   *)
(* those in a circle take the one that waits for the greatest key: whoever *)
(* holds that key has sent it already and waits for a later one.           *)
LEMMA NoCircle ==
    ASSUME RInv, Transactions, OneOrder, NEW r \in Requests, Deadlocked(r)
    PROVE  FALSE
<1>1. PICK S \in SUBSET Requests : r \in S /\ \A s \in S : WaitsFor(s) \cap S # {}
  BY DEF Deadlocked
<1>2. PICK rank \in [Keys -> 1..Cardinality(Keys)] :
         \A q \in Requests : \A i, l \in Items(q) :
            (i < l /\ batch[q][i] \in Keys /\ batch[q][l] \in Keys /\ batch[q][i] # batch[q][l])
                => rank[batch[q][i]] < rank[batch[q][l]]
  BY DEF OneOrder
<1> DEFINE Waits(s, j, u) == /\ todo[s] \subseteq Tasks(s) /\ NextTask(s, j)
                             /\ u \in S \cap InDoubt(s, Accepted(s)[j])
           V == {n \in 1..Cardinality(Keys) :
                    \E s \in S : \E j \in Tasks(s) : \E u \in S :
                        Waits(s, j, u) /\ n = rank[Accepted(s)[j]]}
<1>3. Fields /\ \A s \in S : todo[s] \subseteq Tasks(s) BY DEF RInv, Request, Progress
<1>4. \A s \in S : \E j \in Tasks(s) : \E u \in S : Waits(s, j, u)
  <2> SUFFICES ASSUME NEW s \in S PROVE \E j \in Tasks(s) : \E u \in S : Waits(s, j, u)
    OBVIOUS
  <2>1. PICK u \in S : u \in WaitsFor(s) BY <1>1
  <2>2. PICK j \in todo[s] : NextTask(s, j) /\ u \in InDoubt(s, Accepted(s)[j])
    BY <2>1 DEF WaitsFor
  <2> QED BY <1>3, <2>2
<1>5. \A s \in S : \A j \in Tasks(s) : \A u \in S : Waits(s, j, u) =>
         /\ Accepted(s)[j] \in Keys
         /\ u # s /\ \E l \in Tasks(u) \ todo[u] :
                        Row(u, l) \in open[u] /\ Accepted(u)[l] = Accepted(s)[j]
  <2> SUFFICES ASSUME NEW s \in S, NEW j \in Tasks(s), NEW u \in S, Waits(s, j, u)
               PROVE  /\ Accepted(s)[j] \in Keys
                      /\ u # s /\ \E l \in Tasks(u) \ todo[u] :
                            Row(u, l) \in open[u] /\ Accepted(u)[l] = Accepted(s)[j]
    OBVIOUS
  <2>1. PICK row \in open[u] : u # s /\ Accepted(s)[j] # NULL /\ row.key = Accepted(s)[j]
    BY DEF InDoubt
  <2>2. PICK l \in Tasks(u) \ todo[u] : row = Row(u, l) BY DEF RInv, Request, OpenRows
  <2>3. Accepted(s)[j] \in Keys BY <1>3, <2>1, TaskIsItem DEF Fields
  <2>4. Row(u, l).key = Accepted(u)[l] BY <1>3, RowIsNotNull
  <2> QED BY <2>1, <2>2, <2>3, <2>4
<1> HIDE DEF Waits
<1>6. \A s \in S : \A j \in Tasks(s) : \A u \in S : Waits(s, j, u) => rank[Accepted(s)[j]] \in V
  BY <1>2, <1>5
<1>7. V # {} BY <1>1, <1>4, <1>6
<1>8. V \subseteq Int /\ IsFiniteSet(V)
  <2>1. Cardinality(Keys) \in Nat BY KeyAssumption, FS_CardinalityType
  <2>2. IsFiniteSet(1..Cardinality(Keys)) BY <2>1, FS_Interval
  <2> QED BY <2>1, <2>2, FS_Subset
<1>9. PICK m \in V : \A n \in V : n <= m BY <1>7, <1>8, HasGreatest
<1>10. PICK s \in S : \E j \in Tasks(s) : \E u \in S : Waits(s, j, u) /\ m = rank[Accepted(s)[j]]
  OBVIOUS
<1>11. PICK j \in Tasks(s), u \in S : Waits(s, j, u) /\ m = rank[Accepted(s)[j]] BY <1>10
<1>12. PICK l \in Tasks(u) \ todo[u] :
          Row(u, l) \in open[u] /\ Accepted(u)[l] = Accepted(s)[j] /\ Accepted(u)[l] \in Keys
  BY <1>5, <1>11
<1>13. PICK h \in Tasks(u), w \in S : Waits(u, h, w) BY <1>4
<1>14. PICK g \in Tasks(w) \ todo[w] :
          /\ Row(w, g) \in open[w] /\ Accepted(w)[g] = Accepted(u)[h]
          /\ Accepted(u)[h] \in Keys /\ w # u
  BY <1>5, <1>13
<1>15. Accepted(u)[l] # Accepted(u)[h]
  <2> SUFFICES ASSUME Accepted(u)[l] = Accepted(u)[h] PROVE FALSE OBVIOUS
  <2>1. /\ Row(u, l).key = Accepted(u)[l] /\ Row(u, l).by = u
        /\ Row(w, g).key = Accepted(w)[g] /\ Row(w, g).by = w
    BY <1>3, RowIsNotNull
  <2>2. Row(u, l).key # NULL /\ Row(u, l).key = Row(w, g).key
    BY <1>12, <1>14, <2>1, KeyAssumption
  <2>3. Row(u, l) \in Rows /\ Row(w, g) \in Rows BY <1>12, <1>14 DEF Rows
  <2>4. \A a, b \in Rows : (a.key # NULL /\ a.key = b.key) => a = b
    BY DEF Transactions, KeyInsertedOnce, Rows
  <2>5. Row(u, l) = Row(w, g) BY <2>2, <2>3, <2>4
  <2> QED BY <1>14, <2>1, <2>5
<1>16. l < h
  <2>1. h \in todo[u] BY <1>13 DEF Waits, NextTask
  <2>2. l \in Nat /\ h \in Nat BY <1>3, TaskIsItem DEF Fields
  <2>3. h <= l => l \in todo[u] BY <2>1 DEF RInv, Request, Progress
  <2> QED BY <2>2, <2>3
<1>17. rank[Accepted(u)[l]] < rank[Accepted(u)[h]]
  <2>1. Valid(u)[l] < Valid(u)[h] BY <1>3, <1>16, TasksInOrder DEF Fields
  <2>2. /\ Valid(u)[l] \in Items(u) /\ Accepted(u)[l] = batch[u][Valid(u)[l]]
        /\ Valid(u)[h] \in Items(u) /\ Accepted(u)[h] = batch[u][Valid(u)[h]]
    BY <1>3, TaskIsItem DEF ValidItems, Fields
  <2> QED BY <1>2, <1>12, <1>14, <1>15, <2>1, <2>2
<1>18. rank[Accepted(u)[h]] <= m BY <1>6, <1>9, <1>13
<1> HIDE DEF V
<1>19. rank[Accepted(u)[h]] \in Int /\ m \in Int BY <1>6, <1>8, <1>13
<1> QED BY <1>11, <1>12, <1>17, <1>18, <1>19

(* Hence nobody is ever aborted for a deadlock, as long as there is an     *)
(* order that all the batches keep.                                        *)
LEMMA OrderKept ==
    AInv /\ RInv /\ OrderedBatchesAccepted /\ [ANext]_avars => OrderedBatchesAccepted'
<1> SUFFICES ASSUME AInv, RInv, OrderedBatchesAccepted, [ANext]_avars, OneOrder',
                    NEW q \in Requests
             PROVE  pc'[q] # "aborted"
  BY DEF OrderedBatchesAccepted
<1>1. batch' = batch
  <2>1. CASE Main \/ Signal \/ ListenerFails \/ GraceExpires \/ Pass \/ UNCHANGED avars
    BY <2>1 DEF Main, Boot, PingSucceeds, PingFails, GiveUp, StartShutdown, ServeError, Drained,
                Exit, Signal, ListenerFails, GraceExpires, Pass, Tick, avars, vars
  <2>2. CASE \E r \in Requests : Receive(r) \/ Serve(r) \/ Break(r)
    BY <2>2 DEF Receive, Arrive, Serve, Connect, Begin, SelectExisting, TurnedAway, RolledBack,
                Proceed, Execute, Insert, Resolve, Commit, SubmitTask, AbortVictim, Break, Fail
  <2> QED BY <2>1, <2>2 DEF ANext
<1>2. OneOrder BY <1>1 DEF OneOrder, Items
<1>3. pc[q] # "aborted" /\ DOMAIN pc = Requests /\ Transactions
  BY <1>2 DEF OrderedBatchesAccepted, AInv, Transactions, Shape
<1>4. CASE \E r \in Requests : Serve(r) \/ Break(r)
  <2>1. PICK r \in Requests : Serve(r) \/ Break(r) BY <1>4
  <2>2. PICK at : pc' = [pc EXCEPT ![r] = at] /\ (at = "aborted" => Deadlocked(r))
    BY <1>3, <2>1, ServeMoves
  <2> QED BY <1>2, <1>3, <2>2, NoCircle
<1>5. CASE \E r \in Requests : Receive(r) BY <1>3, <1>5 DEF Receive, Arrive
<1>6. CASE Main \/ Signal \/ ListenerFails \/ GraceExpires \/ Pass \/ UNCHANGED avars
  BY <1>3, <1>6 DEF Main, Boot, PingSucceeds, PingFails, GiveUp, StartShutdown, ServeError, Drained,
                    Exit, Signal, ListenerFails, GraceExpires, Pass, Tick, avars, vars
<1> QED BY <1>4, <1>5, <1>6 DEF ANext

(* EnqueueBulk inserts in the order of the request: while all requests     *)
(* list their keys in one order there is never a circle of waits, among    *)
(* any number of batches, and the deadlock detector aborts none of them.   *)
THEOREM OrderedBatchesPass == ASpec => []OrderedBatchesAccepted
<1>1. AInit => OrderedBatchesAccepted BY DEF AInit, Init, OrderedBatchesAccepted
<1>2. ASpec => []AInv /\ []RInv BY ProcessInvariant, RequestsInvariant, PTL
<1> QED BY <1>1, <1>2, OrderKept, PTL DEF ASpec
=============================================================================
