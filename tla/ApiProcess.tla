----------------------------- MODULE ApiProcess ------------------------------
(***************************************************************************)
(* The tick-api process (cmd/tick-api/main.go) around the requests of      *)
(* BulkSubmit: postgres.New with its bounded pings, the listener, the      *)
(* select between the shutdown signal and a failed listener, the graceful  *)
(* Shutdown within its grace period, the deferred Close of the connection  *)
(* pool and the exit, which takes every goroutine with it.                 *)
(***************************************************************************)
EXTENDS BulkSubmit

CONSTANT PingAttempts   \* pingAttempts
ASSUME PingAssumption == PingAttempts \in Nat \ {0}
ASSUME CodeAssumption == NULL \notin {0, 1}

VARIABLES main,       \* where run() is: "pinging", "selecting", "draining", "closing", "exited"
          pings,      \* attempts of pingWithRetry that failed
          signalled,  \* SIGINT or SIGTERM has been received: ctx is done
          listener,   \* "none", "up", "failed" (serveErr holds the error) or "shut"
          code        \* the exit code run() is about to return

process == <<main, pings, signalled, listener, code>>
avars == <<vars, process>>

AInit == /\ Init
         /\ main = "pinging" /\ pings = 0 /\ signalled = FALSE
         /\ listener = "none" /\ code = NULL

-----------------------------------------------------------------------------
(* pingWithRetry: a ping that succeeds ends it, whichever attempt it is,   *)
(* the attempts are forgotten and the server starts to listen.             *)
PingSucceeds ==
    /\ main = "pinging" /\ pings < PingAttempts /\ ~signalled
    /\ main' = "selecting" /\ pings' = 0 /\ listener' = "up"
    /\ UNCHANGED <<vars, signalled, code>>

(* A ping fails; with ctx done it always does.                             *)
PingFails ==
    /\ main = "pinging" /\ pings < PingAttempts
    /\ pings' = pings + 1
    /\ UNCHANGED <<vars, main, signalled, listener, code>>

(* The last attempt has failed, or ctx is done during the wait before the  *)
(* next one: New closes the pool it made, and run returns the error.       *)
GiveUp ==
    /\ main = "pinging"
    /\ pings = PingAttempts \/ (signalled /\ pings > 0)
    /\ main' = "closing" /\ code' = 1
    /\ UNCHANGED <<vars, pings, signalled, listener>>

Boot == PingSucceeds \/ PingFails \/ GiveUp

Signal ==
    /\ ~signalled /\ main # "exited"
    /\ signalled' = TRUE
    /\ UNCHANGED <<vars, main, pings, listener, code>>

(* ListenAndServe returns an error: the port is taken, or Accept fails.    *)
(* The connections that are open stay open.                                *)
ListenerFails ==
    /\ listener = "up"
    /\ listener' = "failed"
    /\ UNCHANGED <<vars, main, pings, signalled, code>>

(* The select takes either of its cases when both are ready.               *)
StartShutdown ==
    /\ main = "selecting" /\ signalled
    /\ main' = "draining" /\ listener' = "shut"
    /\ UNCHANGED <<vars, pings, signalled, code>>

ServeError ==
    /\ main = "selecting" /\ listener = "failed"
    /\ main' = "closing" /\ code' = 1
    /\ UNCHANGED <<vars, pings, signalled, listener>>

Active == {r \in Requests : pc[r] \notin Ended \cup {"idle"}}

(* Faulty variant: only the requests that have a connection are waited for.*)
DrainedOfConnections ==
    /\ main = "draining" /\ Connected = {}
    /\ main' = "closing" /\ code' = 0
    /\ UNCHANGED <<vars, pings, signalled, listener>>

(* Faulty variant: idle clients are waited for too.                        *)
DrainedOfClients ==
    /\ main = "draining" /\ \A r \in Requests : pc[r] \in Ended
    /\ main' = "closing" /\ code' = 0
    /\ UNCHANGED <<vars, pings, signalled, listener>>

(* Shutdown returns when every connection is idle, or with an error when   *)
(* the grace period ends first.                                            *)
Drained ==
    /\ main = "draining" /\ Active = {}
    /\ main' = "closing" /\ code' = 0
    /\ UNCHANGED <<vars, pings, signalled, listener>>

GraceExpires ==
    /\ main = "draining" /\ Active # {}
    /\ main' = "closing" /\ code' = 1
    /\ UNCHANGED <<vars, pings, signalled, listener>>

(* Faulty variant: the process exits without closing its store.            *)
ExitAtOnce ==
    /\ main = "closing"
    /\ main' = "exited"
    /\ pc' = [r \in Requests |-> IF r \in Active THEN "cut" ELSE pc[r]]
    /\ UNCHANGED <<batch, clock, table, open, todo, start, began, enqueued, results, failures>>
    /\ UNCHANGED <<pings, signalled, listener, code>>

(* The pool's Close waits for the connections in use; then the process     *)
(* exits and the requests that have none are cut off.                      *)
Exit ==
    /\ main = "closing" /\ Connected = {}
    /\ main' = "exited"
    /\ pc' = [r \in Requests |-> IF r \in Active THEN "cut" ELSE pc[r]]
    /\ UNCHANGED <<batch, clock, table, open, todo, start, began, enqueued, results, failures>>
    /\ UNCHANGED <<pings, signalled, listener, code>>

-----------------------------------------------------------------------------
(* The requests.  New ones come over the listener or, once it has failed,  *)
(* over the connections that are still open; a closed pool gives out no    *)
(* connection, to those that come or to those that wait for one.           *)
PoolOpen == main # "closing"

Receive(r) == /\ main \in {"selecting", "closing"} /\ listener \in {"up", "failed"}
              /\ Arrive(r)
              /\ UNCHANGED process

Connect(r) == PoolOpen /\ (Begin(r) \/ SelectExisting(r)) /\ UNCHANGED process

TurnedAway(r) == /\ ~PoolOpen /\ pc[r] \in {"arrived", "selecting"}
                 /\ RolledBack(r, "cut")
                 /\ UNCHANGED <<failures, process>>

Proceed(r) == Execute(r) /\ UNCHANGED process
Break(r) == Fail(r) /\ UNCHANGED process
Pass == main # "exited" /\ Tick /\ UNCHANGED process

Main == Boot \/ StartShutdown \/ ServeError \/ Drained \/ Exit
Serve(r) == Connect(r) \/ TurnedAway(r) \/ Proceed(r)

ANext == \/ Main \/ Signal \/ ListenerFails \/ GraceExpires \/ Pass
         \/ \E r \in Requests : Receive(r) \/ Serve(r) \/ Break(r)

ASpec == AInit /\ [][ANext]_avars

(* The main goroutine and the handlers are scheduled; a statement that can *)
(* go on does, and locks and connections are granted when they are free.   *)
AFairSpec == ASpec /\ WF_avars(Main) /\ \A r \in Requests : WF_avars(Serve(r))

-----------------------------------------------------------------------------
(* A process that ends with exit code 0 has served everybody: every        *)
(* request it took got its connection and its answer (or failed for its    *)
(* own reasons), however the signal came, before, between or after the     *)
(* others' transactions.                                                   *)
CleanExitCutsNobodyOff == code = 0 => \A r \in Requests : pc[r] # "cut"

(* No transaction outlives the process, even one that is forced to stop:   *)
(* what was begun is committed or rolled back, and holds no key any more.  *)
NothingLeftOpen == main = "exited" => \A r \in Requests : open[r] = {} /\ pc[r] \in Ended \cup {"idle"}

(* A process told to stop does, from wherever it is: while it waits for    *)
(* PostgreSQL to come up, with requests waiting for each other, after its  *)
(* listener has failed.                                                    *)
StopsWhenTold == signalled ~> main = "exited"
=============================================================================
