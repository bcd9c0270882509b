----------------------------- MODULE Lifecycle ------------------------------
(***************************************************************************)
(* The two processes from start to exit, and again when they are restarted: *)
(* main, which reads the configuration, opens and migrates the database,    *)
(* waits for a signal, drains and closes; the goroutine that serves; and    *)
(* the requests that are in progress meanwhile.  A request to authMicro may *)
(* make a call to userMicro and a statement on its own database, and is     *)
(* then answered; what it does in detail is in the other modules.           *)
(***************************************************************************)
EXTENDS Naturals, FiniteSets

CONSTANTS
  Requests,  \* requests to authMicro
  MaxFaults  \* bound: how often the start of each service may fail by chance

Services == {"auth", "user"}

Db(s) == IF s = "auth" THEN "authDb" ELSE "userDb"

Resources(s) == IF s = "auth" THEN {"calls", "authDb"} ELSE {"userDb"}

VARIABLES
  env,        \* the environment of each service, see IsConfigured
  same_key,   \* both have the same InternalAPIKey
  schema,     \* of its database: "none", "dirty" or "complete"
  faults,     \* how often its start has failed by chance
  told,       \* the services that were told to stop
  unheard,    \* those that were told before they listened for signals
  main,       \* the goroutine of main, for each service
  server,     \* the goroutine that serves, for each service
  open,       \* the resources that are open
  late,       \* the time limit of authMicro's shutdown is over
  at,         \* where each request is
  rpc,        \* the call of userMicro it made
  broken      \* the requests that found a resource of authMicro closed

outside == <<env, same_key, schema, faults, told, unheard>>

requests == <<at, rpc, broken>>

vars == <<outside, main, server, open, late, requests>>

(* NewConfig: what lacks a required variable, or has an expiration that is no *)
(* number, is an error; for every other variable there is a default.         *)
Environments == {"complete", "missing", "unreadable"}

IsConfigured(s) == env[s] = "complete"

Init ==
  /\ env \in [Services -> Environments]
  /\ same_key \in BOOLEAN
  /\ schema = [s \in Services |-> "none"]
  /\ faults = [s \in Services |-> 0]
  /\ told = {}
  /\ unheard = {}
  /\ main = [s \in Services |-> "down"]
  /\ server = [s \in Services |-> "none"]
  /\ open = {}
  /\ late = FALSE
  /\ at = [r \in Requests |-> "none"]
  /\ rpc = [r \in Requests |-> "none"]
  /\ broken = {}

(* newApp *)
IsStarting(s) == main[s] \in {"down", "configured", "connected", "migrating"}

IsUp(s) == main[s] \in {"started", "running"}

IsStopping(s) == main[s] \in {"draining", "drained"}

Alive(s) == IsUp(s) \/ IsStopping(s)

InProgress(r) == at[r] \in {"handling", "calling", "resumed"}

-----------------------------------------------------------------------------
(* Start *)

(* The process is gone, and with it what it had open and what it was doing. *)
Ends(s, how) ==
  /\ main' = [main EXCEPT ![s] = how]
  /\ server' = [server EXCEPT ![s] = "none"]
  /\ open' = open \ Resources(s)
  /\ at' = [r \in Requests |-> IF s = "auth" /\ InProgress(r) THEN "lost" ELSE at[r]]
  /\ rpc' = [r \in Requests |->
               IF s = "user" /\ rpc[r] = "running" THEN "cut" ELSE rpc[r]]
  /\ UNCHANGED <<late, broken>>

(* newCommonModule: what is missing is listed, and Fatal.  authMicro makes its *)
(* gRPC client next, which connects to nothing yet.                          *)
Configure(s) ==
  /\ main[s] = "down"
  /\ IF IsConfigured(s)
     THEN /\ main' = [main EXCEPT ![s] = "configured"]
          /\ open' = IF s = "auth" THEN open \cup {"calls"} ELSE open
          /\ UNCHANGED <<server, late, requests>>
     ELSE Ends(s, "killed")
  /\ UNCHANGED outside

(* NewPostgresDB, with its Ping *)
Connect(s) ==
  /\ main[s] = "configured"
  /\ main' = [main EXCEPT ![s] = "connected"]
  /\ open' = open \cup {Db(s)}
  /\ UNCHANGED <<outside, server, late, requests>>

(* The rest of newApp keeps no state; start() starts the other goroutine. *)
Started(s) ==
  /\ main' = [main EXCEPT ![s] = "started"]
  /\ server' = [server EXCEPT ![s] = "starting"]
  /\ UNCHANGED <<env, same_key, faults, told, unheard, open, late, requests>>

DirtyIsIgnored(s) == schema[s] # "none"  \* mutant: an error of Up is only logged

NoChangeIsAnError(s) == FALSE  \* mutant: ErrNoChange is not made an exception

(* InitSchema: Up has nothing to do, which is no error. *)
NothingToMigrate(s) == schema[s] = "complete"

(* Up marks the database as dirty while it migrates, and refuses one that is. *)
Migrate(s) ==
  /\ main[s] = "connected"
  /\ CASE NothingToMigrate(s) -> Started(s) /\ UNCHANGED schema
       [] ~NothingToMigrate(s) /\ schema[s] = "none" ->
            /\ schema' = [schema EXCEPT ![s] = "dirty"]
            /\ main' = [main EXCEPT ![s] = "migrating"]
            /\ UNCHANGED <<env, same_key, faults, told, unheard>>
            /\ UNCHANGED <<server, open, late, requests>>
       [] OTHER -> Ends(s, "killed") /\ UNCHANGED outside

Migrated(s) ==
  /\ main[s] = "migrating"
  /\ schema' = [schema EXCEPT ![s] = "complete"]
  /\ Started(s)

(* The database cannot be reached, a statement of the migration fails, or the *)
(* process is killed.                                                        *)
StartFails(s) ==
  /\ IsStarting(s)
  /\ faults[s] < MaxFaults
  /\ faults' = [faults EXCEPT ![s] = @ + 1]
  /\ Ends(s, "killed")
  /\ UNCHANGED <<env, same_key, schema, told, unheard>>

(* signal.Notify, after start() *)
Notify(s) ==
  /\ main[s] = "started"
  /\ main' = [main EXCEPT ![s] = "running"]
  /\ UNCHANGED <<outside, server, open, late, requests>>

(* restart: unless-stopped *)
Restart(s) ==
  /\ main[s] = "killed"
  /\ s \notin told
  /\ main' = [main EXCEPT ![s] = "down"]
  /\ UNCHANGED <<outside, server, open, late, requests>>

-----------------------------------------------------------------------------
(* The goroutine that serves *)

(* The listener is opened, or the address cannot be had. *)
Listen(s) ==
  /\ IsUp(s)
  /\ server[s] = "starting"
  /\ \E outcome \in {"serving", "failed"} : server' = [server EXCEPT ![s] = outcome]
  /\ UNCHANGED <<outside, main, open, late, requests>>

(* Shutdown or GracefulStop has begun.  Serve of grpc returns nil when it was *)
(* serving; Serve of net/http returns ErrServerClosed in any case, and both   *)
(* do when they are called too late.                                         *)
ServeReturns(s) ==
  /\ IsStopping(s)
  /\ server[s] \in {"starting", "serving"}
  /\ server' = [server EXCEPT ![s] =
       IF s = "user" /\ server[s] = "serving" THEN "returned" ELSE "failed"]
  /\ UNCHANGED <<outside, main, open, late, requests>>

(* Fatalf of the goroutine that serves: os.Exit(1), whatever main is doing. *)
Fatal(s) ==
  /\ Alive(s)
  /\ server[s] = "failed"
  /\ Ends(s, "killed")
  /\ UNCHANGED outside

-----------------------------------------------------------------------------
(* main *)

(* SIGINT or SIGTERM; shutdown closes the listener. *)
Signal(s) ==
  /\ main[s] = "running"
  /\ main' = [main EXCEPT ![s] = "draining"]
  /\ told' = told \cup {s}
  /\ UNCHANGED <<env, same_key, schema, faults, unheard>>
  /\ UNCHANGED <<server, open, late, requests>>

(* Before Notify the signal ends the process. *)
SignalIsUnheard(s) ==
  /\ IsStarting(s) \/ main[s] = "started"
  /\ told' = told \cup {s}
  /\ unheard' = unheard \cup {s}
  /\ Ends(s, "killed")
  /\ UNCHANGED <<env, same_key, schema, faults>>

NoneOpen ==  \* mutant: waits until authMicro closes its connection
  \A r \in Requests : rpc[r] # "running" /\ "calls" \notin open

(* What GracefulStop waits for, without a limit *)
UserIdle == \A r \in Requests : rpc[r] # "running"

NobodyCalls ==  \* mutant: only the calls of userMicro are waited for
  \A r \in Requests : at[r] # "calling"

(* What Shutdown waits for *)
AuthIdle == \A r \in Requests : ~InProgress(r)

Drained(s) ==
  /\ main[s] = "draining"
  /\ IF s = "auth" THEN AuthIdle ELSE UserIdle
  /\ main' = [main EXCEPT ![s] = "drained"]
  /\ UNCHANGED <<outside, server, open, late, requests>>

(* The context of five seconds is over: Shutdown returns its error, which is *)
(* logged.                                                                   *)
TimeIsOver ==
  /\ main["auth"] = "draining"
  /\ main' = [main EXCEPT !["auth"] = "drained"]
  /\ late' = TRUE
  /\ UNCHANGED <<outside, server, open, requests>>

(* authMicro closes its connection to userMicro before its database. *)
CloseCalls ==
  /\ main["auth"] = "drained"
  /\ "calls" \in open
  /\ open' = open \ {"calls"}
  /\ UNCHANGED <<outside, main, server, late, requests>>

MayCloseEarly(s) == IsStopping(s)  \* mutant: defer in the wrong order

MayCloseDb(s) ==
  /\ main[s] = "drained"
  /\ s = "auth" => "calls" \notin open

CloseDb(s) ==
  /\ MayCloseDb(s)
  /\ Db(s) \in open
  /\ open' = open \ {Db(s)}
  /\ UNCHANGED <<outside, main, server, late, requests>>

(* main returns. *)
Exit(s) ==
  /\ main[s] = "drained"
  /\ Db(s) \notin open
  /\ Ends(s, "exited")
  /\ UNCHANGED outside

-----------------------------------------------------------------------------
(* Requests *)

Accept(r) ==
  /\ at[r] = "none"
  /\ IsUp("auth") /\ server["auth"] = "serving"
  /\ at' = [at EXCEPT ![r] = "handling"]
  /\ UNCHANGED <<outside, main, server, open, late, rpc, broken>>

Breaks(r, resource) ==
  broken' = IF resource \in open THEN broken ELSE broken \cup {r}

(* The interceptors: authMicro sends its key with every call, and userMicro   *)
(* refuses another one than its own.                                         *)
HasKey == same_key

(* A call of userMicro, which accepts it while it serves. *)
Call(r) ==
  /\ at[r] = "handling"
  /\ IF "calls" \in open /\ IsUp("user") /\ server["user"] = "serving" /\ HasKey
     THEN /\ at' = [at EXCEPT ![r] = "calling"]
          /\ rpc' = [rpc EXCEPT ![r] = "running"]
     ELSE /\ at' = [at EXCEPT ![r] = "resumed"]
          /\ UNCHANGED rpc
  /\ Breaks(r, "calls")
  /\ UNCHANGED <<outside, main, server, open, late>>

(* userMicro runs the statement of the call and replies. *)
RpcEnds(r) ==
  /\ rpc[r] = "running"
  /\ Alive("user")
  /\ rpc' = [rpc EXCEPT ![r] = IF "userDb" \in open THEN "done" ELSE "failed"]
  /\ UNCHANGED <<outside, main, server, open, late, at, broken>>

(* The reply, or the error, arrives; closing the connection is an error. *)
CallEnds(r) ==
  /\ at[r] = "calling"
  /\ rpc[r] = "running" => "calls" \notin open
  /\ at' = [at EXCEPT ![r] = "resumed"]
  /\ broken' = IF rpc[r] = "running" THEN broken \cup {r} ELSE broken
  /\ UNCHANGED <<outside, main, server, open, late, rpc>>

(* A statement on the database of authMicro, and the answer. *)
Answer(r) ==
  /\ at[r] \in {"handling", "resumed"}
  /\ at' = [at EXCEPT ![r] = "answered"]
  /\ Breaks(r, "authDb")
  /\ UNCHANGED <<outside, main, server, open, late, rpc>>

-----------------------------------------------------------------------------
Starting(s) ==
  \/ Configure(s) \/ Connect(s) \/ Migrate(s) \/ Migrated(s)
  \/ Notify(s) \/ Restart(s)

Serving(s) == Listen(s) \/ ServeReturns(s) \/ Fatal(s)

Stopping(s) ==
  \/ Drained(s) \/ CloseDb(s) \/ Exit(s)
  \/ s = "auth" /\ (TimeIsOver \/ CloseCalls)

Terminating ==
  /\ \A s \in Services : s \in told /\ main[s] \in {"exited", "killed"}
  /\ UNCHANGED vars

Next ==
  \/ \E s \in Services :
       \/ Starting(s) \/ StartFails(s)
       \/ Serving(s)
       \/ Signal(s) \/ SignalIsUnheard(s)
       \/ Stopping(s)
  \/ \E r \in Requests :
       Accept(r) \/ Call(r) \/ RpcEnds(r) \/ CallEnds(r) \/ Answer(r)
  \/ Terminating

Spec == Init /\ [][Next]_vars

(* The goroutines of a process run and the clock goes on; a statement of      *)
(* userMicro ends; a process that ended without being told is started again.  *)
(* Nothing is assumed of the requests of authMicro, which have no time limit, *)
(* nor that a signal ever comes.                                             *)
FairSpec ==
  /\ Spec
  /\ \A s \in Services :
       WF_vars(Starting(s)) /\ WF_vars(Serving(s)) /\ WF_vars(Stopping(s))
  /\ \A r \in Requests : WF_vars(RpcEnds(r))

-----------------------------------------------------------------------------
(* Safety *)

(* A service serves on a complete schema only, however often it was stopped   *)
(* or failed in the middle of a migration before (postgres.go:44-58).        *)
ServedOnCompleteSchema ==
  \A s \in Services : server[s] = "serving" => schema[s] = "complete"

(* userMicro carries out every call it accepted: it neither exits during one *)
(* nor closes the database under it (main.go:140-147, server.go:46-51),      *)
(* unless the signal came in the moment between start() and Notify.          *)
UserMicroFinishesItsCalls ==
  (\E r \in Requests : rpc[r] \in {"cut", "failed"}) => "user" \in unheard

(* A request of authMicro finds the connection to userMicro or the database   *)
(* closed only after the five seconds it is given (main.go:263-283).         *)
ResourcesOutliveRequests == broken # {} => late

-----------------------------------------------------------------------------
(* Liveness *)

(* A process that is told to stop exits, whatever the other one does and      *)
(* whether or not the requests of authMicro are ever answered.               *)
SignalledProcessesExit ==
  \A s \in Services : main[s] = "draining" ~> ~Alive(s)

(* A service whose environment is complete starts, and again after every      *)
(* failure, unless it was told to stop or a migration was left unfinished     *)
(* (main.go:90-98, 138-148, postgres.go:53-56).  It has started when the      *)
(* goroutine that serves has; its Listen may still fail for the address, each *)
(* time anew, so no more is promised.                                         *)
ServicesComeUp ==
  \A s \in Services :
    main[s] = "down" /\ IsConfigured(s) ~>
      main[s] = "started" \/ s \in told \/ schema[s] = "dirty"

-----------------------------------------------------------------------------
(* What the code says of itself and does not do *)

(* "Failed to start REST server" and, at the end of shutdown, "Server exited  *)
(* properly" (cmd/app/main.go): a request that was accepted is cut off only   *)
(* after the five seconds of the shutdown, if main heard of the signal.      *)
RequestsHaveTheirTime ==
  (\E r \in Requests : at[r] = "lost") => late \/ "auth" \in unheard

=============================================================================
