-------------------------- MODULE LifecycleProofs ---------------------------
(***************************************************************************)
(* Proofs about Lifecycle, for any set of requests and any number of        *)
(* failures at the start.                                                   *)
(*                                                                         *)
(* None of the three invariants the run checks is inductive: each is about  *)
(* an event and needs what the order of start and stop keeps true until     *)
(* then.                                                                    *)
(*   - Only a live process has a goroutine that serves, and it was started  *)
(*     behind the migration (ServersFollowSchema).                          *)
(*   - A resource stays open until the process that uses it has drained     *)
(*     (OpenUntilDrained).                                                  *)
(*   - userMicro has not drained while it has a call, and the goroutine     *)
(*     that accepted it cannot fail any more (CallsAreServed): Serve        *)
(*     returns nil once it has served.                                      *)
(*   - authMicro has not drained while it has a request, unless its time    *)
(*     was over (RequestsAreServed).                                        *)
(***************************************************************************)
EXTENDS Lifecycle, TLAPS

TypeInv ==
  /\ env \in [Services -> Environments]
  /\ same_key \in BOOLEAN
  /\ schema \in [Services -> {"none", "dirty", "complete"}]
  /\ faults \in [Services -> Nat]
  /\ told \subseteq Services
  /\ unheard \subseteq Services
  /\ main \in [Services -> {"down", "configured", "connected", "migrating",
                            "started", "running", "draining", "drained",
                            "killed", "exited"}]
  /\ server \in [Services -> {"none", "starting", "serving", "returned", "failed"}]
  /\ open \subseteq {"calls", "authDb", "userDb"}
  /\ late \in BOOLEAN
  /\ at \in [Requests -> {"none", "handling", "calling", "resumed", "answered", "lost"}]
  /\ rpc \in [Requests -> {"none", "running", "done", "failed", "cut"}]
  /\ broken \subseteq Requests

ServersFollowSchema ==
  \A s \in Services : server[s] # "none" => Alive(s) /\ schema[s] = "complete"

OpenUntilDrained ==
  /\ \A s \in Services :
       main[s] \in {"connected", "migrating", "started", "running", "draining"} =>
         Db(s) \in open
  /\ main["auth"] \in {"configured", "connected", "migrating", "started",
                       "running", "draining"} => "calls" \in open

CallsAreServed ==
  \A r \in Requests : rpc[r] = "running" =>
    /\ main["user"] \in {"started", "running", "draining"}
    /\ server["user"] \in {"serving", "returned"}

RequestsAreServed ==
  \A r \in Requests : InProgress(r) =>
    /\ Alive("auth")
    /\ main["auth"] = "drained" => late

IInv ==
  /\ TypeInv
  /\ ServersFollowSchema
  /\ OpenUntilDrained
  /\ CallsAreServed
  /\ RequestsAreServed
  /\ UserMicroFinishesItsCalls
  /\ ResourcesOutliveRequests

-----------------------------------------------------------------------------
(* Nothing runs and nothing is open when the two are started.               *)
LEMMA InitIInv == Init => IInv
<1> SUFFICES ASSUME Init PROVE IInv
  OBVIOUS
<1>1. /\ \A s \in Services : main[s] = "down" /\ server[s] = "none"
      /\ \A r \in Requests : at[r] = "none" /\ rpc[r] = "none"
      /\ open = {} /\ broken = {}
  BY DEF Init
<1>2. TypeInv
  <2>1. faults \in [Services -> Nat]
    BY DEF Init
  <2>2. /\ schema \in [Services -> {"none", "dirty", "complete"}]
        /\ main \in [Services -> {"down"}]
        /\ server \in [Services -> {"none"}]
        /\ at \in [Requests -> {"none"}]
        /\ rpc \in [Requests -> {"none"}]
    BY DEF Init
  <2>3. /\ env \in [Services -> Environments] /\ same_key \in BOOLEAN
        /\ told = {} /\ unheard = {} /\ late = FALSE
    BY DEF Init
  <2> QED  BY <1>1, <2>1, <2>2, <2>3 DEF TypeInv
<1>3. ServersFollowSchema
  BY <1>1 DEF ServersFollowSchema
<1>4. OpenUntilDrained
  BY <1>1 DEF OpenUntilDrained, Services
<1>5. CallsAreServed /\ RequestsAreServed
  BY <1>1 DEF CallsAreServed, RequestsAreServed, InProgress
<1>6. UserMicroFinishesItsCalls /\ ResourcesOutliveRequests
  BY <1>1 DEF UserMicroFinishesItsCalls, ResourcesOutliveRequests
<1> QED  BY <1>2, <1>3, <1>4, <1>5, <1>6 DEF IInv

(* The end of a process keeps the invariant, provided that userMicro ends   *)
(* with calls in it only when it was told to stop before it listened.       *)
LEMMA EndsKeepsIInv ==
  ASSUME IInv, NEW s \in Services, NEW how \in {"killed", "exited"}, Ends(s, how),
         UNCHANGED <<env, same_key, schema>>,
         faults' \in [Services -> Nat],
         told' \subseteq Services, unheard' \subseteq Services,
         unheard \subseteq unheard',
         s = "user" /\ (\E r \in Requests : rpc[r] = "running") => "user" \in unheard'
  PROVE  IInv'
<1>0. /\ TypeInv /\ ServersFollowSchema /\ OpenUntilDrained /\ CallsAreServed
      /\ RequestsAreServed /\ UserMicroFinishesItsCalls /\ ResourcesOutliveRequests
  BY DEF IInv
<1>1. /\ main' = [main EXCEPT ![s] = how]
      /\ server' = [server EXCEPT ![s] = "none"]
      /\ open' = open \ Resources(s)
      /\ UNCHANGED <<late, broken>>
  BY DEF Ends
<1>2. \A r \in Requests :
        /\ at'[r] = IF s = "auth" /\ InProgress(r) THEN "lost" ELSE at[r]
        /\ rpc'[r] = IF s = "user" /\ rpc[r] = "running" THEN "cut" ELSE rpc[r]
  BY DEF Ends
<1>3. TypeInv'
  <2>1. /\ at' \in [Requests -> {"none", "handling", "calling", "resumed",
                                 "answered", "lost"}]
        /\ rpc' \in [Requests -> {"none", "running", "done", "failed", "cut"}]
    BY <1>0 DEF Ends, TypeInv
  <2> QED  BY <1>0, <1>1, <2>1 DEF TypeInv
<1>4. ServersFollowSchema'
  BY <1>0, <1>1 DEF TypeInv, ServersFollowSchema, Alive, IsUp, IsStopping
<1>5. OpenUntilDrained'
  BY <1>0, <1>1 DEF TypeInv, OpenUntilDrained, Services, Db, Resources
<1>6. CallsAreServed'
  BY <1>0, <1>1, <1>2 DEF TypeInv, CallsAreServed, Services
<1>7. RequestsAreServed'
  BY <1>0, <1>1, <1>2
  DEF TypeInv, RequestsAreServed, Services, InProgress, Alive, IsUp, IsStopping
<1>8. UserMicroFinishesItsCalls'
  BY <1>0, <1>2 DEF TypeInv, UserMicroFinishesItsCalls
<1>9. ResourcesOutliveRequests'
  BY <1>0, <1>1 DEF ResourcesOutliveRequests
<1> QED  BY <1>3, <1>4, <1>5, <1>6, <1>7, <1>8, <1>9 DEF IInv

(* The start of a process.                                                  *)
LEMMA StartingKeepsIInv ==
  ASSUME IInv, NEW s \in Services, Starting(s) \/ StartFails(s)
  PROVE  IInv'
<1>0. /\ TypeInv /\ ServersFollowSchema /\ OpenUntilDrained /\ CallsAreServed
      /\ RequestsAreServed /\ UserMicroFinishesItsCalls /\ ResourcesOutliveRequests
  BY DEF IInv
<1> USE <1>0 DEF IInv
<1>1. ASSUME IsStarting(s), Ends(s, "killed"), UNCHANGED <<env, same_key, schema, told, unheard>>,
             faults' \in [Services -> Nat]
      PROVE  IInv'
  <2>1. s = "user" => ~\E r \in Requests : rpc[r] = "running"
    BY <1>1 DEF CallsAreServed, IsStarting
  <2> QED  BY <1>1, <2>1, EndsKeepsIInv DEF TypeInv
<1>2. CASE Configure(s)
  <2>1. CASE IsConfigured(s)
    <3>1. /\ main[s] = "down"
          /\ main' = [main EXCEPT ![s] = "configured"]
          /\ open' = IF s = "auth" THEN open \cup {"calls"} ELSE open
          /\ UNCHANGED <<outside, server, late, requests>>
      BY <1>2, <2>1 DEF Configure
    <3> QED
      BY <3>1 DEF outside, requests, TypeInv, ServersFollowSchema, OpenUntilDrained,
         CallsAreServed, RequestsAreServed, UserMicroFinishesItsCalls,
         ResourcesOutliveRequests, Services, InProgress, Alive, IsUp, IsStopping, Db
  <2>2. CASE ~IsConfigured(s)
    BY <1>1, <1>2, <2>2 DEF Configure, IsStarting, outside, TypeInv
  <2> QED  BY <2>1, <2>2
<1>3. CASE Connect(s)
  BY <1>3 DEF Connect, outside, requests, TypeInv, ServersFollowSchema,
     OpenUntilDrained, CallsAreServed, RequestsAreServed,
     UserMicroFinishesItsCalls, ResourcesOutliveRequests, Services, InProgress,
     Alive, IsUp, IsStopping, Db
<1>4. ASSUME Started(s), schema' \in [Services -> {"none", "dirty", "complete"}],
             \A o \in Services : schema'[o] = IF o = s THEN "complete" ELSE schema[o],
             main[s] \in {"connected", "migrating"}
      PROVE  IInv'
  <2>1. /\ main' = [main EXCEPT ![s] = "started"]
        /\ server' = [server EXCEPT ![s] = "starting"]
        /\ UNCHANGED <<env, same_key, faults, told, unheard, open, late, at, rpc, broken>>
    BY <1>4 DEF Started, requests
  <2>2. TypeInv'
    BY <1>4, <2>1 DEF TypeInv
  <2>3. ServersFollowSchema'
    BY <1>4, <2>1 DEF TypeInv, ServersFollowSchema, Alive, IsUp, IsStopping
  <2>4. OpenUntilDrained'
    BY <1>4, <2>1 DEF TypeInv, OpenUntilDrained, Services, Db
  <2>5. CallsAreServed' /\ RequestsAreServed'
    BY <1>4, <2>1 DEF TypeInv, CallsAreServed, RequestsAreServed, Services,
       InProgress, Alive, IsUp, IsStopping
  <2>6. UserMicroFinishesItsCalls' /\ ResourcesOutliveRequests'
    BY <2>1 DEF UserMicroFinishesItsCalls, ResourcesOutliveRequests
  <2> QED  BY <2>2, <2>3, <2>4, <2>5, <2>6
<1>5. CASE Migrate(s)
  <2>1. CASE NothingToMigrate(s)
    <3>1. main[s] = "connected" /\ Started(s) /\ UNCHANGED schema
      BY <1>5, <2>1 DEF Migrate
    <3> QED  BY <1>4, <2>1, <3>1 DEF NothingToMigrate, TypeInv
  <2>2. CASE ~NothingToMigrate(s) /\ schema[s] = "none"
    <3>1. /\ main[s] = "connected"
          /\ schema' = [schema EXCEPT ![s] = "dirty"]
          /\ main' = [main EXCEPT ![s] = "migrating"]
          /\ UNCHANGED <<env, same_key, faults, told, unheard>>
          /\ UNCHANGED <<server, open, late, requests>>
      BY <1>5, <2>2 DEF Migrate
    <3> QED
      BY <3>1 DEF requests, TypeInv, ServersFollowSchema, OpenUntilDrained,
         CallsAreServed, RequestsAreServed, UserMicroFinishesItsCalls,
         ResourcesOutliveRequests, Services, InProgress, Alive, IsUp, IsStopping, Db
  <2>3. CASE ~NothingToMigrate(s) /\ schema[s] # "none"
    <3>1. main[s] = "connected" /\ Ends(s, "killed") /\ UNCHANGED outside
      BY <1>5, <2>3 DEF Migrate
    <3> QED  BY <1>1, <3>1 DEF IsStarting, outside, TypeInv
  <2> QED  BY <2>1, <2>2, <2>3
<1>6. CASE Migrated(s)
  BY <1>4, <1>6 DEF Migrated, TypeInv
<1>7. CASE Notify(s)
  BY <1>7 DEF Notify, outside, requests, TypeInv, ServersFollowSchema, OpenUntilDrained,
     CallsAreServed, RequestsAreServed, UserMicroFinishesItsCalls,
     ResourcesOutliveRequests, Services, InProgress, Alive, IsUp, IsStopping, Db
<1>8. CASE Restart(s)
  BY <1>8 DEF Restart, outside, requests, TypeInv, ServersFollowSchema, OpenUntilDrained,
     CallsAreServed, RequestsAreServed, UserMicroFinishesItsCalls,
     ResourcesOutliveRequests, Services, InProgress, Alive, IsUp, IsStopping, Db
<1>9. CASE StartFails(s)
  <2>1. faults' \in [Services -> Nat]
    BY <1>9 DEF StartFails, TypeInv
  <2> QED  BY <1>1, <1>9, <2>1 DEF StartFails
<1> QED  BY <1>2, <1>3, <1>5, <1>6, <1>7, <1>8, <1>9 DEF Starting

(* The goroutine that serves.  Serve of userMicro cannot fail with a call in *)
(* it: it returns nil once it has served.                                   *)
LEMMA ServingKeepsIInv ==
  ASSUME IInv, NEW s \in Services, Serving(s)
  PROVE  IInv'
<1>0. /\ TypeInv /\ ServersFollowSchema /\ OpenUntilDrained /\ CallsAreServed
      /\ RequestsAreServed /\ UserMicroFinishesItsCalls /\ ResourcesOutliveRequests
  BY DEF IInv
<1>1. ASSUME NEW to \in {"serving", "returned", "failed"},
             server' = [server EXCEPT ![s] = to],
             server[s] \in {"starting", "serving"},
             s = "user" /\ server[s] = "serving" => to = "returned",
             UNCHANGED <<outside, main, open, late, requests>>
      PROVE  IInv'
  <2>1. UNCHANGED <<env, same_key, schema, faults, told, unheard, main, open, late,
                    at, rpc, broken>>
    BY <1>1 DEF outside, requests
  <2>2. TypeInv'
    BY <1>0, <1>1, <2>1 DEF TypeInv
  <2>3. ServersFollowSchema'
    BY <1>0, <1>1, <2>1 DEF TypeInv, ServersFollowSchema, Alive, IsUp, IsStopping
  <2>4. CallsAreServed'
    BY <1>0, <1>1, <2>1 DEF TypeInv, CallsAreServed, Services
  <2>5. OpenUntilDrained' /\ RequestsAreServed'
    BY <1>0, <2>1 DEF OpenUntilDrained, RequestsAreServed, InProgress, Alive,
       IsUp, IsStopping
  <2>6. UserMicroFinishesItsCalls' /\ ResourcesOutliveRequests'
    BY <1>0, <2>1 DEF UserMicroFinishesItsCalls, ResourcesOutliveRequests
  <2> QED  BY <2>2, <2>3, <2>4, <2>5, <2>6 DEF IInv
<1>2. CASE Listen(s)
  BY <1>1, <1>2 DEF Listen
<1>3. CASE ServeReturns(s)
  <2>1. CASE s = "user" /\ server[s] = "serving"
    BY <1>1, <1>3, <2>1 DEF ServeReturns
  <2>2. CASE ~(s = "user" /\ server[s] = "serving")
    BY <1>1, <1>3, <2>2 DEF ServeReturns
  <2> QED  BY <2>1, <2>2
<1>4. CASE Fatal(s)
  <2>1. /\ Ends(s, "killed") /\ server[s] = "failed"
        /\ UNCHANGED <<env, same_key, schema, faults, told, unheard>>
    BY <1>4 DEF Fatal, outside
  <2>2. ~(s = "user" /\ \E r \in Requests : rpc[r] = "running")
    BY <1>0, <2>1 DEF CallsAreServed
  <2> QED  BY <1>0, <2>1, <2>2, EndsKeepsIInv DEF TypeInv
<1> QED  BY <1>2, <1>3, <1>4 DEF Serving

(* The signals.  One that comes before main listens ends the process, and   *)
(* with it the calls it has accepted.                                       *)
LEMMA SignalsKeepIInv ==
  ASSUME IInv, NEW s \in Services, Signal(s) \/ SignalIsUnheard(s)
  PROVE  IInv'
<1>0. /\ TypeInv /\ ServersFollowSchema /\ OpenUntilDrained /\ CallsAreServed
      /\ RequestsAreServed /\ UserMicroFinishesItsCalls /\ ResourcesOutliveRequests
  BY DEF IInv
<1>1. CASE Signal(s)
  <2>1. /\ main[s] = "running"
        /\ main' = [main EXCEPT ![s] = "draining"]
        /\ told' = told \cup {s}
        /\ UNCHANGED <<env, same_key, schema, faults, unheard, server, open, late,
                       at, rpc, broken>>
    BY <1>1 DEF Signal, requests
  <2>2. TypeInv'
    BY <1>0, <2>1 DEF TypeInv
  <2>3. ServersFollowSchema'
    BY <1>0, <2>1 DEF TypeInv, ServersFollowSchema, Alive, IsUp, IsStopping
  <2>4. OpenUntilDrained'
    BY <1>0, <2>1 DEF TypeInv, OpenUntilDrained, Services, Db
  <2>5. CallsAreServed' /\ RequestsAreServed'
    BY <1>0, <2>1 DEF TypeInv, CallsAreServed, RequestsAreServed, Services,
       InProgress, Alive, IsUp, IsStopping
  <2>6. UserMicroFinishesItsCalls' /\ ResourcesOutliveRequests'
    BY <1>0, <2>1 DEF UserMicroFinishesItsCalls, ResourcesOutliveRequests
  <2> QED  BY <2>2, <2>3, <2>4, <2>5, <2>6 DEF IInv
<1>2. CASE SignalIsUnheard(s)
  BY <1>0, <1>2, EndsKeepsIInv DEF SignalIsUnheard, TypeInv
<1> QED  BY <1>1, <1>2

(* Shutdown: a resource is closed by a process that has drained, and a      *)
(* process that has drained has no call of userMicro in it.                 *)
LEMMA StoppingKeepsIInv ==
  ASSUME IInv, NEW s \in Services, Stopping(s)
  PROVE  IInv'
<1>0. /\ TypeInv /\ ServersFollowSchema /\ OpenUntilDrained /\ CallsAreServed
      /\ RequestsAreServed /\ UserMicroFinishesItsCalls /\ ResourcesOutliveRequests
  BY DEF IInv
<1>1. ASSUME main[s] = "draining",
             main' = [main EXCEPT ![s] = "drained"],
             late' \in BOOLEAN, late => late',
             s = "user" => UserIdle,
             s = "auth" => AuthIdle \/ late',
             UNCHANGED <<outside, server, open, requests>>
      PROVE  IInv'
  <2>1. UNCHANGED <<env, same_key, schema, faults, told, unheard, server, open,
                    at, rpc, broken>>
    BY <1>1 DEF outside, requests
  <2>2. TypeInv'
    BY <1>0, <1>1, <2>1 DEF TypeInv
  <2>3. ServersFollowSchema'
    BY <1>0, <1>1, <2>1 DEF TypeInv, ServersFollowSchema, Alive, IsUp, IsStopping
  <2>4. OpenUntilDrained'
    BY <1>0, <1>1, <2>1 DEF TypeInv, OpenUntilDrained, Services, Db
  <2>5. CallsAreServed'
    BY <1>0, <1>1, <2>1 DEF TypeInv, CallsAreServed, UserIdle, Services
  <2>6. RequestsAreServed'
    BY <1>0, <1>1, <2>1 DEF TypeInv, RequestsAreServed, AuthIdle, Services,
       InProgress, Alive, IsUp, IsStopping
  <2>7. UserMicroFinishesItsCalls' /\ ResourcesOutliveRequests'
    BY <1>0, <1>1, <2>1 DEF UserMicroFinishesItsCalls, ResourcesOutliveRequests
  <2> QED  BY <2>2, <2>3, <2>4, <2>5, <2>6, <2>7 DEF IInv
<1>2. ASSUME NEW o \in Services, NEW resource \in Resources(o),
             main[o] = "drained",
             open' = open \ {resource},
             UNCHANGED <<outside, main, server, late, requests>>
      PROVE  IInv'
  <2>1. UNCHANGED <<env, same_key, schema, faults, told, unheard, main, server, late,
                    at, rpc, broken>>
    BY <1>2 DEF outside, requests
  <2>2. TypeInv'
    BY <1>0, <1>2, <2>1 DEF TypeInv
  <2>3. OpenUntilDrained'
    BY <1>0, <1>2, <2>1 DEF TypeInv, OpenUntilDrained, Services, Db, Resources
  <2>4. ServersFollowSchema' /\ CallsAreServed' /\ RequestsAreServed'
    BY <1>0, <2>1 DEF ServersFollowSchema, CallsAreServed, RequestsAreServed,
       InProgress, Alive, IsUp, IsStopping
  <2>5. UserMicroFinishesItsCalls' /\ ResourcesOutliveRequests'
    BY <1>0, <2>1 DEF UserMicroFinishesItsCalls, ResourcesOutliveRequests
  <2> QED  BY <2>2, <2>3, <2>4, <2>5 DEF IInv
<1>3. CASE Drained(s)
  <2>1. late \in BOOLEAN
    BY <1>0 DEF TypeInv
  <2> QED  BY <1>1, <1>3, <2>1 DEF Drained, Services
<1>4. CASE s = "auth" /\ TimeIsOver
  BY <1>1, <1>4 DEF TimeIsOver
<1>5. CASE s = "auth" /\ CloseCalls
  <2>1. "calls" \in Resources("auth") /\ "auth" \in Services
    BY DEF Resources, Services
  <2> QED  BY <1>2, <1>5, <2>1 DEF CloseCalls
<1>6. CASE CloseDb(s)
  <2>1. Db(s) \in Resources(s)
    BY DEF Db, Resources
  <2> QED  BY <1>2, <1>6, <2>1 DEF CloseDb, MayCloseDb
<1>7. CASE Exit(s)
  <2>1. /\ Ends(s, "exited") /\ main[s] = "drained"
        /\ UNCHANGED <<env, same_key, schema, faults, told, unheard>>
    BY <1>7 DEF Exit, outside
  <2>2. ~(s = "user" /\ \E r \in Requests : rpc[r] = "running")
    BY <1>0, <2>1 DEF CallsAreServed
  <2> QED  BY <1>0, <2>1, <2>2, EndsKeepsIInv DEF TypeInv
<1> QED  BY <1>3, <1>4, <1>5, <1>6, <1>7 DEF Stopping

(* The requests.  One that finds a resource closed was accepted by a process *)
(* that has drained since, which took the five seconds.                     *)
LEMMA RequestsKeepIInv ==
  ASSUME IInv, NEW r \in Requests,
         Accept(r) \/ Call(r) \/ RpcEnds(r) \/ CallEnds(r) \/ Answer(r)
  PROVE  IInv'
<1>0. /\ TypeInv /\ ServersFollowSchema /\ OpenUntilDrained /\ CallsAreServed
      /\ RequestsAreServed /\ UserMicroFinishesItsCalls /\ ResourcesOutliveRequests
  BY DEF IInv
<1>1. "auth" \in Services /\ "user" \in Services /\ Db("auth") = "authDb"
      /\ Db("user") = "userDb"
  BY DEF Services, Db
<1>2. InProgress(r) /\ ~late => {"calls", "authDb"} \subseteq open
  BY <1>0, <1>1 DEF TypeInv, OpenUntilDrained, RequestsAreServed, Alive, IsUp,
     IsStopping
<1>3. rpc[r] = "running" => "userDb" \in open
  BY <1>0, <1>1 DEF OpenUntilDrained, CallsAreServed
<1>4. UNCHANGED <<env, same_key, schema, faults, told, unheard, main, server, open, late>>
  BY DEF Accept, Call, RpcEnds, CallEnds, Answer, outside
<1>5. ServersFollowSchema' /\ OpenUntilDrained'
  BY <1>0, <1>4 DEF ServersFollowSchema, OpenUntilDrained, Alive, IsUp, IsStopping
<1>6. ASSUME NEW a \in {"handling", "calling", "resumed", "answered"},
             at' = [at EXCEPT ![r] = a],
             InProgress(r) \/ IsUp("auth")
      PROVE  RequestsAreServed'
  <2> SUFFICES ASSUME NEW q \in Requests, InProgress(q)'
               PROVE  Alive("auth") /\ (main["auth"] = "drained" => late)
    BY <1>4 DEF RequestsAreServed, Alive, IsUp, IsStopping
  <2>1. CASE q = r
    BY <1>0, <1>6, <2>1 DEF RequestsAreServed, Alive, IsUp, IsStopping
  <2>2. CASE q # r
    <3>1. InProgress(q)
      BY <1>0, <1>6, <2>2 DEF TypeInv, InProgress
    <3> QED  BY <1>0, <3>1 DEF RequestsAreServed
  <2> QED  BY <2>1, <2>2
<1>7. ASSUME UNCHANGED rpc
      PROVE  CallsAreServed' /\ UserMicroFinishesItsCalls'
  BY <1>0, <1>4, <1>7 DEF CallsAreServed, UserMicroFinishesItsCalls
<1>8. ASSUME UNCHANGED broken
      PROVE  ResourcesOutliveRequests'
  BY <1>0, <1>4, <1>8 DEF ResourcesOutliveRequests
<1>9. ASSUME InProgress(r), NEW resource \in {"calls", "authDb"}, Breaks(r, resource)
      PROVE  broken' \subseteq Requests /\ ResourcesOutliveRequests'
  BY <1>0, <1>2, <1>4, <1>9 DEF TypeInv, Breaks, ResourcesOutliveRequests
<1>10. CASE Accept(r)
  <2>1. /\ at' = [at EXCEPT ![r] = "handling"] /\ IsUp("auth")
        /\ UNCHANGED <<rpc, broken>>
    BY <1>10 DEF Accept
  <2>2. TypeInv'
    BY <1>0, <1>4, <2>1 DEF TypeInv
  <2> QED  BY <1>5, <1>6, <1>7, <1>8, <2>1, <2>2 DEF IInv
<1>11. CASE Call(r)
  <2>0. InProgress(r) /\ Breaks(r, "calls")
    BY <1>11 DEF Call, InProgress
  <2>1. CASE "calls" \in open /\ IsUp("user") /\ server["user"] = "serving" /\ HasKey
    <3>1. /\ at' = [at EXCEPT ![r] = "calling"]
          /\ rpc' = [rpc EXCEPT ![r] = "running"]
      BY <1>11, <2>1 DEF Call
    <3>2. TypeInv'
      BY <1>0, <1>4, <1>9, <2>0, <3>1 DEF TypeInv
    <3>3. CallsAreServed'
      BY <1>0, <1>4, <2>1, <3>1 DEF TypeInv, CallsAreServed, IsUp
    <3>4. UserMicroFinishesItsCalls'
      BY <1>0, <1>4, <3>1 DEF TypeInv, UserMicroFinishesItsCalls
    <3> QED  BY <1>5, <1>6, <1>9, <2>0, <3>1, <3>2, <3>3, <3>4 DEF IInv
  <2>2. CASE ~("calls" \in open /\ IsUp("user") /\ server["user"] = "serving" /\ HasKey)
    <3>1. at' = [at EXCEPT ![r] = "resumed"] /\ UNCHANGED rpc
      BY <1>11, <2>2 DEF Call
    <3>2. TypeInv'
      BY <1>0, <1>4, <1>9, <2>0, <3>1 DEF TypeInv
    <3> QED  BY <1>5, <1>6, <1>7, <1>9, <2>0, <3>1, <3>2 DEF IInv
  <2> QED  BY <2>1, <2>2
<1>12. CASE RpcEnds(r)
  <2>1. rpc' = [rpc EXCEPT ![r] = "done"] /\ UNCHANGED <<at, broken>>
    BY <1>3, <1>12 DEF RpcEnds
  <2>2. TypeInv'
    BY <1>0, <1>4, <2>1 DEF TypeInv
  <2>3. CallsAreServed' /\ UserMicroFinishesItsCalls'
    BY <1>0, <1>4, <2>1 DEF TypeInv, CallsAreServed, UserMicroFinishesItsCalls
  <2>4. RequestsAreServed'
    BY <1>0, <1>4, <2>1 DEF RequestsAreServed, InProgress, Alive, IsUp, IsStopping
  <2> QED  BY <1>5, <1>8, <2>1, <2>2, <2>3, <2>4 DEF IInv
<1>13. CASE CallEnds(r)
  <2>1. /\ InProgress(r) /\ at' = [at EXCEPT ![r] = "resumed"]
        /\ rpc[r] = "running" => "calls" \notin open
        /\ broken' = IF rpc[r] = "running" THEN broken \cup {r} ELSE broken
        /\ UNCHANGED rpc
    BY <1>13 DEF CallEnds, InProgress
  <2>2. TypeInv'
    BY <1>0, <1>4, <2>1 DEF TypeInv
  <2>3. ResourcesOutliveRequests'
    BY <1>0, <1>2, <1>4, <2>1 DEF TypeInv, ResourcesOutliveRequests
  <2> QED  BY <1>5, <1>6, <1>7, <2>1, <2>2, <2>3 DEF IInv
<1>14. CASE Answer(r)
  <2>1. /\ InProgress(r) /\ at' = [at EXCEPT ![r] = "answered"]
        /\ Breaks(r, "authDb") /\ UNCHANGED rpc
    BY <1>14 DEF Answer, InProgress
  <2>2. TypeInv'
    BY <1>0, <1>4, <1>9, <2>1 DEF TypeInv
  <2> QED  BY <1>5, <1>6, <1>7, <1>9, <2>1, <2>2 DEF IInv
<1> QED  BY <1>10, <1>11, <1>12, <1>13, <1>14

(* Each step of either process, of a request or of Docker preserves it. *)
LEMMA NextIInv == IInv /\ [Next]_vars => IInv'
<1> SUFFICES ASSUME IInv, [Next]_vars PROVE IInv'
  OBVIOUS
<1>1. ASSUME NEW s \in Services,
             Starting(s) \/ StartFails(s) \/ Serving(s) \/ Signal(s)
             \/ SignalIsUnheard(s) \/ Stopping(s)
      PROVE  IInv'
  BY <1>1, StartingKeepsIInv, ServingKeepsIInv, SignalsKeepIInv, StoppingKeepsIInv
<1>2. ASSUME NEW r \in Requests,
             Accept(r) \/ Call(r) \/ RpcEnds(r) \/ CallEnds(r) \/ Answer(r)
      PROVE  IInv'
  BY <1>2, RequestsKeepIInv
<1>3. CASE UNCHANGED vars
  BY <1>3 DEF vars, outside, requests, IInv, TypeInv, ServersFollowSchema,
     OpenUntilDrained, CallsAreServed, RequestsAreServed,
     UserMicroFinishesItsCalls, ResourcesOutliveRequests, InProgress, Alive,
     IsUp, IsStopping
<1> QED  BY <1>1, <1>2, <1>3 DEF Next, Terminating

(* So the invariant holds from the start. *)
LEMMA Invariance == Spec => []IInv
BY InitIInv, NextIInv, PTL DEF Spec

-----------------------------------------------------------------------------
(* However often a start failed or was killed in the middle of a migration, *)
(* no service opens its listener on a schema that is not complete           *)
(* (postgres.go:44-58).                                                     *)
THEOREM NoServiceOnAPartialSchema == Spec => []ServedOnCompleteSchema
<1>1. IInv => ServedOnCompleteSchema
  BY DEF IInv, ServersFollowSchema, ServedOnCompleteSchema
<1> QED  BY <1>1, Invariance, PTL

(* userMicro neither exits during a call nor closes its database under one, *)
(* unless the signal came between start() and Notify (main.go:140-147).     *)
THEOREM UserMicroServesToTheEnd == Spec => []UserMicroFinishesItsCalls
<1>1. IInv => UserMicroFinishesItsCalls
  BY DEF IInv
<1> QED  BY <1>1, Invariance, PTL

(* A request of authMicro finds the connection to userMicro or the database *)
(* closed only after the five seconds of the shutdown (main.go:263-283).    *)
THEOREM RequestsFindTheirResources == Spec => []ResourcesOutliveRequests
<1>1. IInv => ResourcesOutliveRequests
  BY DEF IInv
<1> QED  BY <1>1, Invariance, PTL

=============================================================================
