---------------------------- MODULE ServerProofs ----------------------------
(***************************************************************************)
(* Proofs about Server and Migrations, for any number of requests and      *)
(* migrate processes, any configuration files, and any bounds.             *)
(***************************************************************************)
EXTENDS Server, TLAPS

------------------------------------------------------------------------------
(* The inductive invariant, by parts. *)

\* Who runs a migration holds the lock and has marked the version dirty, and up
\* only ever goes to version 1.  Outside of a migration the version tells
\* whether the table is there, unless it was forced.
MigrationInv ==
    /\ \A m \in Migrators : command[m].pc \in {"run", "clean"} =>
          /\ lock = m /\ dirty /\ command[m].kind \in {"up", "down"}
          /\ command[m].kind = "up" => version = 1
          /\ command[m].pc = "clean" => (table <=> version = 1)
    /\ (~dirty /\ ~forced) => (table <=> version = 1)

\* The commands do nothing to a backend without migrations.
CommandInv ==
    \A m \in Migrators : command[m].pc # "idle" => Config.audit.backend = "sql"

\* The phases that follow each other once a dependency is built.
SinceHandler == {"handler", "listen", "tls", "serving", "draining"}
SinceService == {"service"} \cup SinceHandler
SinceAudit == {"audit"} \cup SinceService
SinceSelector == {"selector"} \cup SinceAudit
SinceStore == {"store"} \cup SinceSelector

\* What is built stays open until the closers run.
OpenInv ==
    /\ phase \in SinceSelector => "store" \in open
    /\ phase \in SinceService => "audit" \in open
    /\ phase \in SinceHandler => "loop" \in open
    /\ phase \in SinceStore /\ Config.otel.enabled => Telemetry \subseteq open

\* What a file must have for the process to get that far.
ConfigInv ==
    /\ phase \notin {"load", "closing", "ended"} => Valid(Config)
    /\ phase \in SinceSelector => Config.selector.type \in {"memory", "redis", "dynamodb"}
    /\ phase \in SinceAudit => Config.apps # {}
    /\ phase \in SinceHandler => Config.policy.providers # {}

\* The closers close all that is left open when they are done, apart from what
\* they fail to close; none fails to stop the loop.
ClosingInv ==
    /\ phase \in {"listen", "tls", "serving", "draining"} => closers = Closers
    /\ phase = "draining" => "listener" \notin open
    /\ phase = "closing" =>
          \/ closers = Closers /\ open \subseteq {"loop", "audit", "store"} \cup Telemetry
          \/ closers = Tail(Closers) /\ open \subseteq {"store"} \cup Telemetry \cup failed
          \/ closers = Tail(Tail(Closers)) /\ open \subseteq Telemetry \cup failed
          \/ closers = <<>> /\ open \subseteq failed
    /\ exit = "ok" => open \subseteq failed
    /\ failed \subseteq {"audit", "store"} \cup Telemetry

\* Requests are handled only while the server serves or drains; what a request
\* has got so far.
GoodRequest(q, cached) ==
    /\ q.pc \in RequestSteps => /\ phase \in {"serving", "draining"}
                                /\ q.n \in 1 .. MaxOps /\ q.id \in ClientIds \cup 1 .. MaxOps
    /\ q.pc = "cut" => exit = "error"
    /\ q.pc = "store" => q.provider # NoProvider
    /\ q.pc = "verify" => q.provider = cached /\ cached # NoProvider
    /\ (q.pc = "reply" /\ q.code = "ok") => q.granted

RequestInv == \A r \in Requests : GoodRequest(request[r], provider)

------------------------------------------------------------------------------
(* The process *)

\* The three providers, by name.
LEMMA TelemetryNames == Telemetry = {"tracer", "meter", "logs"} /\ Len(Providers) = 3
  <1>1. Len(Providers) = 3 /\ Providers[1] = "tracer" /\ Providers[2] = "meter" /\ Providers[3] = "logs"
    BY DEF Providers
  <1>2. 1 .. 3 = {1, 2, 3}
    OBVIOUS
  <1> QED
    BY <1>1, <1>2 DEF Telemetry

\* The closers, as far as they have run.
LEMMA CloserNames ==
    /\ Closers = <<"service", "store", "telemetry">>
    /\ Tail(Closers) = <<"store", "telemetry">>
    /\ Tail(Tail(Closers)) = <<"telemetry">>
    /\ Tail(Tail(Tail(Closers))) = <<>>
    /\ Head(Closers) = "service" /\ Head(Tail(Closers)) = "store"
    /\ Head(Tail(Tail(Closers))) = "telemetry"
    /\ Closers # <<>> /\ Tail(Closers) # <<>> /\ Tail(Tail(Closers)) # <<>>
    /\ Closers # Tail(Closers) /\ Closers # Tail(Tail(Closers))
    /\ Tail(Closers) # Tail(Tail(Closers))
  <1>1. Closers = <<"service", "store", "telemetry">>
    BY DEF Closers
  <1>2. Tail(Closers) = <<"store", "telemetry">>
    BY <1>1
  <1>3. Tail(Tail(Closers)) = <<"telemetry">>
    <2>1. Tail(<<"store", "telemetry">>) = <<"telemetry">>
      OBVIOUS
    <2> QED
      BY <1>2, <2>1, Zenon
  <1>4. Tail(Tail(Tail(Closers))) = <<>>
    <2>1. Tail(<<"telemetry">>) = <<>>
      OBVIOUS
    <2> QED
      BY <1>3, <2>1, Zenon
  <1> QED
    BY <1>1, <1>2, <1>3, <1>4

\* A step that ends the process.
Ends ==
    /\ phase # "ended" /\ phase' = "ended" /\ exit' \in {"ok", "error"}
    /\ open' \subseteq Resources /\ closers' = closers /\ failed' = failed
    /\ request' = [r \in Requests |-> IF Active(r) THEN [NoRequest EXCEPT !.pc = "cut"]
                                      ELSE request[r]]
    /\ exit' = "ok" => open' \subseteq failed' /\ \A r \in Requests : ~Active(r)

\* A step that goes on to another phase, or stays in one.
Moves ==
    /\ phase # "ended" /\ phase' \in Phases \ {"ended"} /\ exit' = exit /\ open' \subseteq Resources
    /\ closers' \in {Closers, Tail(Closers), Tail(Tail(Closers)), <<>>}
    /\ failed' \subseteq Resources /\ request' = request
    /\ (\E r \in Requests : Active(r)) => phase' \in {"serving", "draining"}

ProcessTypes ==
    /\ phase \in Phases /\ open \subseteq Resources /\ failed \subseteq Resources
    /\ exit \in {"none", "ok", "error"}
    /\ (exit = "none") <=> (phase # "ended")
    /\ closers \in {Closers, Tail(Closers), Tail(Tail(Closers)), <<>>}

ProcessInv == OpenInv /\ ConfigInv /\ ClosingInv

ProcessMoves == Moves /\ ProcessInv'

\* Exit with an error ends the process, whatever it leaves open.
LEMMA ExitEnds ==
    ASSUME NEW resources, Exit("error", resources), resources \subseteq Resources, phase # "ended"
    PROVE  Ends
  BY DEF Exit, Ends

\* Nothing is handled outside of serving and draining.
LEMMA NoneActive ==
    ASSUME RequestInv, phase \notin {"serving", "draining"}
    PROVE  \A r \in Requests : ~Active(r)
  BY DEF RequestInv, GoodRequest, Active

\* The steps of Init and serve up to the first request: each goes on with what
\* the next one needs, or ends the process.
LEMMA BuildSteps ==
    ASSUME ProcessTypes, ProcessInv, RequestInv, UNCHANGED file,
           \/ LoadConfig \/ InitTelemetry \/ NewProvider \/ BuildStore \/ BuildSelector
           \/ BuildAudit \/ BuildService \/ BuildHandler \/ Listen \/ LoadCertificate
    PROVE  Ends \/ ProcessMoves
  <1>0. Config' = Config
    BY DEF Config
  <1> USE DEF ProcessTypes, ProcessInv, OpenInv, ConfigInv, ClosingInv, Phases, Resources,
              SinceStore, SinceSelector, SinceAudit, SinceService, SinceHandler
  <1>1. CASE LoadConfig
    <2>1. CASE Valid(Config) /\ Proceed("telemetry", open) /\ UNCHANGED request
      BY <1>0, <1>1, <2>1, NoneActive DEF LoadConfig, Proceed, ProcessMoves, Moves
    <2>2. CASE Exit("error", open)
      BY <1>1, <2>2, ExitEnds DEF LoadConfig
    <2> QED
      BY <1>1, <2>1, <2>2 DEF LoadConfig
  <1>2. CASE InitTelemetry
    <2>1. CASE ~Config.otel.enabled /\ Proceed("store", open) /\ UNCHANGED request
      BY <1>0, <1>2, <2>1, NoneActive DEF InitTelemetry, Proceed, ProcessMoves, Moves
    <2>2. CASE Config.otel.enabled /\ Proceed("providers", open) /\ UNCHANGED request
      BY <1>0, <1>2, <2>2, NoneActive DEF InitTelemetry, Proceed, ProcessMoves, Moves
    <2>3. CASE Exit("error", open)
      BY <1>2, <2>3, ExitEnds DEF InitTelemetry
    <2> QED
      BY <1>2, <2>1, <2>2, <2>3 DEF InitTelemetry
  <1>3. CASE NewProvider
    <2>1. ASSUME NEW n \in 1 .. Len(Providers),
                 \A i \in 1 .. Len(Providers) : Providers[i] \in open <=> i < n,
                 Proceed(IF n < Len(Providers) THEN "providers" ELSE "store", open \cup {Providers[n]}),
                 UNCHANGED request
          PROVE  ProcessMoves
      <3>1. /\ n \in 1 .. 3 /\ Providers[1] = "tracer" /\ Providers[2] = "meter"
            /\ Providers[3] = "logs"
        BY TelemetryNames DEF Providers
      <3>2. Providers[n] \in Telemetry /\ (~(n < 3) => Telemetry \subseteq open')
        BY <2>1, <3>1, TelemetryNames DEF Proceed
      <3>3. phase' = IF n < 3 THEN "providers" ELSE "store"
        BY <2>1, TelemetryNames DEF Proceed
      <3>4. open' = open \cup {Providers[n]} /\ open' \subseteq Resources
        BY <2>1, <3>2 DEF Proceed
      <3>5. UNCHANGED <<exit, closers, failed, request>> /\ phase = "providers"
        BY <1>3, <2>1 DEF Proceed, NewProvider
      <3>6. Moves
        BY <3>3, <3>4, <3>5, NoneActive DEF Moves
      <3>7. ProcessInv'
        <4>1. CASE n < 3
          BY <1>0, <3>3, <3>5, <4>1
        <4>2. CASE ~(n < 3)
          BY <1>0, <3>2, <3>3, <3>5, <4>2
        <4> QED
          BY <4>1, <4>2
      <3> QED
        BY <3>6, <3>7 DEF ProcessMoves
    <2>2. CASE Exit("error", open \ Telemetry)
      BY <1>3, <2>2, ExitEnds DEF NewProvider
    <2> QED
      BY <1>3, <2>1, <2>2 DEF NewProvider
  <1>4. CASE BuildStore
    <2>1. CASE /\ Config.selector.type \in {"memory", "redis", "dynamodb"}
               /\ Proceed("selector", open \cup {"store"}) /\ UNCHANGED request
      <3>1. phase = "store" /\ phase' = "selector" /\ open' = open \cup {"store"}
        BY <1>4, <2>1 DEF BuildStore, Proceed
      <3>2. UNCHANGED <<exit, closers, failed, request>>
        BY <2>1 DEF Proceed
      <3>3. Moves
        BY <3>1, <3>2, NoneActive DEF Moves
      <3>4. ProcessInv'
        BY <1>0, <2>1, <3>1, <3>2
      <3> QED
        BY <3>3, <3>4 DEF ProcessMoves
    <2>2. CASE Exit("error", (open \cup {"store"}) \ Telemetry)
      BY <1>4, <2>2, ExitEnds DEF BuildStore
    <2>3. CASE DependenciesFail({})
      BY <1>4, <2>3, ExitEnds DEF BuildStore, DependenciesFail
    <2> QED
      BY <1>4, <2>1, <2>2, <2>3 DEF BuildStore
  <1>5. CASE BuildSelector
    <2>1. CASE Config.apps # {} /\ Proceed("audit", open) /\ UNCHANGED request
      BY <1>0, <1>5, <2>1, NoneActive DEF BuildSelector, Proceed, ProcessMoves, Moves
    <2>2. CASE DependenciesFail({"store"})
      BY <1>5, <2>2, ExitEnds DEF BuildSelector, DependenciesFail
    <2> QED
      BY <1>5, <2>1, <2>2 DEF BuildSelector
  <1>6. CASE BuildAudit
    <2>1. CASE Proceed("service", open \cup {"audit"}) /\ UNCHANGED request
      BY <1>0, <1>6, <2>1, NoneActive DEF BuildAudit, Proceed, ProcessMoves, Moves
    <2>2. CASE NewDBFails \/ NewDynamoDBFails
      BY <1>6, <2>2, ExitEnds DEF BuildAudit, NewDBFails, NewDynamoDBFails, DependenciesFail
    <2> QED
      BY <1>6, <2>1, <2>2 DEF BuildAudit
  <1>7. CASE BuildService
    <2>1. CASE /\ ValidatorIsConfigured /\ Proceed("handler", open \cup {"loop"})
               /\ UNCHANGED request
      BY <1>0, <1>7, <2>1, NoneActive
         DEF BuildService, ValidatorIsConfigured, Proceed, ProcessMoves, Moves
    <2>2. CASE DependenciesFail({"audit", "store"})
      BY <1>7, <2>2, ExitEnds DEF BuildService, DependenciesFail
    <2> QED
      BY <1>7, <2>1, <2>2 DEF BuildService
  <1>8. CASE BuildHandler
    <2>1. CASE phase' = "listen" /\ closers' = Closers /\ UNCHANGED <<exit, open, failed, request>>
      BY <1>0, <1>8, <2>1, NoneActive DEF BuildHandler, ProcessMoves, Moves
    <2>2. CASE Exit("error", open \ Telemetry)
      BY <1>8, <2>2, ExitEnds DEF BuildHandler
    <2> QED
      BY <1>8, <2>1, <2>2 DEF BuildHandler
  <1>9. CASE Listen
    <2>1. CASE Proceed("tls", open \cup {"listener"}) /\ UNCHANGED request
      BY <1>0, <1>9, <2>1, NoneActive DEF Listen, Proceed, ProcessMoves, Moves
    <2>2. CASE Exit("error", open)
      BY <1>9, <2>2, ExitEnds DEF Listen
    <2> QED
      BY <1>9, <2>1, <2>2 DEF Listen
  <1>10. CASE LoadCertificate
    <2>1. CASE Proceed("serving", open) /\ UNCHANGED request
      BY <1>0, <1>10, <2>1, NoneActive DEF LoadCertificate, Proceed, ProcessMoves, Moves
    <2>2. CASE Exit("error", open \ {"listener"})
      BY <1>10, <2>2, ExitEnds DEF LoadCertificate
    <2> QED
      BY <1>10, <2>1, <2>2 DEF LoadCertificate
  <1> QED
    BY <1>1, <1>2, <1>3, <1>4, <1>5, <1>6, <1>7, <1>8, <1>9, <1>10

\* The steps that end serving: draining closes the listener, and each closer
\* closes its own; the process ends well only when all is closed.
LEMMA EndSteps ==
    ASSUME ProcessTypes, ProcessInv, RequestInv, UNCHANGED file,
           \/ ServeFails \/ Killed \/ Signal \/ Drained \/ DrainTimeout \/ CloseNext \/ CloseDone
    PROVE  Ends \/ ProcessMoves
  <1>0. Config' = Config
    BY DEF Config
  <1> USE DEF ProcessTypes, ProcessInv, OpenInv, ConfigInv, ClosingInv, Phases, Resources,
              SinceStore, SinceSelector, SinceAudit, SinceService, SinceHandler
  <1>1. CASE ServeFails \/ Killed \/ DrainTimeout
    BY <1>1, ExitEnds DEF ServeFails, Killed, DrainTimeout
  <1>2. CASE Signal
    <2>1. /\ phase = "serving" /\ phase' = "draining" /\ open' = open \ {"listener"}
          /\ UNCHANGED <<exit, closers, failed, request>>
      BY <1>2 DEF Signal, Proceed
    <2>2. Moves
      BY <2>1 DEF Moves
    <2>3. Telemetry \subseteq open => Telemetry \subseteq open'
      BY <2>1, TelemetryNames
    <2>4. ProcessInv'
      BY <1>0, <2>1, <2>3
    <2> QED
      BY <2>2, <2>4 DEF ProcessMoves
  <1>3. CASE Drained
    <2>1. open \subseteq {"loop", "audit", "store"} \cup Telemetry
      BY <1>3 DEF Drained
    <2> QED
      BY <1>0, <1>3, <2>1 DEF Drained, Proceed, ProcessMoves, Moves
  <1>4. CASE CloseNext
    <2>1. /\ phase = "closing" /\ closers # <<>> /\ closers' = Tail(closers)
          /\ UNCHANGED <<phase, exit, request>>
      BY <1>4 DEF CloseNext
    <2>2. PICK left \in SUBSET (ClosedBy(Head(closers)) \cap open \cap MayFail) :
             /\ open' = (open \ ClosedBy(Head(closers))) \cup left
             /\ failed' = failed \cup left
      BY <1>4 DEF CloseNext, Close
    <2>3. left \subseteq open /\ left \subseteq {"audit", "store"} \cup Telemetry
      BY <2>2 DEF MayFail
    <2>4. open' \subseteq Resources /\ failed' \subseteq {"audit", "store"} \cup Telemetry
      BY <2>2, <2>3
    <2>5. Moves
      <3>1. closers' \in {Closers, Tail(Closers), Tail(Tail(Closers)), <<>>}
        BY <2>1, CloserNames
      <3> QED
        BY <2>1, <2>4, <3>1, NoneActive DEF Moves
    <2>6. OpenInv' /\ ConfigInv'
      BY <2>1
    <2>7. exit # "ok"
      BY <2>1
    <2>8. CASE closers = Closers
      <3>1. open' \subseteq {"store"} \cup Telemetry \cup failed'
        BY <2>1, <2>2, <2>8, CloserNames DEF ClosedBy
      <3> QED
        BY <2>1, <2>4, <2>5, <2>6, <2>7, <2>8, <3>1, CloserNames DEF ProcessMoves
    <2>9. CASE closers = Tail(Closers)
      <3>1. open' \subseteq Telemetry \cup failed'
        BY <2>1, <2>2, <2>9, CloserNames DEF ClosedBy
      <3> QED
        BY <2>1, <2>4, <2>5, <2>6, <2>7, <2>9, <3>1, CloserNames DEF ProcessMoves
    <2>10. CASE closers = Tail(Tail(Closers))
      <3>1. open' \subseteq failed'
        BY <2>1, <2>2, <2>10, CloserNames DEF ClosedBy
      <3> QED
        BY <2>1, <2>4, <2>5, <2>6, <2>7, <2>10, <3>1, CloserNames DEF ProcessMoves
    <2> QED
      BY <2>1, <2>8, <2>9, <2>10
  <1>5. CASE CloseDone
    <2>1. phase = "closing" /\ open \subseteq failed /\ Exit("ok", open)
      BY <1>5, CloserNames DEF CloseDone
    <2> QED
      BY <2>1, NoneActive DEF Exit, Ends
  <1> QED
    BY <1>1, <1>2, <1>3, <1>4, <1>5

------------------------------------------------------------------------------
(* Steps of the process keep the invariant *)

Inv == TypeOK /\ MigrationInv /\ CommandInv /\ ProcessInv /\ RequestInv

\* TypeOK by parts.
LEMMA TypeParts ==
    /\ TypeOK <=> /\ MigrationsTypeOK /\ entries \subseteq Entry /\ ProcessTypes
                  /\ provider \in 1 .. MaxOps \cup {NoProvider} /\ request \in [Requests -> RequestState]
                  /\ reply \in Replies /\ clock \in 0 .. MaxClock
    /\ TypeOK' <=> /\ MigrationsTypeOK' /\ entries' \subseteq Entry /\ ProcessTypes'
                   /\ provider' \in 1 .. MaxOps \cup {NoProvider} /\ request' \in [Requests -> RequestState]
                   /\ reply' \in Replies /\ clock' \in 0 .. MaxClock
  BY DEF TypeOK, ProcessTypes

\* The records of an idle and of a cut request, and the reply of a step that gives none.
LEMMA RequestTypes ==
    /\ NoRequest \in RequestState /\ [NoRequest EXCEPT !.pc = "cut"] \in RequestState
    /\ NoRequest.pc = "idle" /\ [NoRequest EXCEPT !.pc = "cut"].pc = "cut"
    /\ NoReply \in Replies
  <1>1. 0 \in 0 .. MaxOps
    BY MigrationsConstants
  <1> QED
    BY <1>1 DEF NoRequest, RequestState, Codes, NoReply, Replies

\* The rest of the state is as it was.
LEMMA OthersSame ==
    ASSUME UNCHANGED Others
    PROVE  /\ UNCHANGED <<file, version, dirty, table, forced, lock, entries, command>>
           /\ UNCHANGED <<ops, provider, clock>>
  BY DEF Others, migrationVars, schemaVars

\* Every step of the process, whether it goes on or ends, keeps the invariant.
LEMMA ProcessKeeps ==
    ASSUME Inv, UNCHANGED Others, reply' = NoReply, Ends \/ ProcessMoves
    PROVE  Inv'
  <1>1. MigrationInv' /\ CommandInv'
    BY OthersSame DEF Inv, MigrationInv, CommandInv, Config
  <1>2. MigrationsTypeOK' /\ entries' \subseteq Entry /\ provider' = provider /\ clock' = clock
    <2>1. MigrationsTypeOK /\ entries \subseteq Entry
      BY TypeParts DEF Inv
    <2> QED
      BY <2>1, OthersSame DEF MigrationsTypeOK
  <1>3. phase # "ended" /\ exit = "none"
    BY TypeParts DEF Inv, ProcessTypes, Ends, ProcessMoves, Moves
  <1>4. CASE Ends
    <2>1. /\ request' = [r \in Requests |-> IF Active(r) THEN [NoRequest EXCEPT !.pc = "cut"]
                                            ELSE request[r]]
          /\ phase' = "ended" /\ exit' \in {"ok", "error"}
      BY <1>4 DEF Ends
    <2>2. TypeOK'
      <3>1. request' \in [Requests -> RequestState]
        BY <2>1, TypeParts, RequestTypes DEF Inv
      <3>2. ProcessTypes'
        BY <1>4, <2>1, TypeParts DEF Ends, Phases, ProcessTypes, Inv
      <3> QED
        BY <1>2, <3>1, <3>2, TypeParts, RequestTypes DEF Inv
    <2>3. ProcessInv'
      <3>1. failed' \subseteq {"audit", "store"} \cup Telemetry
        BY <1>4 DEF Ends, Inv, ProcessInv, ClosingInv
      <3> QED
        BY <1>4, <3>1 DEF Ends, ProcessInv, OpenInv, ConfigInv, ClosingInv, SinceStore,
                          SinceSelector, SinceAudit, SinceService, SinceHandler
    <2>4. ASSUME NEW r \in Requests PROVE GoodRequest(request[r], provider)'
      <3>1. CASE Active(r)
        <4>1. request'[r] = [NoRequest EXCEPT !.pc = "cut"] /\ exit' = "error"
          BY <1>4, <2>1, <3>1 DEF Ends
        <4> QED
          BY <4>1, RequestTypes DEF GoodRequest, RequestSteps
      <3>2. CASE ~Active(r)
        <4>1. request'[r] = request[r] /\ request[r].pc \notin RequestSteps
          BY <2>1, <3>2 DEF Active
        <4>2. request[r].pc # "cut"
          BY <1>3 DEF Inv, RequestInv, GoodRequest
        <4> QED
          BY <4>1, <4>2 DEF GoodRequest, RequestSteps
      <3> QED
        BY <3>1, <3>2
    <2> QED
      BY <1>1, <2>2, <2>3, <2>4 DEF Inv, RequestInv
  <1>5. CASE ProcessMoves
    <2>1. request' = request /\ exit' = exit /\ phase' # "ended"
      BY <1>5 DEF ProcessMoves, Moves
    <2>2. TypeOK'
      <3>1. ProcessTypes'
        BY <1>3, <1>5, <2>1 DEF ProcessMoves, Moves, ProcessTypes
      <3> QED
        BY <1>2, <2>1, <3>1, TypeParts, RequestTypes DEF Inv
    <2>3. ASSUME NEW r \in Requests PROVE GoodRequest(request[r], provider)'
      <3>1. request[r].pc \in RequestSteps => phase' \in {"serving", "draining"}
        BY <1>5 DEF ProcessMoves, Moves, Active
      <3> QED
        BY <1>2, <2>1, <3>1 DEF Inv, RequestInv, GoodRequest
    <2> QED
      BY <1>1, <1>5, <2>2, <2>3 DEF ProcessMoves, Inv, RequestInv
  <1> QED
    BY <1>4, <1>5

------------------------------------------------------------------------------
(* Steps of requests keep the invariant *)

\* A step that leaves the migrations alone.
LEMMA MigrationsSame ==
    ASSUME Inv, UNCHANGED <<file, schemaVars, command>>, ops' \in 0 .. MaxOps
    PROVE  MigrationsTypeOK' /\ MigrationInv' /\ CommandInv'
  <1>1. MigrationsTypeOK /\ MigrationInv /\ CommandInv
    BY TypeParts DEF Inv
  <1>2. MigrationsTypeOK'
    BY <1>1 DEF schemaVars, MigrationsTypeOK
  <1>3. MigrationInv'
    BY <1>1 DEF schemaVars, MigrationInv
  <1>4. CommandInv'
    BY <1>1 DEF CommandInv, Config
  <1> QED
    BY <1>2, <1>3, <1>4

\* A step that leaves the process alone.
LEMMA ProcessSame ==
    ASSUME Inv, UNCHANGED <<file, processVars>>
    PROVE  ProcessTypes' /\ ProcessInv'
  <1>1. ProcessTypes /\ ProcessInv
    BY TypeParts DEF Inv
  <1>2. Config' = Config
    BY DEF Config
  <1>3. ProcessTypes'
    BY <1>1 DEF processVars, ProcessTypes
  <1>4. ProcessInv'
    BY <1>1, <1>2 DEF processVars, ProcessInv, OpenInv, ConfigInv, ClosingInv
  <1> QED
    BY <1>3, <1>4

\* A step that changes one request into a good one.
LEMMA RequestKeeps ==
    ASSUME Inv, NEW r \in Requests, NEW q \in RequestState, request' = [request EXCEPT ![r] = q],
           UNCHANGED <<file, schemaVars, command, processVars>>, ops' \in 0 .. MaxOps,
           entries' \subseteq Entry, reply' \in Replies, clock' \in 0 .. MaxClock,
           provider' \in 1 .. MaxOps \cup {NoProvider},
           provider' = provider \/ provider = NoProvider,
           GoodRequest(q, provider')
    PROVE  Inv'
  <1>1. MigrationsTypeOK' /\ MigrationInv' /\ CommandInv' /\ ProcessTypes' /\ ProcessInv'
    BY MigrationsSame, ProcessSame
  <1>2. request \in [Requests -> RequestState]
    BY TypeParts DEF Inv
  <1>3. TypeOK'
    BY <1>1, <1>2, TypeParts
  <1>4. ASSUME NEW p \in Requests PROVE GoodRequest(request[p], provider)'
    <2>1. phase' = phase /\ exit' = exit
      BY DEF processVars
    <2>2. GoodRequest(request[p], provider)
      BY DEF Inv, RequestInv
    <2>3. CASE p = r
      BY <1>2, <2>1, <2>3 DEF GoodRequest
    <2>4. CASE p # r
      <3>1. request'[p] = request[p]
        BY <1>2, <2>4
      <3> QED
        BY <2>1, <2>2, <3>1 DEF GoodRequest
    <2> QED
      BY <2>3, <2>4
  <1> QED
    BY <1>1, <1>3, <1>4 DEF Inv, RequestInv

\* Every status the server replies with is one of the API.
LEMMA ReplyTypes ==
    /\ \A code : Reply(code) \in Replies
    /\ \A path, origin : Route(path, origin) \in {0, 200, 403, 404}
  <1>1. \A code : HttpStatusCode(code) \in {200, 400, 401, 403, 404, 429, 500, 502}
    BY DEF HttpStatusCode
  <1>2. \A code : Reply(code) \in Replies
    BY <1>1 DEF Reply, Replies
  <1>3. \A path, origin : Route(path, origin) \in {0, 200, 403, 404}
    BY DEF Route
  <1> QED
    BY <1>2, <1>3

\* What the other variables are in a step of the validator or a reply.
LEMMA FrameSame ==
    ASSUME Inv, UNCHANGED requestFrame
    PROVE  /\ UNCHANGED <<file, schemaVars, command, processVars, entries, ops, clock>>
           /\ ops' \in 0 .. MaxOps /\ entries' \subseteq Entry /\ clock' \in 0 .. MaxClock
           /\ provider \in 1 .. MaxOps \cup {NoProvider}
           /\ request \in [Requests -> RequestState]
  <1>1. UNCHANGED <<file, schemaVars, command, processVars, entries, ops, clock>>
    BY DEF requestFrame, migrationVars
  <1> QED
    BY <1>1, TypeParts DEF Inv, MigrationsTypeOK

\* A handler that replies leaves nothing behind.
LEMMA AnswerKeeps ==
    ASSUME Inv, NEW r \in Requests, NEW code, Answer(r, code), UNCHANGED <<requestFrame, provider>>
    PROVE  Inv'
  <1>1. request' = [request EXCEPT ![r] = NoRequest] /\ reply' \in Replies
    BY ReplyTypes DEF Answer
  <1>2. GoodRequest(NoRequest, provider)
    BY RequestTypes DEF GoodRequest, RequestSteps
  <1> QED
    BY <1>1, <1>2, RequestKeeps, RequestTypes, FrameSame

\* The steps of Validator.Validate, the decision and the reply.
LEMMA ValidatorSteps ==
    ASSUME Inv, NEW r \in Requests,
           \/ LookUpProvider(r) \/ Discover(r) \/ StoreProvider(r) \/ Verify(r) \/ Decide(r)
           \/ Respond(r) \/ Panic(r)
    PROVE  Inv'
  <1>1. request[r] \in RequestState /\ request \in [Requests -> RequestState]
    BY TypeParts DEF Inv
  <1>2. GoodRequest(request[r], provider) /\ UNCHANGED requestFrame
    BY DEF Inv, RequestInv, LookUpProvider, Discover, StoreProvider, Verify, Decide, Respond, Panic
  <1>3. ASSUME NEW code, Answer(r, code), UNCHANGED provider PROVE Inv'
    BY <1>2, <1>3, AnswerKeeps
  <1>4. ASSUME NEW q \in RequestState, request' = [request EXCEPT ![r] = q],
               q.n = request[r].n, q.id = request[r].id, request[r].pc \in RequestSteps,
               q.pc \in RequestSteps, reply' = NoReply, q.pc # "reply",
               q.pc = "store" => q.provider # NoProvider,
               q.pc = "verify" => q.provider = provider' /\ provider' # NoProvider,
               provider' \in 1 .. MaxOps \cup {NoProvider},
               provider' = provider \/ provider = NoProvider
        PROVE  Inv'
    <2>1. q.pc # "cut"
      BY <1>4 DEF RequestSteps
    <2>2. GoodRequest(q, provider')
      BY <1>2, <1>4, <2>1 DEF GoodRequest
    <2> QED
      BY <1>2, <1>4, <2>2, RequestKeeps, RequestTypes, FrameSame
  <1>5. CASE LookUpProvider(r)
    <2>1. CASE Answer(r, "INVALID_TOKEN")
      BY <1>3, <1>5, <2>1 DEF LookUpProvider
    <2>2. CASE /\ request' = [request EXCEPT
                     ![r].pc = IF provider = NoProvider THEN "discover" ELSE "verify",
                     ![r].provider = provider]
               /\ reply' = NoReply
      <3> DEFINE q == [request[r] EXCEPT !.pc = IF provider = NoProvider THEN "discover" ELSE "verify",
                                         !.provider = provider]
      <3>1. request[r].pc \in RequestSteps /\ provider' = provider
        BY <1>5 DEF LookUpProvider, RequestSteps
      <3>2. request' = [request EXCEPT ![r] = q]
        BY <1>1, <2>2
      <3>3. provider \in 1 .. MaxOps \cup {NoProvider}
        BY TypeParts DEF Inv
      <3>4. /\ q \in RequestState /\ q.n = request[r].n /\ q.id = request[r].id
            /\ q.pc = IF provider = NoProvider THEN "discover" ELSE "verify"
            /\ q.provider = provider
        BY <1>1, <3>3 DEF RequestState, RequestSteps
      <3> HIDE DEF q
      <3> QED
        BY <1>4, <2>2, <3>1, <3>2, <3>3, <3>4 DEF RequestSteps
    <2> QED
      BY <1>5, <2>1, <2>2 DEF LookUpProvider
  <1>6. CASE Discover(r)
    <2>1. CASE Answer(r, "INVALID_TOKEN")
      BY <1>3, <1>6, <2>1 DEF Discover
    <2>2. CASE /\ request' = [request EXCEPT ![r].pc = "store", ![r].provider = request[r].n]
               /\ reply' = NoReply
      <3> DEFINE q == [request[r] EXCEPT !.pc = "store", !.provider = request[r].n]
      <3>1. request[r].pc \in RequestSteps /\ provider' = provider
        BY <1>6 DEF Discover, RequestSteps
      <3>2. request' = [request EXCEPT ![r] = q]
        BY <1>1, <2>2
      <3>3. provider \in 1 .. MaxOps \cup {NoProvider}
        BY TypeParts DEF Inv
      <3>4. request[r].n \in 1 .. MaxOps /\ request[r].n # NoProvider
        BY <1>2, <3>1, ServerConstants DEF GoodRequest
      <3>5. /\ q \in RequestState /\ q.n = request[r].n /\ q.id = request[r].id
            /\ q.pc = "store" /\ q.provider = request[r].n
        BY <1>1, <3>4 DEF RequestState, RequestSteps
      <3> HIDE DEF q
      <3> QED
        BY <1>4, <2>2, <3>1, <3>2, <3>3, <3>4, <3>5 DEF RequestSteps
    <2> QED
      BY <1>6, <2>1, <2>2 DEF Discover
  <1>7. CASE StoreProvider(r)
    <2> DEFINE q == [request[r] EXCEPT !.pc = "verify", !.provider = provider']
    <2>1. /\ request[r].pc = "store" /\ request[r].pc \in RequestSteps /\ reply' = NoReply
          /\ provider' = IF provider = NoProvider THEN request[r].provider ELSE provider
      BY <1>7 DEF StoreProvider, RequestSteps
    <2>2. request' = [request EXCEPT ![r] = q]
      BY <1>1, <1>7 DEF StoreProvider
    <2>3. /\ provider \in 1 .. MaxOps \cup {NoProvider} /\ request[r].provider # NoProvider
          /\ request[r].provider \in 1 .. MaxOps \cup {NoProvider}
      BY <1>1, <1>2, <2>1, TypeParts DEF Inv, GoodRequest, RequestState
    <2>4. /\ provider' \in 1 .. MaxOps \cup {NoProvider} /\ provider' # NoProvider
          /\ provider' = provider \/ provider = NoProvider
      BY <2>1, <2>3
    <2>5. /\ q \in RequestState /\ q.n = request[r].n /\ q.id = request[r].id
          /\ q.pc = "verify" /\ q.provider = provider'
      BY <1>1, <2>4 DEF RequestState, RequestSteps
    <2> HIDE DEF q
    <2> QED
      BY <1>4, <2>1, <2>2, <2>4, <2>5 DEF RequestSteps
  <1>8. CASE Verify(r)
    <2>1. CASE Answer(r, "INVALID_TOKEN")
      BY <1>3, <1>8, <2>1 DEF Verify
    <2>2. ASSUME NEW subject \in {"", "subject"}, reply' = NoReply,
                 request' = [request EXCEPT ![r].pc = "decide", ![r].subject = subject,
                                            ![r].provider = NoProvider]
          PROVE  Inv'
      <3> DEFINE q == [request[r] EXCEPT !.pc = "decide", !.subject = subject, !.provider = NoProvider]
      <3>1. request[r].pc \in RequestSteps /\ provider' = provider
        BY <1>8 DEF Verify, RequestSteps
      <3>2. request' = [request EXCEPT ![r] = q]
        BY <1>1, <2>2
      <3>3. provider \in 1 .. MaxOps \cup {NoProvider}
        BY TypeParts DEF Inv
      <3>4. /\ q \in RequestState /\ q.n = request[r].n /\ q.id = request[r].id
            /\ q.pc = "decide"
        BY <1>1 DEF RequestState, RequestSteps
      <3> HIDE DEF q
      <3> QED
        BY <1>4, <2>2, <3>1, <3>2, <3>3, <3>4 DEF RequestSteps
    <2> QED
      BY <1>8, <2>1, <2>2 DEF Verify
  <1>9. CASE Decide(r)
    <2>1. PICK code \in Denials \cup {"ok"} :
             request' = [request EXCEPT ![r].pc = "audit", ![r].code = code]
      BY <1>9 DEF Decide
    <2> DEFINE q == [request[r] EXCEPT !.pc = "audit", !.code = code]
    <2>2. request[r].pc \in RequestSteps /\ provider' = provider /\ reply' = NoReply
      BY <1>9 DEF Decide, RequestSteps
    <2>3. request' = [request EXCEPT ![r] = q]
      BY <1>1, <2>1
    <2>4. provider \in 1 .. MaxOps \cup {NoProvider}
      BY TypeParts DEF Inv
    <2>5. /\ q \in RequestState /\ q.n = request[r].n /\ q.id = request[r].id
          /\ q.pc = "audit"
      BY <1>1 DEF RequestState, RequestSteps, Codes
    <2> HIDE DEF q
    <2> QED
      BY <1>4, <2>2, <2>3, <2>4, <2>5 DEF RequestSteps
  <1>10. CASE Respond(r) \/ Panic(r)
    BY <1>3, <1>10 DEF Respond, Panic
  <1> QED
    BY <1>5, <1>6, <1>7, <1>8, <1>9, <1>10

\* A step that leaves the requests, and the process, as they are.
LEMMA QuietKeeps ==
    ASSUME Inv, UNCHANGED <<file, schemaVars, command, processVars, provider, clock, entries, request>>,
           ops' \in 0 .. MaxOps, reply' \in Replies
    PROVE  Inv'
  <1>1. MigrationsTypeOK' /\ MigrationInv' /\ CommandInv' /\ ProcessTypes' /\ ProcessInv'
    BY MigrationsSame, ProcessSame
  <1>2. TypeOK'
    BY <1>1, TypeParts DEF Inv
  <1>3. RequestInv'
    BY DEF Inv, RequestInv, GoodRequest, processVars
  <1> QED
    BY <1>1, <1>2, <1>3 DEF Inv

\* The router, or the handler of bad input, answers by itself.
LEMMA RoutedSteps ==
    ASSUME Inv, NEW path, NEW origin, ServeRoute(path, origin) \/ RejectInput(path, origin)
    PROVE  Inv'
  <1>1. /\ UNCHANGED <<file, schemaVars, command, processVars, provider, clock, entries, request>>
        /\ ops' \in 0 .. MaxOps
    BY TypeParts, MigrationsConstants
       DEF Inv, ServeRoute, RejectInput, migrationVars, MigrationsTypeOK
  <1>2. CASE ServeRoute(path, origin)
    <2>1. /\ reply' = [status |-> Route(path, origin), retryAfter |-> FALSE]
          /\ Route(path, origin) \in {0, 200, 403, 404}
      BY <1>2, ReplyTypes DEF ServeRoute
    <2>2. reply' \in Replies
      BY <2>1 DEF Replies
    <2> QED
      BY <1>1, <2>2, QuietKeeps
  <1>3. CASE RejectInput(path, origin)
    BY <1>1, <1>3, QuietKeeps, ReplyTypes DEF RejectInput
  <1> QED
    BY <1>2, <1>3

\* An exchange that begins has a number and an id; a bad one is answered.
LEMMA BeginSteps ==
    ASSUME Inv, NEW path, NEW origin, NEW r \in Requests, NEW id \in ClientIds \cup {ops + 1},
           NEW valid \in BOOLEAN, BeginExchange(r, path, origin, id, valid)
    PROVE  Inv'
  <1>1. /\ UNCHANGED <<file, schemaVars, command, processVars, provider, clock, entries>>
        /\ ops \in Nat /\ ops < MaxOps /\ ops' = ops + 1 /\ phase \in {"serving", "draining"}
    BY TypeParts, MigrationsConstants
       DEF Inv, BeginExchange, migrationVars, Accepting, MigrationsTypeOK
  <1>2. /\ ops' \in 0 .. MaxOps /\ ops' \in 1 .. MaxOps
    BY <1>1, MigrationsConstants
  <1>3. /\ entries' \subseteq Entry /\ clock' \in 0 .. MaxClock
        /\ provider' \in 1 .. MaxOps \cup {NoProvider} /\ request \in [Requests -> RequestState]
    BY <1>1, TypeParts DEF Inv
  <1>4. CASE ~valid
    BY <1>1, <1>2, <1>4, QuietKeeps, ReplyTypes DEF BeginExchange
  <1>5. CASE valid
    <2> DEFINE q == [NoRequest EXCEPT !.pc = "oidc", !.n = ops + 1, !.id = id]
    <2>1. request' = [request EXCEPT ![r] = q] /\ reply' = NoReply
      BY <1>5 DEF BeginExchange
    <2>2. q \in RequestState /\ q.pc = "oidc" /\ q.n = ops + 1 /\ q.id = id
      BY <1>1, <1>2, RequestTypes DEF RequestState, RequestSteps
    <2>3. id \in ClientIds \cup 1 .. MaxOps
      BY <1>1, <1>2
    <2> HIDE DEF q
    <2>4. GoodRequest(q, provider')
      BY <1>1, <1>2, <2>2, <2>3 DEF GoodRequest, RequestSteps
    <2> QED
      BY <1>1, <1>2, <1>3, <2>1, <2>2, <2>4, RequestKeeps, RequestTypes
  <1> QED
    BY <1>4, <1>5

\* The entry of a request is one of the log, and a token is granted only with
\* its entry in the log.
LEMMA AuditStep ==
    ASSUME Inv, NEW r \in Requests, Audit(r)
    PROVE  Inv'
  <1>1. /\ request[r] \in RequestState /\ request \in [Requests -> RequestState]
        /\ provider \in 1 .. MaxOps \cup {NoProvider} /\ entries \subseteq Entry
        /\ ops \in 0 .. MaxOps
    BY TypeParts DEF Inv, MigrationsTypeOK
  <1>2. /\ GoodRequest(request[r], provider) /\ request[r].pc = "audit" /\ reply' = NoReply
        /\ UNCHANGED <<file, schemaVars, command, ops, processVars, provider>>
    BY DEF Inv, RequestInv, Audit
  <1>3. PICK time \in {clock, clock + 1} \cap 0 .. MaxClock :
          /\ clock' = time
          /\ \/ entries' = Log(EntryOf(r, time))
             \/ Config.audit.backend # "" /\ entries' = entries
          /\ LET granted == request[r].code = "ok" /\ EntryOf(r, time) \in entries' IN
             request' = [request EXCEPT
                ![r].pc = "reply", ![r].subject = "", ![r].granted = granted,
                ![r].code = IF @ = "ok" /\ ~granted THEN "INTERNAL_ERROR" ELSE @]
    BY DEF Audit
  <1>4. /\ request[r].n \in 1 .. MaxOps /\ request[r].id \in ClientIds \cup 1 .. MaxOps
        /\ phase \in {"serving", "draining"}
    BY <1>2 DEF GoodRequest, RequestSteps
  <1>5. entries' \subseteq Entry
    <2>1. EntryOf(r, time) \in Entry
      BY <1>1, <1>3, <1>4 DEF EntryOf, Entry, RequestState
    <2>2. \A e \in Entry : Log(e) \subseteq Entry
      BY <1>1 DEF Log, SqlLog, DynamoDBLog
    <2> QED
      BY <1>1, <1>3, <2>1, <2>2
  <1> DEFINE granted == request[r].code = "ok" /\ EntryOf(r, time) \in entries'
             code == IF request[r].code = "ok" /\ ~granted THEN "INTERNAL_ERROR" ELSE request[r].code
             q == [request[r] EXCEPT !.pc = "reply", !.subject = "", !.granted = granted, !.code = code]
  <1>6. request' = [request EXCEPT ![r] = q]
    BY <1>1, <1>3
  <1>7. granted \in BOOLEAN /\ code \in Codes /\ (code = "ok" => granted)
    BY <1>1 DEF Codes, RequestState
  <1> HIDE DEF granted, code
  <1>8. /\ q \in RequestState /\ q.pc = "reply" /\ q.n = request[r].n /\ q.id = request[r].id
        /\ q.granted = granted /\ q.code = code
    BY <1>1, <1>7 DEF RequestState, RequestSteps
  <1> HIDE DEF q
  <1>9. GoodRequest(q, provider')
    BY <1>4, <1>7, <1>8 DEF GoodRequest
  <1> QED
    BY <1>1, <1>2, <1>3, <1>5, <1>6, <1>8, <1>9, RequestKeeps, RequestTypes

------------------------------------------------------------------------------
(* Steps of the migrate commands keep the invariant *)

CommandState == [pc: {"idle", "begun", "run", "clean"}, kind: Kinds, flag: 0 .. 2, result: Results]

\* What MigrationInv says of one command in a schema.
GoodCommand(c, m, v, d, t, holder) ==
    c.pc \in {"run", "clean"} =>
        /\ holder = m /\ d /\ c.kind \in {"up", "down"}
        /\ c.kind = "up" => v = 1
        /\ c.pc = "clean" => (t <=> v = 1)

\* A command that ends, or has only begun, says nothing of the schema.
LEMMA CommandTypes ==
    /\ \A result \in Results : /\ [NoCommand EXCEPT !.result = result] \in CommandState
                               /\ [NoCommand EXCEPT !.result = result].pc = "idle"
                               /\ [NoCommand EXCEPT !.result = result].result = result
    /\ \A kind \in Kinds, flag \in 0 .. 2 :
          LET c == [pc |-> "begun", kind |-> kind, flag |-> flag, result |-> "none"]
          IN  c \in CommandState /\ c.pc = "begun"
  BY DEF NoCommand, CommandState, Kinds, Results

\* A step of one command that keeps the others right keeps the invariant: the
\* others run a migration only if they hold the lock.
LEMMA CommandKeeps ==
    ASSUME MigrationsTypeOK, MigrationInv, NEW m \in Migrators, NEW c \in CommandState,
           command' = [command EXCEPT ![m] = c], file' = file, ops' \in 0 .. MaxOps,
           version' \in {NilVersion, 0, 1, 2}, dirty' \in BOOLEAN, table' \in BOOLEAN,
           forced' \in BOOLEAN, lock' \in Migrators \cup {NoMigrator},
           GoodCommand(c, m, version', dirty', table', lock'),
           \/ lock \in {m, NoMigrator}
           \/ UNCHANGED <<version, dirty, table, lock>>,
           (~dirty' /\ ~forced') => (table' <=> version' = 1)
    PROVE  MigrationsTypeOK' /\ MigrationInv'
  <1>1. command \in [Migrators -> CommandState]
    BY DEF MigrationsTypeOK, CommandState
  <1>2. command' \in [Migrators -> CommandState]
    BY <1>1
  <1>3. MigrationsTypeOK'
    BY <1>2 DEF MigrationsTypeOK, CommandState
  <1>4. ASSUME NEW k \in Migrators PROVE GoodCommand(command[k], k, version, dirty, table, lock)'
    <2>1. CASE k = m
      BY <1>1, <2>1
    <2>2. CASE k # m
      <3>1. command'[k] = command[k] /\ GoodCommand(command[k], k, version, dirty, table, lock)
        BY <1>1, <2>2 DEF MigrationInv, GoodCommand
      <3>2. CASE lock \in {m, NoMigrator}
        BY <2>2, <3>1, <3>2, MigrationsConstants DEF GoodCommand
      <3>3. CASE UNCHANGED <<version, dirty, table, lock>>
        BY <3>1, <3>3 DEF GoodCommand
      <3> QED
        BY <3>2, <3>3
    <2> QED
      BY <2>1, <2>2
  <1>5. MigrationInv'
    BY <1>4 DEF MigrationInv, GoodCommand
  <1> QED
    BY <1>3, <1>5

\* What Plan finds for up is never a rollback.
LEMMA UpApplies ==
    ASSUME version \in {NilVersion, 0, 1, 2}, NEW kind \in Kinds, NEW flag \in 0 .. 2,
           Plan(kind, flag) \in {"apply", "revert"}
    PROVE  /\ Target(Plan(kind, flag)) \in {NilVersion, 0, 1, 2}
           /\ kind = "up" => Target(Plan(kind, flag)) = 1
  BY DEF Plan, Target, Exists, NilVersion

\* A step that ends a command, with the schema as it was.
LEMMA EndedKeeps ==
    ASSUME MigrationsTypeOK, MigrationInv, NEW m \in Migrators, NEW result \in Results,
           Ended(m, result), UNCHANGED <<file, version, dirty, table, forced>>, ops' \in 0 .. MaxOps,
           lock' = lock \/ (lock = m /\ lock' = NoMigrator)
    PROVE  MigrationsTypeOK' /\ MigrationInv'
  <1> DEFINE c == [NoCommand EXCEPT !.result = result]
  <1>1. command' = [command EXCEPT ![m] = c] /\ c \in CommandState /\ c.pc = "idle"
    BY CommandTypes DEF Ended
  <1> HIDE DEF c
  <1>2. GoodCommand(c, m, version', dirty', table', lock')
    BY <1>1 DEF GoodCommand
  <1>3. /\ version' \in {NilVersion, 0, 1, 2} /\ dirty' \in BOOLEAN /\ table' \in BOOLEAN
        /\ forced' \in BOOLEAN /\ lock' \in Migrators \cup {NoMigrator}
    BY DEF MigrationsTypeOK
  <1>4. (~dirty' /\ ~forced') => (table' <=> version' = 1)
    BY DEF MigrationInv
  <1>5. lock \in {m, NoMigrator} \/ UNCHANGED <<version, dirty, table, lock>>
    OBVIOUS
  <1> QED
    BY <1>1, <1>2, <1>3, <1>4, <1>5, CommandKeeps

\* The steps of gate db migrate.
LEMMA MigrateSteps ==
    ASSUME MigrationsTypeOK, MigrationInv, NEW m \in Migrators, MigrateStep(m)
    PROVE  MigrationsTypeOK' /\ MigrationInv' /\ file' = file /\ entries' \subseteq entries
  <1>1. /\ version \in {NilVersion, 0, 1, 2} /\ dirty \in BOOLEAN /\ table \in BOOLEAN
        /\ forced \in BOOLEAN /\ lock \in Migrators \cup {NoMigrator} /\ ops \in 0 .. MaxOps
        /\ command \in [Migrators -> CommandState] /\ command[m] \in CommandState
    BY DEF MigrationsTypeOK, CommandState
  <1>2. GoodCommand(command[m], m, version, dirty, table, lock)
    BY DEF MigrationInv, GoodCommand
  <1>3. file' = file /\ entries' \subseteq entries
    BY DEF MigrateStep, BeginMigrate, StartMigration, RunMigration, FinishMigration, EndMigrate, Locked,
           MigrateForce, PrintVersion, Interrupt
  <1>4. ASSUME NEW kind \in Kinds, NEW flag \in 0 .. 2, BeginMigrate(m, kind, flag)
        PROVE  MigrationsTypeOK' /\ MigrationInv'
    <2>1. UNCHANGED <<file, version, dirty, table, forced, lock>> /\ ops' \in 0 .. MaxOps
      BY <1>1, <1>4, MigrationsConstants DEF BeginMigrate, schemaVars
    <2>2. CASE MigratorAvailable
      <3> DEFINE c == [pc |-> "begun", kind |-> kind, flag |-> flag, result |-> "none"]
      <3>1. command' = [command EXCEPT ![m] = c] /\ lock = NoMigrator
        BY <1>4, <2>2 DEF BeginMigrate
      <3>2. c \in CommandState /\ c.pc = "begun"
        BY CommandTypes
      <3> HIDE DEF c
      <3>3. GoodCommand(c, m, version', dirty', table', lock')
        BY <3>2 DEF GoodCommand
      <3>4. (~dirty' /\ ~forced') => (table' <=> version' = 1)
        BY <2>1 DEF MigrationInv
      <3> QED
        BY <1>1, <2>1, <3>1, <3>2, <3>3, <3>4, CommandKeeps
    <2>3. CASE ~MigratorAvailable
      <3>1. PICK result \in {"ok", "failed"} : Ended(m, result)
        BY <1>4, <2>3 DEF BeginMigrate
      <3> QED
        BY <2>1, <3>1, EndedKeeps DEF Results
    <2> QED
      BY <2>2, <2>3
  <1>5. CASE StartMigration(m)
    <2> DEFINE plan == Plan(command[m].kind, command[m].flag)
               c == [command[m] EXCEPT !.pc = "run"]
    <2>1. /\ plan \in {"apply", "revert"} /\ lock = NoMigrator /\ lock' = m /\ version' = Target(plan)
          /\ dirty' = TRUE /\ UNCHANGED <<file, table, forced, ops>>
          /\ command[m].kind \in {"up", "down"}
      BY <1>5 DEF StartMigration
    <2>2. command' = [command EXCEPT ![m] = c]
      BY <1>1, <1>5 DEF StartMigration
    <2>3. c \in CommandState /\ c.pc = "run" /\ c.kind = command[m].kind
      BY <1>1 DEF CommandState
    <2>4. /\ version' \in {NilVersion, 0, 1, 2}
          /\ command[m].kind = "up" => version' = 1
      BY <1>1, <2>1, UpApplies DEF CommandState
    <2> HIDE DEF plan, c
    <2>5. GoodCommand(c, m, version', dirty', table', lock')
      BY <2>1, <2>3, <2>4 DEF GoodCommand
    <2>6. /\ version' \in {NilVersion, 0, 1, 2} /\ dirty' \in BOOLEAN /\ table' \in BOOLEAN
          /\ forced' \in BOOLEAN /\ lock' \in Migrators \cup {NoMigrator}
          /\ ops' \in 0 .. MaxOps /\ file' = file
          /\ (~dirty' /\ ~forced') => (table' <=> version' = 1)
          /\ lock \in {m, NoMigrator}
      BY <1>1, <2>1, <2>4
    <2> QED
      BY <1>3, <2>2, <2>3, <2>5, <2>6, CommandKeeps
  <1>6. CASE RunMigration(m)
    <2> DEFINE c == [command[m] EXCEPT !.pc = "clean"]
    <2>1. /\ command[m].pc = "run" /\ table' = (version = 1)
          /\ UNCHANGED <<file, version, dirty, forced, lock, ops>>
      BY <1>6 DEF RunMigration
    <2>2. command' = [command EXCEPT ![m] = c]
      BY <1>1, <1>6 DEF RunMigration
    <2>3. c \in CommandState /\ c.pc = "clean" /\ c.kind = command[m].kind
      BY <1>1 DEF CommandState
    <2> HIDE DEF c
    <2>4. lock = m /\ dirty
      BY <1>2, <2>1 DEF GoodCommand
    <2>5. GoodCommand(c, m, version', dirty', table', lock')
      BY <1>2, <2>1, <2>3 DEF GoodCommand
    <2>6. /\ version' \in {NilVersion, 0, 1, 2} /\ dirty' \in BOOLEAN /\ table' \in BOOLEAN
          /\ forced' \in BOOLEAN /\ lock' \in Migrators \cup {NoMigrator}
          /\ ops' \in 0 .. MaxOps /\ file' = file
          /\ (~dirty' /\ ~forced') => (table' <=> version' = 1)
          /\ lock \in {m, NoMigrator}
      BY <1>1, <2>1, <2>4
    <2> QED
      BY <1>3, <2>2, <2>3, <2>5, <2>6, CommandKeeps
  <1>7. CASE FinishMigration(m)
    <2> DEFINE c == [NoCommand EXCEPT !.result = "ok"]
    <2>1. /\ command[m].pc = "clean" /\ dirty' = FALSE /\ forced' = FALSE /\ lock' = NoMigrator
          /\ UNCHANGED <<file, version, table, ops>>
          /\ command' = [command EXCEPT ![m] = c]
      BY <1>7 DEF FinishMigration, Ended
    <2>2. c \in CommandState /\ c.pc = "idle"
      BY CommandTypes DEF Results
    <2> HIDE DEF c
    <2>3. lock = m /\ (table <=> version = 1)
      BY <1>2, <2>1 DEF GoodCommand
    <2>4. GoodCommand(c, m, version', dirty', table', lock')
      BY <2>2 DEF GoodCommand
    <2>5. /\ version' \in {NilVersion, 0, 1, 2} /\ dirty' \in BOOLEAN /\ table' \in BOOLEAN
          /\ forced' \in BOOLEAN /\ lock' \in Migrators \cup {NoMigrator}
          /\ ops' \in 0 .. MaxOps /\ file' = file
          /\ (~dirty' /\ ~forced') => (table' <=> version' = 1)
          /\ lock \in {m, NoMigrator}
      BY <1>1, <2>1, <2>3
    <2> QED
      BY <1>3, <2>1, <2>2, <2>4, <2>5, CommandKeeps
  <1>8. CASE EndMigrate(m) \/ Locked(m) \/ PrintVersion(m)
    <2>1. UNCHANGED <<file, version, dirty, table, forced, lock, ops>>
      BY <1>8 DEF EndMigrate, Locked, PrintVersion, schemaVars
    <2>2. PICK result \in Results : Ended(m, result)
      BY <1>8 DEF EndMigrate, Locked, PrintVersion, Results
    <2>3. ops' \in 0 .. MaxOps /\ lock' = lock
      BY <1>1, <2>1
    <2> QED
      BY <1>3, <2>1, <2>2, <2>3, EndedKeeps
  <1>9. CASE MigrateForce(m)
    <2> DEFINE c == [NoCommand EXCEPT !.result = "ok"]
    <2>1. /\ lock = NoMigrator /\ version' = command[m].flag /\ dirty' = FALSE /\ forced' = TRUE
          /\ UNCHANGED <<file, table, lock, ops>>
          /\ command' = [command EXCEPT ![m] = c]
      BY <1>9 DEF MigrateForce, Ended
    <2>2. c \in CommandState /\ c.pc = "idle"
      BY CommandTypes DEF Results
    <2> HIDE DEF c
    <2>3. version' \in {NilVersion, 0, 1, 2}
      BY <1>1, <2>1 DEF CommandState
    <2>4. GoodCommand(c, m, version', dirty', table', lock')
      BY <2>2 DEF GoodCommand
    <2>5. /\ version' \in {NilVersion, 0, 1, 2} /\ dirty' \in BOOLEAN /\ table' \in BOOLEAN
          /\ forced' \in BOOLEAN /\ lock' \in Migrators \cup {NoMigrator}
          /\ ops' \in 0 .. MaxOps /\ file' = file
          /\ (~dirty' /\ ~forced') => (table' <=> version' = 1)
          /\ lock \in {m, NoMigrator}
      BY <1>1, <2>1, <2>3
    <2> QED
      BY <1>3, <2>1, <2>2, <2>4, <2>5, CommandKeeps
  <1>10. CASE Interrupt(m)
    <2>1. /\ UNCHANGED <<file, version, dirty, table, forced, ops>> /\ Ended(m, "failed")
          /\ lock' = IF lock = m THEN NoMigrator ELSE lock
      BY <1>10 DEF Interrupt
    <2>2. /\ ops' \in 0 .. MaxOps /\ "failed" \in Results
          /\ lock' = lock \/ (lock = m /\ lock' = NoMigrator)
      BY <1>1, <2>1 DEF Results
    <2> QED
      BY <1>3, <2>1, <2>2, EndedKeeps
  <1> QED
    BY <1>3, <1>4, <1>5, <1>6, <1>7, <1>8, <1>9, <1>10 DEF MigrateStep, Kinds

\* A command gets beyond its begin only where there are migrations.
LEMMA CommandStep ==
    ASSUME MigrationsTypeOK, CommandInv, NEW m \in Migrators, MigrateStep(m), file' = file
    PROVE  CommandInv'
  <1>1. command \in [Migrators -> CommandState] /\ Config' = Config
    BY DEF MigrationsTypeOK, CommandState, Config
  <1>2. ASSUME NEW k \in Migrators, k # m PROVE command'[k] = command[k]
    BY <1>1, <1>2 DEF MigrateStep, BeginMigrate, StartMigration, RunMigration, FinishMigration,
                      EndMigrate, Locked, MigrateForce, PrintVersion, Interrupt, Ended
  <1>3. ASSUME command'[m].pc # "idle" PROVE Config.audit.backend = "sql"
    <2>1. ASSUME NEW result \in Results, Ended(m, result) PROVE FALSE
      BY <1>1, <1>3, <2>1, CommandTypes DEF Ended
    <2>2. ASSUME NEW kind \in Kinds, NEW flag \in 0 .. 2, BeginMigrate(m, kind, flag)
          PROVE  Config.audit.backend = "sql"
      <3>1. MigratorAvailable
        BY <2>1, <2>2 DEF BeginMigrate, Results
      <3> QED
        BY <3>1 DEF MigratorAvailable, IsMigrationSupported
    <2>3. CASE command[m].pc # "idle"
      BY <2>3 DEF CommandInv
    <2> QED
      BY <2>1, <2>2, <2>3 DEF MigrateStep, StartMigration, RunMigration, FinishMigration,
                              EndMigrate, Locked, MigrateForce, PrintVersion, Interrupt, Kinds
  <1> QED
    BY <1>1, <1>2, <1>3 DEF CommandInv

------------------------------------------------------------------------------
(* The invariant holds of every behaviour *)

\* A process that starts on a database that was migrated, or never was.
LEMMA InvInit == Init => Inv
  <1> SUFFICES ASSUME Init PROVE Inv
    OBVIOUS
  <1>1. MigrationsTypeOK
    <2>1. NoCommand \in CommandState
      BY DEF NoCommand, CommandState, Kinds, Results
    <2>2. command \in [Migrators -> CommandState]
      BY <2>1 DEF Init, MigrationsInit
    <2>3. ops \in 0 .. MaxOps
      BY MigrationsConstants DEF Init, MigrationsInit
    <2>4. table \in BOOLEAN /\ version \in {NilVersion, 0, 1, 2}
      BY DEF Init, MigrationsInit
    <2> QED
      BY <2>2, <2>3, <2>4 DEF Init, MigrationsInit, MigrationsTypeOK, CommandState
  <1>2. ProcessTypes
    BY DEF Init, ProcessTypes, Phases
  <1>3. TypeOK
    BY <1>1, <1>2, TypeParts, RequestTypes, ServerConstants DEF Init, MigrationsInit
  <1>4. MigrationInv /\ CommandInv
    BY DEF Init, MigrationsInit, MigrationInv, CommandInv, NoCommand, NilVersion
  <1>5. ProcessInv
    BY DEF Init, ProcessInv, OpenInv, ConfigInv, ClosingInv, SinceStore, SinceSelector, SinceAudit,
           SinceService, SinceHandler
  <1>6. RequestInv
    BY RequestTypes DEF Init, RequestInv, GoodRequest, RequestSteps
  <1> QED
    BY <1>3, <1>4, <1>5, <1>6 DEF Inv

\* Steps of the process, of requests and of migrate commands keep the invariant.
LEMMA InvStep == Inv /\ [Next]_vars => Inv'
  <1> SUFFICES ASSUME Inv, [Next]_vars PROVE Inv'
    OBVIOUS
  <1>1. CASE ProcessStep \/ Signal \/ ServeFails \/ Killed
    <2>1. UNCHANGED Others /\ reply' = NoReply
      BY <1>1 DEF ProcessStep, LoadConfig, InitTelemetry, NewProvider, BuildStore, BuildSelector,
                  BuildAudit, BuildService, BuildHandler, Listen, LoadCertificate, Drained,
                  DrainTimeout, CloseNext, CloseDone, Signal, ServeFails, Killed
    <2>2. ProcessTypes /\ ProcessInv /\ RequestInv /\ UNCHANGED file
      BY <2>1, OthersSame, TypeParts DEF Inv
    <2>3. Ends \/ ProcessMoves
      BY <1>1, <2>2, BuildSteps, EndSteps DEF ProcessStep
    <2> QED
      BY <2>1, <2>3, ProcessKeeps
  <1>2. ASSUME NEW path \in Paths, NEW origin \in {"", "secret"},
               ServeRoute(path, origin) \/ RejectInput(path, origin)
        PROVE  Inv'
    BY <1>2, RoutedSteps
  <1>3. ASSUME NEW path \in Paths, NEW origin \in {"", "secret"}, NEW r \in Requests,
               NEW id \in ClientIds \cup {ops + 1}, NEW valid \in BOOLEAN,
               BeginExchange(r, path, origin, id, valid)
        PROVE  Inv'
    BY <1>3, BeginSteps
  <1>4. ASSUME NEW r \in Requests, RequestStep(r) PROVE Inv'
    BY <1>4, ValidatorSteps, AuditStep DEF RequestStep
  <1>5. ASSUME NEW m \in Migrators, MigrateStep(m), reply' = NoReply,
               UNCHANGED <<processVars, provider, request, clock>>
        PROVE  Inv'
    <2>1. MigrationsTypeOK' /\ MigrationInv' /\ file' = file /\ entries' \subseteq entries
      BY <1>5, MigrateSteps, TypeParts DEF Inv
    <2>2. ProcessTypes' /\ ProcessInv' /\ CommandInv'
      BY <1>5, <2>1, ProcessSame, CommandStep, TypeParts DEF Inv
    <2>3. TypeOK'
      BY <1>5, <2>1, <2>2, TypeParts, RequestTypes DEF Inv
    <2>4. RequestInv'
      BY <1>5 DEF Inv, RequestInv, GoodRequest, processVars
    <2> QED
      BY <2>1, <2>2, <2>3, <2>4 DEF Inv
  <1>6. ASSUME NEW e \in entries, ExpireEntry(e) PROVE Inv'
    <2>1. /\ UNCHANGED <<file, schemaVars, command, ops, processVars, provider, request>>
          /\ entries' \subseteq entries /\ clock' \in clock .. MaxClock /\ reply' = NoReply
      BY <1>6 DEF ExpireEntry
    <2>2. clock' \in 0 .. MaxClock /\ ops' \in 0 .. MaxOps
      BY <2>1, TypeParts, ServerConstants DEF Inv, MigrationsTypeOK
    <2>3. MigrationsTypeOK' /\ MigrationInv' /\ CommandInv' /\ ProcessTypes' /\ ProcessInv'
      BY <2>1, <2>2, MigrationsSame, ProcessSame
    <2>4. TypeOK'
      BY <2>1, <2>2, <2>3, TypeParts, RequestTypes DEF Inv
    <2>5. RequestInv'
      BY <2>1 DEF Inv, RequestInv, GoodRequest, processVars
    <2> QED
      BY <2>3, <2>4, <2>5 DEF Inv
  <1>7. CASE UNCHANGED vars
    <2>1. UNCHANGED <<file, schemaVars, command, processVars, provider, clock, entries, request>>
      BY <1>7 DEF vars, migrationVars
    <2>2. ops' \in 0 .. MaxOps /\ reply' \in Replies
      BY <1>7, TypeParts DEF vars, Inv, MigrationsTypeOK
    <2> QED
      BY <2>1, <2>2, QuietKeeps
  <1> QED
    BY <1>1, <1>2, <1>3, <1>4, <1>5, <1>6, <1>7 DEF Next

\* The invariant holds throughout, from the load of the configuration to the end.
LEMMA InvAlways == Spec => []Inv
  BY InvInit, InvStep, PTL DEF Spec

------------------------------------------------------------------------------
(* Theorems *)

\* Every variable keeps its type through starts, shutdowns, requests and
\* migrations (server.go, bootstrap.go, migrate.go).
THEOREM TypeCorrect == Spec => []TypeOK
  <1>1. Inv => TypeOK
    BY DEF Inv
  <1> QED
    BY <1>1, InvAlways, PTL

\* No handler runs on a closed store, audit backend, revocation loop or
\* telemetry, whenever the signal comes and whatever is drained
\* (server.go:177-186; bootstrap.go:63).
THEOREM HandlersHaveOpenResourcesAlways == Spec => []HandlersHaveOpenResources
  <1>1. Inv => HandlersHaveOpenResources
    <2> SUFFICES ASSUME Inv, NEW r \in Requests, Active(r)
                 PROVE  /\ {"store", "audit", "loop"} \subseteq open
                        /\ Config.otel.enabled => Telemetry \subseteq open
      BY DEF HandlersHaveOpenResources
    <2>1. phase \in {"serving", "draining"}
      BY DEF Inv, RequestInv, GoodRequest, Active
    <2> QED
      BY <2>1 DEF Inv, ProcessInv, OpenInv, SinceStore, SinceSelector, SinceAudit, SinceService,
                  SinceHandler
  <1> QED
    BY <1>1, InvAlways, PTL

\* A process that ends well has cut off no request and left open only what its
\* own closer failed to close, whichever closers fail (server.go:180-197).
THEOREM CleanExitAlways == Spec => []CleanExit
  <1>1. Inv => CleanExit
    BY TelemetryNames DEF Inv, ProcessInv, ClosingInv, RequestInv, GoodRequest, CleanExit
  <1> QED
    BY <1>1, InvAlways, PTL

\* A server that accepts requests has the configuration the other modules
\* assume, for every file whose TTLs are numbers (config.go:67-88;
\* bootstrap.go:30-67; sts.go:136-151).
THEOREM ServingIsConfiguredAlways == Spec => []ServingIsConfigured
  <1>1. Inv => ServingIsConfigured
    <2> SUFFICES ASSUME Inv, Accepting PROVE ServingIsConfigured
      BY DEF ServingIsConfigured
    <2>1. /\ Valid(Config) /\ Config.selector.type \in {"memory", "redis", "dynamodb"}
          /\ Config.apps # {} /\ Config.policy.providers # {}
      BY DEF Inv, Accepting, ProcessInv, ConfigInv, SinceSelector, SinceAudit, SinceService,
             SinceHandler
    <2>2. ValidPolicyConfig(Config.policy) /\ ValidOrigin(Config.origin)
      BY <2>1 DEF Valid
    <2>3. Config.policy.defaultTTL \in Int /\ Config.policy.maxTTL \in Int
      BY FilesAreTyped, TypeParts DEF Inv, MigrationsTypeOK, Config
    <2>4. Config.policy.defaultTTL \in 1 .. Config.policy.maxTTL
      <3>1. \A d, max \in Int : d > 0 /\ d <= max => d \in 1 .. max
        OBVIOUS
      <3>2. Config.policy.defaultTTL > 0 /\ Config.policy.defaultTTL <= Config.policy.maxTTL
        BY <2>2 DEF ValidPolicyConfig
      <3> QED
        BY <2>3, <3>1, <3>2, Zenon
    <2>5. \A p \in Config.policy.providers :
              p.time # Absent /\ p.time.hours # Absent =>
                  p.time.hours.start \in 0 .. 23 /\ p.time.hours.end \in 0 .. 23
      BY <2>2 DEF ValidPolicyConfig, ValidProvider, ValidTimeRestriction, ValidHours
    <2>6. Config.origin.enabled => Config.origin.headerValue # ""
      BY <2>2 DEF ValidOrigin
    <2> QED
      BY <2>1, <2>4, <2>5, <2>6 DEF ServingIsConfigured
  <1> QED
    BY <1>1, InvAlways, PTL

\* However discoveries overlap, all requests verify with the provider that is
\* cached (validator.go:138-151).
THEOREM ProviderIsSharedAlways == Spec => []ProviderIsShared
  <1>1. Inv => ProviderIsShared
    BY DEF Inv, RequestInv, GoodRequest, ProviderIsShared
  <1> QED
    BY <1>1, InvAlways, PTL

------------------------------------------------------------------------------
(* What a step may not do *)

\* A request that is ready to reply becomes idle only by a reply of its own,
\* with its code or for a panic.
LEMMA RepliesAreItsOwn ==
    ASSUME Inv, Next, NEW r \in Requests, request[r].pc = "reply", request'[r].pc = "idle"
    PROVE  reply' \in {Reply(request[r].code), Reply("panic")}
  <1>1. request \in [Requests -> RequestState]
    BY TypeParts DEF Inv
  <1>2. ASSUME request'[r] = request[r] PROVE FALSE
    BY <1>2
  <1>3. CASE ProcessStep \/ Signal \/ ServeFails \/ Killed
    <2>1. ProcessTypes /\ ProcessInv /\ RequestInv /\ UNCHANGED file
      BY <1>3, TypeParts
         DEF Inv, Others, ProcessStep, LoadConfig, InitTelemetry, NewProvider, BuildStore, BuildSelector,
             BuildAudit, BuildService, BuildHandler, Listen, LoadCertificate, Drained,
             DrainTimeout, CloseNext, CloseDone, Signal, ServeFails, Killed
    <2>2. Ends \/ ProcessMoves
      BY <1>3, <2>1, BuildSteps, EndSteps DEF ProcessStep
    <2>3. CASE Ends
      BY <2>3, RequestTypes DEF Ends, Active, RequestSteps
    <2>4. CASE ProcessMoves
      BY <1>2, <2>4 DEF ProcessMoves, Moves
    <2> QED
      BY <2>2, <2>3, <2>4
  <1>4. ASSUME NEW path \in Paths, NEW origin \in {"", "secret"},
               ServeRoute(path, origin) \/ RejectInput(path, origin)
        PROVE  FALSE
    BY <1>2, <1>4 DEF ServeRoute, RejectInput
  <1>5. ASSUME NEW path \in Paths, NEW origin \in {"", "secret"}, NEW p \in Requests,
               NEW id \in ClientIds \cup {ops + 1}, NEW valid \in BOOLEAN,
               BeginExchange(p, path, origin, id, valid)
        PROVE  FALSE
    <2>1. p # r
      BY <1>5 DEF BeginExchange
    <2>2. request'[r] = request[r]
      BY <1>1, <1>5, <2>1 DEF BeginExchange
    <2> QED
      BY <1>2, <2>2
  <1>6. ASSUME NEW p \in Requests, RequestStep(p), p # r PROVE FALSE
    <2>1. request'[r] = request[r]
      BY <1>1, <1>6 DEF RequestStep, LookUpProvider, Discover, StoreProvider, Verify, Decide, Audit,
                        Respond, Panic, Answer
    <2> QED
      BY <1>2, <2>1
  <1>7. ASSUME RequestStep(r) PROVE reply' \in {Reply(request[r].code), Reply("panic")}
    BY <1>7 DEF RequestStep, LookUpProvider, Discover, StoreProvider, Verify, Decide, Audit,
                Respond, Panic, Answer
  <1>8. ASSUME NEW m \in Migrators, UNCHANGED <<processVars, provider, request, clock>> PROVE FALSE
    BY <1>2, <1>8
  <1>9. ASSUME NEW e \in entries, ExpireEntry(e) PROVE FALSE
    BY <1>2, <1>9 DEF ExpireEntry
  <1> QED
    BY <1>3, <1>4, <1>5, <1>6, <1>7, <1>8, <1>9 DEF Next

\* What a write to the audit log, an expiry or a migration takes out of the log.
LEMMA EntriesLost ==
    ASSUME Inv, Next, NEW e \in entries \ entries'
    PROVE  \/ /\ Config.audit.backend = "sql"
              /\ \E m \in Migrators : command[m].kind = "down" /\ command[m].pc = "run"
           \/ /\ Config.audit.backend = "dynamodb"
              /\ \/ Expired(e, clock')
                 \/ \E x \in entries' : x.id = e.id /\ x.time = e.time
  <1>1. CASE ProcessStep \/ Signal \/ ServeFails \/ Killed
    <2>1. UNCHANGED Others
      BY <1>1 DEF ProcessStep, LoadConfig, InitTelemetry, NewProvider, BuildStore, BuildSelector,
                  BuildAudit, BuildService, BuildHandler, Listen, LoadCertificate, Drained,
                  DrainTimeout, CloseNext, CloseDone, Signal, ServeFails, Killed
    <2> QED
      BY <2>1, OthersSame
  <1>2. ASSUME NEW path \in Paths, NEW origin \in {"", "secret"},
               ServeRoute(path, origin) \/ RejectInput(path, origin)
        PROVE  FALSE
    BY <1>2 DEF ServeRoute, RejectInput, migrationVars
  <1>3. ASSUME NEW path \in Paths, NEW origin \in {"", "secret"}, NEW r \in Requests,
               NEW id \in ClientIds \cup {ops + 1}, NEW valid \in BOOLEAN,
               BeginExchange(r, path, origin, id, valid)
        PROVE  FALSE
    BY <1>3 DEF BeginExchange, migrationVars
  <1>4. ASSUME NEW r \in Requests, RequestStep(r)
        PROVE  /\ Config.audit.backend = "dynamodb"
               /\ \E x \in entries' : x.id = e.id /\ x.time = e.time
    <2>1. Audit(r)
      BY <1>4 DEF RequestStep, LookUpProvider, Discover, StoreProvider, Verify, Decide, Respond, Panic,
                  requestFrame, migrationVars
    <2>2. PICK time : entries' = Log(EntryOf(r, time)) \/ entries' = entries
      BY <2>1 DEF Audit
    <2> DEFINE y == EntryOf(r, time)
    <2> HIDE DEF y
    <2>3. entries' = Log(y)
      BY <2>2 DEF y
    <2> QED
      BY <2>3 DEF Log, SqlLog, DynamoDBLog
  <1>5. ASSUME NEW m \in Migrators, MigrateStep(m)
        PROVE  /\ Config.audit.backend = "sql"
               /\ command[m].kind = "down" /\ command[m].pc = "run"
    <2>1. RunMigration(m)
      BY <1>5 DEF MigrateStep, BeginMigrate, StartMigration, FinishMigration, EndMigrate, Locked,
                  MigrateForce, PrintVersion, Interrupt
    <2>2. version # 1 /\ command[m].pc = "run"
      BY <2>1 DEF RunMigration
    <2> QED
      BY <2>2 DEF Inv, MigrationInv, CommandInv
  <1>6. ASSUME NEW x \in entries, ExpireEntry(x)
        PROVE  Config.audit.backend = "dynamodb" /\ Expired(e, clock')
    <2>1. x = e
      BY <1>6 DEF ExpireEntry
    <2>2. PICK time \in clock .. MaxClock : Expired(x, time) /\ clock' = time
      BY <1>6 DEF ExpireEntry
    <2> QED
      BY <1>6, <2>1, <2>2 DEF ExpireEntry
  <1> QED
    BY <1>1, <1>2, <1>3, <1>4, <1>5, <1>6 DEF Next

\* A token is delivered only with its entry in the log, and what takes an entry
\* out of the log is a rollback in SQL, and in DynamoDB the end of its ttl_days
\* or a write under the same id and second (sts.go:391; sql.go:44;
\* dynamodb.go:57-67; migrate.go:111).
THEOREM DeliveredStaysAuditedAlways == Spec => DeliveredStaysAudited
  <1> DEFINE Step ==
       /\ \A r \in Requests :
             (request[r].pc = "reply" /\ request'[r].pc = "idle" /\ reply'.status = 200) =>
                request[r].granted
       /\ \A e \in entries \ entries' :
             \/ /\ Config.audit.backend = "sql"
                /\ \E m \in Migrators : command[m].kind = "down" /\ command[m].pc = "run"
             \/ /\ Config.audit.backend = "dynamodb"
                /\ \/ Expired(e, clock')
                   \/ \E x \in entries' : x.id = e.id /\ x.time = e.time
  <1>1. Inv /\ [Next]_vars => [Step]_vars
    <2> SUFFICES ASSUME Inv, Next PROVE Step
      OBVIOUS
    <2>1. ASSUME NEW r \in Requests, request[r].pc = "reply", request'[r].pc = "idle",
                 reply'.status = 200
          PROVE  request[r].granted
      <3>1. reply' \in {Reply(request[r].code), Reply("panic")}
        BY <2>1, RepliesAreItsOwn
      <3>2. \A code \in Codes \cup {"panic"} : Reply(code).status = 200 => code = "ok"
        BY ServerConstants DEF Reply, HttpStatusCode, Codes
      <3>3. request[r].code \in Codes /\ GoodRequest(request[r], provider)
        BY TypeParts DEF Inv, RequestInv, RequestState
      <3>4. request[r].code = "ok"
        BY <2>1, <3>1, <3>2, <3>3
      <3> QED
        BY <2>1, <3>3, <3>4 DEF GoodRequest
    <2> QED
      BY <2>1, EntriesLost
  <1> QED
    BY <1>1, InvAlways, PTL DEF Spec, DeliveredStaysAudited

\* When up reports success the table is there unless a version was forced,
\* however migrate processes overlap or are interrupted (migrate.go:73-90,
\* 207-214).
THEOREM UpMeansMigratedAlways == Spec => UpMeansMigrated
  <1> DEFINE Step ==
       \A m \in Migrators :
         (/\ command[m].pc # "idle" /\ command[m].kind = "up"
          /\ command'[m].pc = "idle" /\ command'[m].result = "ok"
          /\ ~forced') => table'
  <1>1. Inv /\ [Next]_vars => [Step]_vars
    <2> SUFFICES ASSUME Inv, Next, NEW m \in Migrators, command[m].pc # "idle",
                        command[m].kind = "up", command'[m].pc = "idle", command'[m].result = "ok",
                        ~forced'
                 PROVE  table'
      OBVIOUS
    <2>1. MigrationsTypeOK /\ MigrationInv /\ command \in [Migrators -> CommandState]
      BY TypeParts DEF Inv, MigrationsTypeOK, CommandState
    <2>2. ASSUME command'[m] = command[m] PROVE FALSE
      BY <2>2
    <2>3. PICK k \in Migrators : MigrateStep(k)
      <3>1. CASE ProcessStep \/ Signal \/ ServeFails \/ Killed
        <4>1. UNCHANGED Others
          BY <3>1 DEF ProcessStep, LoadConfig, InitTelemetry, NewProvider, BuildStore, BuildSelector,
                      BuildAudit, BuildService, BuildHandler, Listen, LoadCertificate, Drained,
                      DrainTimeout, CloseNext, CloseDone, Signal, ServeFails, Killed
        <4> QED
          BY <2>2, <4>1, OthersSame
      <3>2. ASSUME NEW path \in Paths, NEW origin \in {"", "secret"},
                   \/ ServeRoute(path, origin) \/ RejectInput(path, origin)
                   \/ \E r \in Requests, id \in ClientIds \cup {ops + 1}, valid \in BOOLEAN :
                         BeginExchange(r, path, origin, id, valid)
            PROVE  FALSE
        BY <2>2, <3>2 DEF ServeRoute, RejectInput, BeginExchange, migrationVars
      <3>3. ASSUME NEW r \in Requests, RequestStep(r) PROVE FALSE
        BY <2>2, <3>3 DEF RequestStep, LookUpProvider, Discover, StoreProvider, Verify, Decide, Audit,
                          Respond, Panic, requestFrame, migrationVars
      <3>4. ASSUME NEW e \in entries, ExpireEntry(e) PROVE FALSE
        BY <2>2, <3>4 DEF ExpireEntry
      <3> QED
        BY <3>1, <3>2, <3>3, <3>4 DEF Next
    <2>4. k = m
      <3> SUFFICES ASSUME k # m PROVE FALSE
        OBVIOUS
      <3>1. command'[m] = command[m]
        BY <2>1, <2>3 DEF MigrateStep, BeginMigrate, StartMigration, RunMigration, FinishMigration,
                          EndMigrate, Locked, MigrateForce, PrintVersion, Interrupt, Ended
      <3> QED
        BY <2>2, <3>1
    <2>5. ASSUME NEW result \in Results, Ended(m, result) PROVE result = "ok"
      BY <2>1, <2>5, CommandTypes DEF Ended
    <2>6. CASE FinishMigration(m)
      BY <2>1, <2>6 DEF FinishMigration, MigrationInv
    <2>7. CASE EndMigrate(m)
      <3>1. ~dirty /\ Plan("up", command[m].flag) = "no_change" /\ UNCHANGED <<table, forced>>
        BY <2>5, <2>7 DEF EndMigrate, Results, schemaVars
      <3>2. command[m].flag \in 0 .. 2 /\ version \in {NilVersion, 0, 1, 2}
        BY <2>1 DEF CommandState, MigrationsTypeOK
      <3>3. version = 1
        BY <3>1, <3>2 DEF Plan, Exists, NilVersion
      <3> QED
        BY <2>1, <3>1, <3>3 DEF MigrationInv
    <2>8. ASSUME StartMigration(m) \/ RunMigration(m) PROVE FALSE
      <3>1. PICK pc \in {"run", "clean"} : command' = [command EXCEPT ![m].pc = pc]
        BY <2>8 DEF StartMigration, RunMigration
      <3>2. command[m] \in CommandState /\ command'[m] = [command[m] EXCEPT !.pc = pc]
        BY <2>1, <3>1
      <3>3. command'[m].pc = pc
        BY <3>2 DEF CommandState
      <3> QED
        BY <3>3
    <2>9. ASSUME Locked(m) \/ Interrupt(m) PROVE FALSE
      BY <2>5, <2>9 DEF Locked, Interrupt, Results
    <2>10. ASSUME MigrateForce(m) \/ PrintVersion(m) PROVE FALSE
      BY <2>10 DEF MigrateForce, PrintVersion
    <2> QED
      BY <2>3, <2>4, <2>6, <2>7, <2>8, <2>9, <2>10 DEF MigrateStep, BeginMigrate
  <1> QED
    BY <1>1, InvAlways, PTL DEF Spec, UpMeansMigrated
==============================================================================
