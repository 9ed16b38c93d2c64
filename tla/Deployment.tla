----------------------------- MODULE Deployment -----------------------------
(***************************************************************************)
(* The daemon's configuration: process/core adopting what the appliance    *)
(* pushes over ApplyConfig, deployment/* building the services from it,    *)
(* and the cache a restart comes back on.                                  *)
(*                                                                         *)
(* ApplyConfig runs on the gRPC worker pool without a lock, so two pushes  *)
(* interleave wherever the code can be preempted between two writes of     *)
(* what they share: the scan client's key, Core.services, Core.config and  *)
(* the cache file. The appliance numbers what it sends: the n-th push      *)
(* carries a document of version n.                                        *)
(***************************************************************************)
EXTENDS Naturals, Sequences, FiniteSets

CONSTANTS
  Worker,      \* the pool's threads that may be in ApplyConfig at once
  Body,        \* what the appliance may push, the version left out
  Provider,    \* vendor ids a document may name
  KnownVendor, \* those of config.PROVIDER_ENDPOINTS
  ModelsOf,    \* [Provider -> SUBSET Model], the models pushed with a vendor
  Model,       \* bare model names
  Key,         \* AIRS and gateway API keys
  NoKey,       \* no key is stored
  MaxPush,     \* bound: how many documents the appliance sends
  Absent,      \* a service the document leaves out
  NoEngine,    \* Service.engine is None
  NoDocument   \* nothing has been sent, nothing is cached

Transports == {"direct", "ai_gateway"}
Guardrails == {"none", "api_application"}
Point == {"prompt", "response", "tool_call", "tool_result"}
ChatPoints == {"prompt", "response"}                 \* SERVICE_POINTS[CHAT]

Version == 1..MaxPush
Entry == [service: {"chat", "agent", "other", ""}, transport: Transports \cup {"other", ""},
          guardrail: Guardrails \cup {"other", ""}, points: SUBSET Point,
          profile: BOOLEAN, failOpen: BOOLEAN]
BodyType == [providers: SUBSET Provider, services: Seq(Entry),
             airsKey: Key \cup {NoKey}, gatewayKey: Key \cup {NoKey}]
Document == [version: Version, body: BodyType]
Config == [version: Nat, providers: SUBSET Provider, chat: Entry \cup {Absent},
           agent: Entry \cup {Absent}, airsKey: Key \cup {NoKey}, gatewayKey: Key \cup {NoKey}]
Engine == [models: SUBSET (Provider \X Model), endpoints: SUBSET Provider,
           transport: Transports, inspects: BOOLEAN, points: SUBSET Point, failOpen: BOOLEAN]

ASSUME DeploymentAssumption ==
  /\ Body \subseteq BodyType
  /\ KnownVendor \subseteq Provider
  /\ ModelsOf \in [Provider -> SUBSET Model]
  /\ NoKey \notin Key
  /\ MaxPush \in Nat
  /\ Absent \notin Entry
  /\ NoEngine \notin Engine
  /\ NoDocument \notin Document \cup Body

-----------------------------------------------------------------------------
(* The document, as objects and back.                                      *)

DefaultedRoute(e) ==                                     \* a mutated form of ReadRoute
  [e EXCEPT !.guardrail = IF @ \in Guardrails THEN @ ELSE "none"]

\* _read_route: both axes go through as they came.
ReadRoute(e) == e

ServiceName(e) == IF e.service = "" THEN "chat" ELSE e.service

\* The i-th entry is the one that counts for the service of that name.
Stands(services, name, i) ==
  /\ ServiceName(services[i]) = name
  /\ \A j \in DOMAIN services : j > i => ServiceName(services[j]) # name

\* A later entry of the same service replaces an earlier one, and an entry of
\* neither service is dropped.
Named(services, name) ==
  IF \E i \in DOMAIN services : Stands(services, name, i)
  THEN LET i == CHOOSE i \in DOMAIN services : Stands(services, name, i)
       IN  [ReadRoute(services[i]) EXCEPT !.service = name]
  ELSE Absent

FromDocument(d) ==
  [version |-> d.version, providers |-> d.body.providers,
   chat |-> Named(d.body.services, "chat"), agent |-> Named(d.body.services, "agent"),
   airsKey |-> d.body.airsKey, gatewayKey |-> d.body.gatewayKey]

One(e) == IF e = Absent THEN <<>> ELSE <<e>>

ToDocument(c) ==
  [version |-> c.version,
   body |-> [providers |-> c.providers, services |-> One(c.chat) \o One(c.agent),
             airsKey |-> c.airsKey, gatewayKey |-> c.gatewayKey]]

\* Config(): what a daemon starts on when nothing has been cached.
NoConfig ==
  [version |-> 0, providers |-> {}, chat |-> Absent, agent |-> Absent,
   airsKey |-> NoKey, gatewayKey |-> NoKey]

-----------------------------------------------------------------------------
(* Services.build.                                                         *)

QualifiedModels(c) ==
  {pm \in Provider \X Model : pm[1] \in c.providers \cap KnownVendor /\ pm[2] \in ModelsOf[pm[1]]}

ActivePoints(e) ==
  IF e.guardrail = "api_application" THEN e.points \cap ChatPoints ELSE {}

AnyRoute(c) == QualifiedModels(c) # {}                   \* a mutated form of Routed

\* _build_catalog and _build_transport find what they need.
Routed(c) ==
  /\ QualifiedModels(c) # {}
  /\ \/ c.chat.transport = "direct" /\ c.providers \cap KnownVendor # {}
     \/ c.chat.transport = "ai_gateway" /\ c.gatewayKey # NoKey

\* The build gets as far as the scan client, which is the process's.
ReachesClient(c) ==
  /\ c.chat # Absent
  /\ Routed(c)
  /\ c.chat.guardrail = "api_application"
  /\ c.airsKey # NoKey
  /\ c.chat.profile

\* build_chat_engine returns; `sdk` is whether the scan SDK takes its arguments.
Buildable(c, sdk) ==
  /\ Routed(c)
  /\ \/ c.chat.guardrail = "none"
     \/ ReachesClient(c) /\ sdk

ChatEngine(c) ==
  [models |-> QualifiedModels(c),
   endpoints |-> IF c.chat.transport = "direct" THEN c.providers \cap KnownVendor ELSE {},
   transport |-> c.chat.transport,
   inspects |-> c.chat.guardrail = "api_application",
   points |-> ActivePoints(c.chat),
   failOpen |-> c.chat.failOpen]

\* Services: the chat service built, failed or left out; agent is refused by
\* build_agent_engine whatever its entry says, which is not a failure.
Build(c, sdk) ==
  [version |-> c.version,
   chat |-> IF c.chat = Absent THEN "absent"
            ELSE IF Buildable(c, sdk) THEN "ready" ELSE "failed",
   engine |-> IF c.chat # Absent /\ Buildable(c, sdk) THEN ChatEngine(c) ELSE NoEngine,
   agent |-> IF c.agent = Absent THEN "absent" ELSE "unimplemented"]

Services == [version: Nat, chat: {"absent", "ready", "failed"},
             engine: Engine \cup {NoEngine}, agent: {"absent", "unimplemented"}]
NoServices == Build(NoConfig, TRUE)

\* A service the document named and that did not build.
Failures(s) == {name \in {"chat"} : s.chat = "failed"}

-----------------------------------------------------------------------------
VARIABLES
  life,        \* "down", "up", or "stopping" once SIGTERM has been handled
  services,    \* Core.services
  config,      \* Core.config
  cache,       \* the file at CACHE_PATH
  liveKey,     \* the key header of the process's one scan client
  task,        \* [Worker -> Task], the ApplyConfig each worker is in
  elsewhere,   \* SUBSET Worker, those in a call of another kind: a turn, a stream
  sent,        \* [Version -> Body], what the appliance has sent
  outcome,     \* [Version -> Outcome], the reply it got
  before,      \* [Version -> SUBSET Version], the pushes that were over when it was sent
  unsaved      \* SUBSET Version, the documents save_cached failed to write

process == <<services, config, liveKey>>
history == <<sent, before>>
vars == <<life, services, config, cache, liveKey, task, elsewhere, sent, outcome, before, unsaved>>

Outcome == {"unsent", "open", "ok", "refused", "lost"}
Over == {"ok", "refused", "lost"}
TaskPhase == {"idle", "building", "stamped", "built", "serving", "adopted"}
Task == [phase: TaskPhase, config: Config, built: Services]
Idle == [phase |-> "idle", config |-> NoConfig, built |-> NoServices]

TypeOK ==
  /\ life \in {"down", "up", "stopping"}
  /\ services \in Services
  /\ config \in Config
  /\ cache \in Document \cup {NoDocument}
  /\ liveKey \in Key \cup {NoKey}
  /\ task \in [Worker -> Task]
  /\ elsewhere \in SUBSET Worker
  /\ sent \in [Version -> Body \cup {NoDocument}]
  /\ outcome \in [Version -> Outcome]
  /\ before \in [Version -> SUBSET Version]
  /\ unsaved \in SUBSET Version

Init ==
  /\ life = "down"
  /\ services = NoServices
  /\ config = NoConfig
  /\ cache = NoDocument
  /\ liveKey = NoKey
  /\ task = [w \in Worker |-> Idle]
  /\ elsewhere = {}
  /\ sent = [n \in Version |-> NoDocument]
  /\ outcome = [n \in Version |-> "unsent"]
  /\ before = [n \in Version |-> {}]
  /\ unsaved = {}
-----------------------------------------------------------------------------
(* The pool: what a worker does besides ApplyConfig.                       *)

\* The worker can take a call.
Free(w) == task[w].phase = "idle" /\ w \notin elsewhere

OccupyAlways(w) ==                                       \* a mutated form
  /\ life # "down"
  /\ Free(w)
  /\ elsewhere' = elsewhere \cup {w}
  /\ UNCHANGED <<life, process, cache, task, outcome, history, unsaved>>

\* A turn, a benchmark or a corpus refresh takes the worker. None of them touches
\* what a push does.
Occupy(w) ==
  /\ life = "up"
  /\ Free(w)
  /\ elsewhere' = elsewhere \cup {w}
  /\ UNCHANGED <<life, process, cache, task, outcome, history, unsaved>>

\* That call comes back. A scan has no timeout, so it need not: no fairness.
Vacate(w) ==
  /\ w \in elsewhere
  /\ elsewhere' = elsewhere \ {w}
  /\ UNCHANGED <<life, process, cache, task, outcome, history, unsaved>>

-----------------------------------------------------------------------------
(* ApplyConfig, in one worker.                                             *)

\* The appliance pushes its next document and a worker takes the call.
Receive(w, n, b) ==
  /\ life = "up"
  /\ Free(w)
  /\ outcome[n] = "unsent" /\ \A m \in Version : m < n => outcome[m] # "unsent"
  /\ sent' = [sent EXCEPT ![n] = b]
  /\ outcome' = [outcome EXCEPT ![n] = "open"]
  /\ before' = [before EXCEPT ![n] = {m \in Version : outcome[m] \in Over}]
  /\ task' = [task EXCEPT ![w] = [phase |-> "building",
                                  config |-> FromDocument([version |-> n, body |-> b]),
                                  built |-> NoServices]]
  /\ UNCHANGED <<life, process, cache, elsewhere, unsaved>>

\* Worker w goes on to its next phase.
Move(w, ph, built) ==
  task' = [task EXCEPT ![w] = [phase |-> ph, config |-> task[w].config, built |-> built]]

\* The services of worker w are built, with or without the scan SDK's consent.
Built(w, sdk) ==
  /\ Move(w, "built", Build(task[w].config, sdk))
  /\ UNCHANGED <<life, services, config, cache, elsewhere, sent, outcome, before, unsaved>>

AssembleNamed(w) ==                                      \* a mutated form
  /\ task[w].phase = "building"
  /\ task[w].config.chat # Absent /\ ~ReachesClient(task[w].config)
  /\ Built(w, TRUE)
  /\ UNCHANGED liveKey

\* A build that never gets to the scan client.
Assemble(w) ==
  /\ task[w].phase = "building"
  /\ ~ReachesClient(task[w].config)
  /\ Built(w, TRUE)
  /\ UNCHANGED liveKey

\* aisecurity.init, or the Scanner, refuses the arguments.
RejectScanner(w) ==
  /\ task[w].phase = "building"
  /\ ReachesClient(task[w].config)
  /\ Built(w, FALSE)
  /\ UNCHANGED liveKey

StampedOnce(w) == IF liveKey = NoKey THEN task[w].config.airsKey ELSE liveKey  \* a mutated form
StampedKey(w) == task[w].config.airsKey

\* _restamp_credentials: the key goes onto the client every engine scans with.
Stamp(w) ==
  /\ task[w].phase = "building"
  /\ ReachesClient(task[w].config)
  /\ liveKey' = StampedKey(w)
  /\ Move(w, "stamped", task[w].built)
  /\ UNCHANGED <<life, services, config, cache, elsewhere, sent, outcome, before, unsaved>>

\* The rest of the constructor, AiProfile included, which may refuse too.
Construct(w) ==
  /\ task[w].phase = "stamped"
  /\ \E sdk \in BOOLEAN : Built(w, sdk)
  /\ UNCHANGED liveKey

\* The call returns `st` and its worker is free. The reply is lost on an
\* appliance that stopped waiting, or when the shutdown grace has cut it off.
Reply(w, st) ==
  /\ task' = [task EXCEPT ![w] = Idle]
  /\ \E told \in {st, "lost"} :
       outcome' = [outcome EXCEPT ![task[w].config.version] = told]

SwapThenRefuse(w) ==                                     \* a mutated form
  /\ task[w].phase = "built"
  /\ Failures(task[w].built) # {}
  /\ Reply(w, "refused")
  /\ services' = task[w].built
  /\ UNCHANGED <<life, config, liveKey, cache, elsewhere, history, unsaved>>

\* ConfigRefused: a service the document named did not build.
Refuse(w) ==
  /\ task[w].phase = "built"
  /\ Failures(task[w].built) # {}
  /\ Reply(w, "refused")
  /\ UNCHANGED <<life, process, cache, elsewhere, history, unsaved>>

AdoptServices(w) ==
  /\ task[w].phase = "built"
  /\ Failures(task[w].built) = {}
  /\ services' = task[w].built
  /\ Move(w, "serving", task[w].built)
  /\ UNCHANGED <<life, config, liveKey, cache, elsewhere, sent, outcome, before, unsaved>>

AdoptNoConfig(w) ==                                      \* a mutated form
  /\ task[w].phase = "serving"
  /\ Move(w, "adopted", task[w].built)
  /\ UNCHANGED <<life, process, cache, elsewhere, sent, outcome, before, unsaved>>

AdoptConfig(w) ==
  /\ task[w].phase = "serving"
  /\ config' = task[w].config
  /\ Move(w, "adopted", task[w].built)
  /\ UNCHANGED <<life, services, liveKey, cache, elsewhere, sent, outcome, before, unsaved>>

FirstFile(w) ==                                          \* a mutated form of NewFile
  IF cache = NoDocument THEN ToDocument(task[w].config) ELSE cache
NewFile(w) == ToDocument(task[w].config)

\* save_cached replaces the file or, on an OSError, leaves it, and the push is
\* accepted either way - unless its temporary file cannot be removed: that error
\* leaves the handler of the first, and ApplyConfig answers with it.
Save(w) ==
  /\ task[w].phase = "adopted"
  /\ \/ cache' = NewFile(w) /\ UNCHANGED unsaved /\ Reply(w, "ok")
     \/ /\ unsaved' = unsaved \cup {task[w].config.version} /\ UNCHANGED cache
        /\ Reply(w, "ok") \/ Reply(w, "refused")
  /\ UNCHANGED <<life, process, elsewhere, history>>

Step(w) ==
  \/ Assemble(w) \/ RejectScanner(w) \/ Stamp(w) \/ Construct(w)
  \/ Refuse(w) \/ AdoptServices(w) \/ AdoptConfig(w) \/ Save(w)

-----------------------------------------------------------------------------
(* The process.                                                            *)

\* run(): the cached document, or none if there is none or it cannot be read;
\* its services, whatever became of them; then the port.
Boot ==
  /\ life = "down"
  /\ \E c \in {NoConfig} \cup (IF cache = NoDocument THEN {} ELSE {FromDocument(cache)}) :
       \E sdk \in BOOLEAN :
         /\ config' = c
         /\ services' = Build(c, sdk)
         /\ IF ~ReachesClient(c) THEN liveKey' = NoKey
            ELSE liveKey' \in (IF sdk THEN {c.airsKey} ELSE {c.airsKey, NoKey})
  /\ life' = "up"
  /\ UNCHANGED <<cache, task, elsewhere, outcome, history, unsaved>>

\* SIGTERM: no call is taken any more.
Stop ==
  /\ life = "up"
  /\ life' = "stopping"
  /\ UNCHANGED <<process, cache, task, elsewhere, outcome, history, unsaved>>

\* What the process held is gone.
Gone ==
  /\ life' = "down"
  /\ services' = NoServices
  /\ config' = NoConfig
  /\ liveKey' = NoKey
  /\ UNCHANGED <<cache, history, unsaved>>

\* The pool's threads are joined before the interpreter exits, whatever they are
\* in: the grace of stop() ends calls, not threads.
Exit ==
  /\ life = "stopping"
  /\ \A w \in Worker : Free(w)
  /\ Gone
  /\ UNCHANGED <<task, elsewhere, outcome>>

\* The process is killed wherever it stands.
Crash ==
  /\ life # "down"
  /\ Gone
  /\ task' = [w \in Worker |-> Idle]
  /\ elsewhere' = {}
  /\ outcome' = [n \in Version |-> IF outcome[n] = "open" THEN "lost" ELSE outcome[n]]

Next ==
  \/ \E w \in Worker : \/ Step(w) \/ Occupy(w) \/ Vacate(w)
                      \/ \E n \in Version, b \in Body : Receive(w, n, b)
  \/ Boot \/ Stop \/ Exit \/ Crash

\* A push that has been taken is worked on to its end: nothing in it waits. The
\* interpreter exits once the last thread has.
Fairness == WF_vars(Exit) /\ \A w \in Worker : WF_vars(Step(w))

Safety == Init /\ [][Next]_vars
Spec == Safety /\ Fairness

-----------------------------------------------------------------------------
(* Properties.                                                             *)

\* A document whose push was answered with ok=False is never what the daemon
\* comes back on after a restart, and what it serves or holds only if it was in
\* service before the answer: adopted, and then neither saved nor cleaned up after.
RefusedNeverServed ==
  \A n \in Version : outcome[n] = "refused" =>
    /\ cache # NoDocument => cache.version # n
    /\ n \notin unsaved => services.version # n /\ config.version # n

\* Once a push has been accepted and cached, whatever was over before it was
\* sent is gone for good: no slow worker, overlapping push or restart brings an
\* older document back, in the services, the configuration or the cache.
NoResurrection ==
  \A n \in Version : outcome[n] = "ok" /\ n \notin unsaved =>
    /\ services.version \notin before[n]
    /\ config.version \notin before[n]
    /\ cache # NoDocument => cache.version \notin before[n]

\* The entry of `services` that speaks for the chat service.
ChatEntries(b) == {i \in DOMAIN b.services : b.services[i].service \in {"chat", ""}}
LastChat(b) == b.services[CHOOSE i \in ChatEntries(b) : \A j \in ChatEntries(b) : j <= i]

\* What serves is what the document it carries the version of asked for, also
\* after a trip through the cache: it inspects exactly if the document said so,
\* with a key and a profile and at the checkpoints that were on, a value neither
\* axis knows never came up as something else, and every model in the catalog
\* has somewhere to be sent.
ServesWhatItNamed ==
  services.version # 0 /\ services.chat # "failed" =>
    LET b == sent[services.version]
        engine == services.engine
        e == LastChat(b)
    IN  /\ services.chat = "absent" <=> ChatEntries(b) = {}
        /\ services.chat = "ready" =>
             /\ e.guardrail \in Guardrails /\ engine.transport = e.transport
             /\ engine.inspects <=> e.guardrail = "api_application"
             /\ engine.inspects => /\ b.airsKey # NoKey /\ e.profile
                                   /\ engine.points = e.points \cap ChatPoints
             /\ engine.transport = "direct" =>
                  \A pm \in engine.models : pm[1] \in engine.endpoints

Quiet == life = "up" /\ \A w \in Worker : task[w].phase = "idle"
Sequential ==
  \A n \in Version : outcome[n] # "unsent" => before[n] = {m \in Version : m < n}

Agreed ==
  /\ config.version = services.version
  /\ services.version \in Version \ unsaved =>
       cache # NoDocument /\ cache.version = services.version

\* Between pushes that did not overlap, the services, the configuration and the
\* cache are one document.
SequentialPushesAgree == Quiet /\ Sequential => Agreed

\* A key rotation takes effect at the push: with the newest push accepted, and
\* none having overlapped, the key that scans is the one it carried.
RotationTakesEffect ==
  \A n \in Version :
    /\ Quiet /\ Sequential
    /\ outcome[n] = "ok" /\ \A m \in Version : m > n => outcome[m] = "unsent"
    /\ services.version = n /\ services.chat = "ready" /\ services.engine.inspects
    => liveKey = sent[n].airsKey

\* Every push is answered, unless the process dies first.
PushIsAnswered == \A n \in Version : outcome[n] = "open" ~> outcome[n] # "open"

\* A daemon asked to stop does stop if the other calls its workers were in come
\* back: no new call, and no push that is halfway, keeps the pool from being
\* joined. With a call that never comes back it would not.
StopEnds ==
  (\A w \in Worker : []<>(w \notin elsewhere)) => (life = "stopping" ~> life = "down")

-----------------------------------------------------------------------------
(* What the repository says of a push and the code does not do.            *)

\* "What is loaded here is the last pushed document, cached to disk" (core):
\* between pushes the cache is what is being served.
CacheIsWhatServes == Quiet => Agreed

\* "Built before anything is replaced, so a refusal costs nothing" (core), and
\* of a key on the wire, "neither is the stale one a minute later"
\* (api_application): between pushes, what scans for the document being served
\* is its own key.
LiveKeyIsServed ==
  Quiet /\ services.chat = "ready" /\ services.engine.inspects =>
    liveKey = sent[services.version].airsKey
=============================================================================
