-------------------------- MODULE DeploymentProofs --------------------------
(***************************************************************************)
(* Proofs about Deployment, for any pool of workers and any documents.     *)
(***************************************************************************)
EXTENDS Deployment, TLAPS

-----------------------------------------------------------------------------
(* Documents and services keep their types.                                *)

LEMMA NamedType ==
  ASSUME NEW listed \in Seq(Entry), NEW name \in {"chat", "agent"}
  PROVE  Named(listed, name) \in Entry \cup {Absent}
<1>1. CASE \E i \in DOMAIN listed : Stands(listed, name, i)
  <2> DEFINE i == CHOOSE i \in DOMAIN listed : Stands(listed, name, i)
  <2>1. i \in DOMAIN listed
    BY <1>1
  <2>2. listed[i] \in Entry
    <3> HIDE DEF i
    <3> QED BY <2>1
  <2>3. [listed[i] EXCEPT !.service = name] \in Entry
    <3> HIDE DEF i
    <3> QED BY <2>2 DEF Entry
  <2>4. Named(listed, name) = [listed[i] EXCEPT !.service = name]
    BY <1>1 DEF Named, ReadRoute
  <2> QED
    BY <2>3, <2>4
<1>2. CASE ~ \E i \in DOMAIN listed : Stands(listed, name, i)
  BY <1>2 DEF Named
<1> QED
  BY <1>1, <1>2

LEMMA FromDocumentType ==
  ASSUME NEW d \in Document
  PROVE  FromDocument(d) \in Config /\ FromDocument(d).version = d.version
<1>1. d.version \in Nat /\ d.body \in BodyType
  BY DeploymentAssumption DEF Document, Version
<1>2. d.body.services \in Seq(Entry)
  BY <1>1 DEF BodyType
<1>3. /\ Named(d.body.services, "chat") \in Entry \cup {Absent}
      /\ Named(d.body.services, "agent") \in Entry \cup {Absent}
  BY <1>2, NamedType
<1>4. QED
  BY <1>1, <1>3 DEF FromDocument, Config, BodyType

LEMMA ToDocumentType ==
  ASSUME NEW c \in Config, c.version \in Version
  PROVE  ToDocument(c) \in Document /\ ToDocument(c).version = c.version
<1>1. One(c.chat) \in Seq(Entry) /\ One(c.agent) \in Seq(Entry)
  <2>1. \A e \in Entry \cup {Absent} : One(e) \in Seq(Entry)
    <3> SUFFICES ASSUME NEW e \in Entry \cup {Absent} PROVE One(e) \in Seq(Entry)
      OBVIOUS
    <3>1. CASE e = Absent
      BY <3>1 DEF One
    <3>2. CASE e # Absent
      <4>1. e \in Entry
        BY <3>2
      <4>2. One(e) = <<e>>
        BY <3>2 DEF One
      <4>3. \A S : \A x \in S : <<x>> \in Seq(S)
        OBVIOUS
      <4> QED BY <4>1, <4>2, <4>3
    <3> QED BY <3>1, <3>2
  <2> QED BY <2>1 DEF Config
<1>2. One(c.chat) \o One(c.agent) \in Seq(Entry)
  <2>1. \A S : \A s, t \in Seq(S) : s \o t \in Seq(S)
    OBVIOUS
  <2> QED BY <1>1, <2>1
<1>3. QED
  BY <1>2 DEF ToDocument, Document, BodyType, Config

LEMMA NoConfigType == NoConfig \in Config /\ NoConfig.version = 0
BY DEF NoConfig, Config

LEMMA BuildType ==
  ASSUME NEW c \in Config, NEW sdk \in BOOLEAN
  PROVE  Build(c, sdk) \in Services /\ Build(c, sdk).version = c.version
<1>1. CASE c.chat # Absent /\ Buildable(c, sdk)
  <2>1. c.chat \in Entry /\ c.providers \in SUBSET Provider
    BY <1>1 DEF Config
  <2>2. c.chat.transport \in Transports
    BY <1>1 DEF Buildable, Routed, Transports
  <2>3. QualifiedModels(c) \in SUBSET (Provider \X Model)
    BY DEF QualifiedModels
  <2>4. ActivePoints(c.chat) \in SUBSET Point
    BY DEF ActivePoints, ChatPoints, Point
  <2>5. c.chat.failOpen \in BOOLEAN
    BY <2>1 DEF Entry
  <2>6. ChatEngine(c) \in Engine
    BY <2>1, <2>2, <2>3, <2>4, <2>5 DEF ChatEngine, Engine
  <2> QED
    BY <1>1, <2>6 DEF Build, Services, Config
<1>2. CASE ~(c.chat # Absent /\ Buildable(c, sdk))
  BY <1>2 DEF Build, Services, Config
<1> QED
  BY <1>1, <1>2

LEMMA NothingType == /\ NoServices \in Services /\ NoServices.version = 0
                     /\ Idle \in Task
<1>1. NoServices \in Services /\ NoServices.version = 0
  BY NoConfigType, BuildType DEF NoServices
<1>2. QED
  BY <1>1, NoConfigType DEF Idle, Task, TaskPhase

-----------------------------------------------------------------------------
\* The task of a worker that is in a call is about a push.
PushInv == \A w \in Worker : task[w].phase # "idle" => task[w].config.version \in Version
TypeInv == TypeOK /\ PushInv

LEMMA InitType == Init => TypeInv
<1>1. \A n \in Version : NoDocument \in Body \cup {NoDocument}
  OBVIOUS
<1>2. QED
  BY <1>1, NothingType, NoConfigType DEF Init, TypeInv, TypeOK, PushInv, Outcome, Idle

\* A task of the type keeps it when it moves on.
LEMMA MoveKeepsType ==
  ASSUME TypeInv, NEW w \in Worker, NEW ph \in TaskPhase, NEW s \in Services,
         task[w].phase # "idle", Move(w, ph, s)
  PROVE  task' \in [Worker -> Task] /\ PushInv'
<1>1. task[w] \in Task /\ task[w].config.version \in Version
  BY DEF TypeInv, TypeOK, PushInv
<1> DEFINE t == [phase |-> ph, config |-> task[w].config, built |-> s]
<1>2. t \in Task /\ t.config.version \in Version
  BY <1>1 DEF Task
<1>3. task' = [task EXCEPT ![w] = t]
  BY DEF Move
<1> HIDE DEF t
<1>4. QED
  BY <1>2, <1>3 DEF TypeInv, TypeOK, PushInv

LEMMA BuiltKeepsType ==
  ASSUME TypeInv, NEW w \in Worker, NEW sdk \in BOOLEAN,
         task[w].phase # "idle", Built(w, sdk)
  PROVE  task' \in [Worker -> Task] /\ PushInv'
<1> DEFINE s == Build(task[w].config, sdk)
<1>1. s \in Services
  BY BuildType DEF TypeInv, TypeOK, Task
<1>2. Move(w, "built", s) /\ "built" \in TaskPhase
  BY DEF Built, TaskPhase
<1> HIDE DEF s
<1>3. QED
  BY <1>1, <1>2, MoveKeepsType

LEMMA ReplyKeepsType ==
  ASSUME TypeInv, NEW w \in Worker, NEW st \in Outcome, Reply(w, st)
  PROVE  task' \in [Worker -> Task] /\ PushInv' /\ outcome' \in [Version -> Outcome]
<1>1. Idle \in Task /\ Idle.phase = "idle"
  BY NothingType DEF Idle
<1>2. task' \in [Worker -> Task] /\ PushInv'
  BY <1>1 DEF TypeInv, TypeOK, PushInv, Reply
<1>3. outcome' \in [Version -> Outcome]
  <2>1. PICK told \in {st, "lost"} :
          outcome' = [outcome EXCEPT ![task[w].config.version] = told]
    BY DEF Reply
  <2>2. told \in Outcome
    BY DEF Outcome
  <2>3. QED
    BY <2>1, <2>2 DEF TypeInv, TypeOK
<1>4. QED
  BY <1>2, <1>3

LEMMA StepType == TypeInv /\ [Next]_vars => TypeInv'
<1> SUFFICES ASSUME TypeInv, [Next]_vars PROVE TypeInv'
  OBVIOUS
<1>1. CASE UNCHANGED vars
  BY <1>1 DEF vars, TypeInv, TypeOK, PushInv
<1>2. ASSUME NEW w \in Worker, NEW n \in Version, NEW b \in Body, Receive(w, n, b)
      PROVE TypeInv'
  <2>1. [version |-> n, body |-> b] \in Document
    BY DeploymentAssumption DEF Document
  <2> DEFINE c == FromDocument([version |-> n, body |-> b])
             t == [phase |-> "building", config |-> c, built |-> NoServices]
  <2>2. c \in Config /\ c.version \in Version
    BY <2>1, FromDocumentType
  <2> HIDE DEF c
  <2>3. t \in Task /\ t.config.version \in Version
    BY <2>2, NothingType DEF Task, TaskPhase
  <2>4. task' = [task EXCEPT ![w] = t]
    BY <1>2 DEF Receive, c
  <2> HIDE DEF t
  <2>5. task' \in [Worker -> Task] /\ PushInv'
    BY <2>3, <2>4 DEF TypeInv, TypeOK, PushInv
  <2>6. /\ sent' \in [Version -> Body \cup {NoDocument}]
        /\ outcome' \in [Version -> Outcome]
        /\ before' \in [Version -> SUBSET Version]
    BY <1>2 DEF Receive, TypeInv, TypeOK, Outcome
  <2>7. QED
    BY <1>2, <2>5, <2>6 DEF Receive, TypeInv, TypeOK, process
<1>3. ASSUME NEW w \in Worker, Assemble(w) PROVE TypeInv'
  BY <1>3, BuiltKeepsType DEF Assemble, Built, TypeInv, TypeOK
<1>4. ASSUME NEW w \in Worker, RejectScanner(w) PROVE TypeInv'
  BY <1>4, BuiltKeepsType DEF RejectScanner, Built, TypeInv, TypeOK
<1>5. ASSUME NEW w \in Worker, Stamp(w) PROVE TypeInv'
  <2>1. task[w].config \in Config /\ task[w].built \in Services
    BY DEF TypeInv, TypeOK, Task
  <2>2. task' \in [Worker -> Task] /\ PushInv'
    BY <1>5, <2>1, MoveKeepsType DEF Stamp, TaskPhase
  <2>3. liveKey' \in Key \cup {NoKey}
    BY <1>5, <2>1 DEF Stamp, StampedKey, Config
  <2>4. QED
    BY <1>5, <2>2, <2>3 DEF Stamp, TypeInv, TypeOK
<1>6. ASSUME NEW w \in Worker, Construct(w) PROVE TypeInv'
  BY <1>6, BuiltKeepsType DEF Construct, Built, TypeInv, TypeOK
<1>7. ASSUME NEW w \in Worker, Refuse(w) PROVE TypeInv'
  BY <1>7, ReplyKeepsType DEF Refuse, Outcome, TypeInv, TypeOK, process, history
<1>8. ASSUME NEW w \in Worker, AdoptServices(w) PROVE TypeInv'
  <2>1. task[w].built \in Services
    BY DEF TypeInv, TypeOK, Task
  <2>2. task' \in [Worker -> Task] /\ PushInv'
    BY <1>8, <2>1, MoveKeepsType DEF AdoptServices, TaskPhase
  <2>3. QED
    BY <1>8, <2>1, <2>2 DEF AdoptServices, TypeInv, TypeOK
<1>9. ASSUME NEW w \in Worker, AdoptConfig(w) PROVE TypeInv'
  <2>1. task[w].config \in Config /\ task[w].built \in Services
    BY DEF TypeInv, TypeOK, Task
  <2>2. task' \in [Worker -> Task] /\ PushInv'
    BY <1>9, <2>1, MoveKeepsType DEF AdoptConfig, TaskPhase
  <2>3. QED
    BY <1>9, <2>1, <2>2 DEF AdoptConfig, TypeInv, TypeOK
<1>10. ASSUME NEW w \in Worker, Save(w) PROVE TypeInv'
  <2>1. task' \in [Worker -> Task] /\ PushInv' /\ outcome' \in [Version -> Outcome]
    BY <1>10, ReplyKeepsType DEF Save, Outcome
  <2>2. task[w].config \in Config /\ task[w].config.version \in Version
    BY <1>10 DEF Save, TypeInv, TypeOK, PushInv, Task
  <2>3. NewFile(w) \in Document
    BY <2>2, ToDocumentType DEF NewFile
  <2>4. cache' \in Document \cup {NoDocument} /\ unsaved' \in SUBSET Version
    BY <1>10, <2>2, <2>3 DEF Save, TypeInv, TypeOK
  <2>5. QED
    BY <1>10, <2>1, <2>4 DEF Save, TypeInv, TypeOK, process, history
<1>11. CASE Boot
  <2>1. PICK c \in {NoConfig} \cup (IF cache = NoDocument THEN {} ELSE {FromDocument(cache)}),
             sdk \in BOOLEAN :
          /\ config' = c
          /\ services' = Build(c, sdk)
          /\ liveKey' \in {NoKey, c.airsKey}
    BY <1>11 DEF Boot
  <2>2. c \in Config
    BY <2>1, NoConfigType, FromDocumentType DEF TypeInv, TypeOK
  <2>3. config' \in Config /\ services' \in Services /\ liveKey' \in Key \cup {NoKey}
    BY <2>1, <2>2, BuildType DEF Config
  <2>4. QED
    BY <1>11, <2>3 DEF Boot, TypeInv, TypeOK, PushInv, history
<1>12. CASE Stop
  BY <1>12 DEF Stop, TypeInv, TypeOK, PushInv, process, history
<1>13. CASE Exit
  BY <1>13, NothingType, NoConfigType DEF Exit, Gone, TypeInv, TypeOK, PushInv, history
<1>14. CASE Crash
  <2>1. task' \in [Worker -> Task] /\ PushInv' /\ outcome' \in [Version -> Outcome]
    BY <1>14, NothingType DEF Crash, TypeInv, TypeOK, PushInv, Outcome, Idle
  <2>2. QED
    BY <1>14, <2>1, NothingType, NoConfigType DEF Crash, Gone, TypeInv, TypeOK, history
<1>15. ASSUME NEW w \in Worker, Occupy(w) \/ Vacate(w) PROVE TypeInv'
  BY <1>15 DEF Occupy, Vacate, TypeInv, TypeOK, PushInv, process, history
<1>16. QED
  BY <1>1, <1>2, <1>3, <1>4, <1>5, <1>6, <1>7, <1>8, <1>9, <1>10, <1>11, <1>12, <1>13, <1>14, <1>15
     DEF Next, Step

\* Every variable keeps its type, whatever is pushed and whenever the process
\* dies: a document survives the trip through the cache as a document.
THEOREM TypeCorrect == Spec => []TypeOK
<1>1. Init => TypeInv
  BY InitType
<1>2. TypeInv /\ [Next]_vars => TypeInv'
  BY StepType
<1>3. TypeInv => TypeOK
  BY DEF TypeInv
<1>4. QED
  BY <1>1, <1>2, <1>3, PTL DEF Spec, Safety
-----------------------------------------------------------------------------
(* What is held, and by whose push.                                        *)

Busy(w) == task[w].phase # "idle"
Ver(w) == task[w].config.version
Cached(n) == cache # NoDocument /\ cache.version = n
Held(n) == services.version = n \/ config.version = n \/ Cached(n)

\* The push was answered after it had been adopted: accepted, cut off, or refused
\* because its save and the cleanup after it both failed.
Settled(n) == outcome[n] \in {"ok", "lost"} \/ (outcome[n] = "refused" /\ n \in unsaved)

\* A call that is being served is about a push of its own that is not over, and
\* there is none while the process is down.
CallInv ==
  /\ \A w \in Worker : Busy(w) => outcome[Ver(w)] = "open" /\ life # "down"
  /\ \A v, w \in Worker : Busy(v) /\ Busy(w) /\ Ver(v) = Ver(w) => v = w
  /\ \A w \in Worker : task[w].phase \in {"built", "serving", "adopted"} =>
       task[w].built.version = Ver(w)

\* What is held was adopted before its answer, or is being adopted by the call it
\* came in; what is cached was never refused.
CachedInv == \A n \in Version : Cached(n) => outcome[n] \in {"ok", "lost"}
HeldInv ==
  /\ CachedInv
  /\ \A n \in Version : Held(n) =>
       \/ Settled(n)
       \/ \E w \in Worker : Ver(w) = n /\ task[w].phase \in {"serving", "adopted"}

\* The pushes that were over before another was sent are over, and an accepted
\* or half adopted push holds none of them any more.
PastInv ==
  /\ \A n \in Version : \A m \in before[n] : outcome[m] \in Over
  /\ NoResurrection
  /\ \A w \in Worker :
       /\ task[w].phase \in {"serving", "adopted"} => services.version \notin before[Ver(w)]
       /\ task[w].phase = "adopted" => config.version \notin before[Ver(w)]

DeploymentInv == TypeInv /\ CallInv /\ HeldInv /\ PastInv

LEMMA InitDeployment == Init => DeploymentInv
<1> SUFFICES ASSUME Init PROVE DeploymentInv
  OBVIOUS
<1>1. TypeInv
  BY InitType
<1>2. CallInv
  BY DEF Init, CallInv, Busy, Idle
<1>3. HeldInv
  BY NothingType, NoConfigType, DeploymentAssumption DEF Init, HeldInv, CachedInv, Cached, Held, Version
<1>4. PastInv
  BY DEF Init, PastInv, NoResurrection, Idle
<1> QED
  BY <1>1, <1>2, <1>3, <1>4 DEF DeploymentInv

\* A worker that only moves on, or changes what no part of the invariants is
\* about, keeps them.
LEMMA MoveDeployment ==
  ASSUME DeploymentInv, NEW w \in Worker, NEW ph \in {"stamped", "built"}, NEW s \in Services,
         task[w].phase \in {"building", "stamped"}, Move(w, ph, s), ph = "built" => s.version = Ver(w),
         UNCHANGED <<life, services, config, cache, elsewhere, sent, outcome, before, unsaved>>
  PROVE  CallInv' /\ HeldInv' /\ PastInv'
<1> USE DEF DeploymentInv
<1>1. task[w] \in Task
  BY DEF TypeInv, TypeOK
<1>2. /\ task'[w].phase = ph /\ task'[w].config = task[w].config /\ task'[w].built = s
      /\ \A v \in Worker \ {w} : task'[v] = task[v]
  BY DEF Move, TypeInv, TypeOK
<1>3. \A v \in Worker : Ver(v)' = Ver(v) /\ (Busy(v)' <=> Busy(v))
  BY <1>2 DEF Ver, Busy
<1>4. CallInv'
  BY <1>2, <1>3 DEF CallInv
<1>5. \A v \in Worker : task'[v].phase \in {"serving", "adopted"} <=> task[v].phase \in {"serving", "adopted"}
  BY <1>2
<1>6. HeldInv'
  BY <1>3, <1>5 DEF HeldInv, CachedInv, Cached, Settled, Held
<1>7. PastInv'
  BY <1>2, <1>3, <1>5 DEF PastInv, NoResurrection
<1> QED
  BY <1>4, <1>6, <1>7
\* A call that returns was about a push that no other call is about, which is
\* over now; nothing else becomes over.
LEMMA ReplyFacts ==
  ASSUME DeploymentInv, NEW w \in Worker, Busy(w), NEW st \in Over, Reply(w, st)
  PROVE  /\ \A v \in Worker : Busy(v)' => v # w /\ task'[v] = task[v] /\ Ver(v) # Ver(w)
         /\ \A v \in Worker : task'[v] = task[v] \/ (v = w /\ ~Busy(v)' /\ task'[v].phase = "idle")
         /\ outcome[Ver(w)] = "open" /\ Ver(w) \in Version
         /\ outcome'[Ver(w)] \in {st, "lost"}
         /\ \A n \in Version \ {Ver(w)} : outcome'[n] = outcome[n]
<1> USE DEF DeploymentInv
<1>1. outcome[Ver(w)] = "open" /\ Ver(w) \in Version
  BY DEF CallInv, TypeInv, PushInv, Busy, Ver
<1>2. PICK told \in {st, "lost"} : outcome' = [outcome EXCEPT ![Ver(w)] = told]
  BY DEF Reply, Ver
<1>3. /\ outcome'[Ver(w)] \in {st, "lost"}
      /\ \A n \in Version \ {Ver(w)} : outcome'[n] = outcome[n]
  BY <1>1, <1>2 DEF TypeInv, TypeOK
<1>4. task'[w] = Idle /\ \A v \in Worker \ {w} : task'[v] = task[v]
  BY DEF Reply, TypeInv, TypeOK
<1>5. Idle.phase = "idle"
  BY DEF Idle
<1>6. \A v \in Worker : Busy(v)' => v # w /\ task'[v] = task[v] /\ Ver(v) # Ver(w)
  BY <1>4, <1>5 DEF Busy, CallInv
<1>7. \A v \in Worker : task'[v] = task[v] \/ (v = w /\ ~Busy(v)' /\ task'[v].phase = "idle")
  BY <1>4, <1>5 DEF Busy
<1>8. QED
  BY <1>1, <1>3, <1>6, <1>7

LEMMA ReplyKeepsCalls ==
  ASSUME DeploymentInv, NEW w \in Worker, Busy(w), NEW st \in Over, Reply(w, st), life' = life
  PROVE  CallInv'
<1> USE DEF DeploymentInv
<1>1. \A v \in Worker : Busy(v)' => /\ outcome'[Ver(v)'] = "open" /\ life' # "down"
  <2> SUFFICES ASSUME NEW v \in Worker, Busy(v)'
               PROVE  outcome'[Ver(v)'] = "open" /\ life' # "down"
    OBVIOUS
  <2>1. v # w /\ task'[v] = task[v] /\ Ver(v) # Ver(w)
    BY ReplyFacts
  <2>2. Busy(v) /\ Ver(v)' = Ver(v) /\ Ver(v) \in Version
    BY <2>1 DEF Busy, Ver, TypeInv, PushInv
  <2>3. outcome'[Ver(v)] = outcome[Ver(v)]
    BY <2>1, <2>2, ReplyFacts
  <2>4. QED
    BY <2>2, <2>3 DEF CallInv
<1>2. \A u, v \in Worker : Busy(u)' /\ Busy(v)' /\ Ver(u)' = Ver(v)' => u = v
  <2>1. \A v \in Worker : Busy(v)' => Busy(v) /\ Ver(v)' = Ver(v)
    BY ReplyFacts DEF Busy, Ver
  <2>2. QED
    BY <2>1 DEF CallInv
<1>3. \A v \in Worker : task'[v].phase \in {"built", "serving", "adopted"} =>
        task'[v].built.version = Ver(v)'
  BY ReplyFacts DEF CallInv, Ver, Busy
<1>4. QED
  BY <1>1, <1>2, <1>3 DEF CallInv
\* A push that is open is not among those that were over before another.
LEMMA OpenIsNotPast ==
  ASSUME DeploymentInv, NEW w \in Worker, Busy(w), NEW n \in Version
  PROVE  Ver(w) \notin before[n]
BY DEF DeploymentInv, CallInv, PastInv, Over

LEMMA ReceiveDeployment ==
  ASSUME DeploymentInv, NEW w \in Worker, NEW n \in Version, NEW b \in Body, Receive(w, n, b)
  PROVE  CallInv' /\ HeldInv' /\ PastInv'
<1> USE DEF DeploymentInv
<1>1. [version |-> n, body |-> b] \in Document
  BY DeploymentAssumption DEF Document
<1> DEFINE c == FromDocument([version |-> n, body |-> b])
           t == [phase |-> "building", config |-> c, built |-> NoServices]
<1>2. c.version = n
  BY <1>1, FromDocumentType
<1>3. task' = [task EXCEPT ![w] = t]
  BY DEF Receive
<1> HIDE DEF c
<1>4. t.phase = "building" /\ t.config.version = n
  BY <1>2
<1> HIDE DEF t
<1>5. task'[w] = t /\ \A v \in Worker \ {w} : task'[v] = task[v]
  BY <1>3 DEF TypeInv, TypeOK
<1>6. /\ outcome[n] = "unsent" /\ outcome'[n] = "open" /\ life = "up" /\ life' = "up"
      /\ \A m \in Version \ {n} : outcome'[m] = outcome[m]
      /\ before'[n] = {m \in Version : outcome[m] \in Over}
      /\ \A m \in Version \ {n} : before'[m] = before[m]
      /\ task[w].phase = "idle"
      /\ services' = services /\ config' = config /\ cache' = cache /\ unsaved' = unsaved
  BY DEF Receive, Free, TypeInv, TypeOK, process
<1>7. Busy(w)' /\ Ver(w)' = n /\ task'[w].phase = "building"
  BY <1>4, <1>5 DEF Busy, Ver
<1>8. \A v \in Worker \ {w} :
        (Busy(v)' <=> Busy(v)) /\ Ver(v)' = Ver(v) /\ (Busy(v) => Ver(v) \in Version \ {n})
  BY <1>5, <1>6 DEF Busy, Ver, CallInv, TypeInv, PushInv
<1>9. CallInv'
  <2>1. \A v \in Worker : Busy(v)' => outcome'[Ver(v)'] = "open" /\ life' # "down"
    BY <1>6, <1>7, <1>8 DEF CallInv
  <2>2. \A u, v \in Worker : Busy(u)' /\ Busy(v)' /\ Ver(u)' = Ver(v)' => u = v
    BY <1>7, <1>8 DEF CallInv
  <2>3. \A v \in Worker : task'[v].phase \in {"built", "serving", "adopted"} =>
          task'[v].built.version = Ver(v)'
    BY <1>5, <1>7, <1>8 DEF CallInv
  <2> QED
    BY <2>1, <2>2, <2>3 DEF CallInv
<1>10. HeldInv'
  <2>0. CachedInv'
    BY <1>6 DEF HeldInv, CachedInv, Cached
  <2> SUFFICES ASSUME NEW k \in Version, Held(k)
               PROVE  \/ Settled(k)'
                      \/ \E v \in Worker : Ver(v)' = k /\ task'[v].phase \in {"serving", "adopted"}
    BY <1>6, <2>0 DEF HeldInv, Held, Cached
  <2>1. CASE Settled(k)
    BY <1>6, <2>1 DEF Settled
  <2>2. ASSUME NEW v \in Worker, Ver(v) = k, task[v].phase \in {"serving", "adopted"}
        PROVE  Ver(v)' = k /\ task'[v].phase \in {"serving", "adopted"}
    BY <1>5, <1>6, <2>2 DEF Ver
  <2>3. QED
    BY <2>1, <2>2 DEF HeldInv
<1>11. PastInv'
  <2>1. \A k \in Version : \A m \in before'[k] : outcome'[m] \in Over
    <3>1. \A k \in Version : before'[k] \in SUBSET Version /\ \A m \in before'[k] : outcome[m] \in Over
      BY <1>6 DEF PastInv, TypeInv, TypeOK
    <3> QED
      BY <1>6, <3>1 DEF Over
  <2>2. NoResurrection'
    BY <1>6 DEF PastInv, NoResurrection
  <2>3. \A v \in Worker :
          /\ task'[v].phase \in {"serving", "adopted"} => services'.version \notin before'[Ver(v)']
          /\ task'[v].phase = "adopted" => config'.version \notin before'[Ver(v)']
    <3> SUFFICES ASSUME NEW v \in Worker, task'[v].phase \in {"serving", "adopted"}
                 PROVE  /\ services'.version \notin before'[Ver(v)']
                        /\ task'[v].phase = "adopted" => config'.version \notin before'[Ver(v)']
      OBVIOUS
    <3>1. v # w /\ task'[v] = task[v]
      BY <1>5, <1>7
    <3>2. Busy(v) /\ Ver(v)' = Ver(v)
      BY <3>1 DEF Busy, Ver
    <3>3. before'[Ver(v)] = before[Ver(v)]
      BY <1>6, <1>8, <3>1, <3>2
    <3>4. QED
      BY <1>6, <3>1, <3>2, <3>3 DEF PastInv
  <2> QED
    BY <2>1, <2>2, <2>3 DEF PastInv
<1> QED
  BY <1>9, <1>10, <1>11

LEMMA RefuseDeployment ==
  ASSUME DeploymentInv, NEW w \in Worker, Refuse(w)
  PROVE  CallInv' /\ HeldInv' /\ PastInv'
<1> USE DEF DeploymentInv
<1>1. /\ Busy(w) /\ task[w].phase = "built" /\ Reply(w, "refused") /\ "refused" \in Over
      /\ UNCHANGED <<life, services, config, cache, before, unsaved>>
  BY DEF Refuse, Busy, Over, process, history
<1>2. CallInv'
  BY <1>1, ReplyKeepsCalls
<1> DEFINE r == Ver(w)
<1>3. /\ \A v \in Worker : Busy(v)' => v # w /\ task'[v] = task[v] /\ Ver(v) # r
      /\ \A v \in Worker \ {w} : task'[v] = task[v]
      /\ outcome[r] = "open" /\ outcome'[r] \in {"refused", "lost"}
      /\ \A n \in Version \ {r} : outcome'[n] = outcome[n]
  BY <1>1, ReplyFacts
<1>4. HeldInv'
  <2>0. CachedInv'
    BY <1>1, <1>3 DEF HeldInv, CachedInv, Cached
  <2> SUFFICES ASSUME NEW k \in Version, Held(k)
               PROVE  \/ Settled(k)'
                      \/ \E v \in Worker : Ver(v)' = k /\ task'[v].phase \in {"serving", "adopted"}
    BY <1>1, <2>0 DEF HeldInv, Held, Cached
  <2>1. k # r
    BY <1>1, <1>3 DEF HeldInv, CallInv, Settled, Busy
  <2>2. CASE Settled(k)
    BY <1>1, <1>3, <2>1, <2>2 DEF Settled
  <2>3. ASSUME NEW v \in Worker, Ver(v) = k, task[v].phase \in {"serving", "adopted"}
        PROVE  Ver(v)' = k /\ task'[v].phase \in {"serving", "adopted"}
    BY <1>3, <2>1, <2>3 DEF Ver
  <2>4. QED
    BY <2>2, <2>3 DEF HeldInv
<1>5. PastInv'
  <2>1. \A k \in Version : \A m \in before'[k] : outcome'[m] \in Over
    BY <1>1, <1>3 DEF PastInv, Over, TypeInv, TypeOK
  <2>2. NoResurrection'
    BY <1>1, <1>3 DEF PastInv, NoResurrection
  <2>3. \A v \in Worker :
          /\ task'[v].phase \in {"serving", "adopted"} => services'.version \notin before'[Ver(v)']
          /\ task'[v].phase = "adopted" => config'.version \notin before'[Ver(v)']
    BY <1>1, <1>3 DEF PastInv, Busy, Ver
  <2> QED
    BY <2>1, <2>2, <2>3 DEF PastInv
<1> QED
  BY <1>2, <1>4, <1>5
LEMMA AdoptServicesDeployment ==
  ASSUME DeploymentInv, NEW w \in Worker, AdoptServices(w)
  PROVE  CallInv' /\ HeldInv' /\ PastInv'
<1> USE DEF DeploymentInv
<1>1. /\ task[w].phase = "built" /\ Busy(w) /\ Ver(w) \in Version /\ outcome[Ver(w)] = "open"
      /\ services' = task[w].built /\ services'.version = Ver(w)
      /\ UNCHANGED <<life, config, cache, outcome, before, unsaved>>
  BY DEF AdoptServices, Busy, Ver, CallInv, TypeInv, PushInv
<1>2. /\ task'[w].phase = "serving" /\ task'[w].config = task[w].config /\ task'[w].built = task[w].built
      /\ \A v \in Worker \ {w} : task'[v] = task[v]
  BY DEF AdoptServices, Move, TypeInv, TypeOK
<1>3. \A v \in Worker : Ver(v)' = Ver(v) /\ (Busy(v)' <=> Busy(v))
  BY <1>1, <1>2 DEF Ver, Busy
<1>4. CallInv'
  BY <1>1, <1>2, <1>3 DEF CallInv
<1>5. HeldInv'
  <2>0. CachedInv'
    BY <1>1 DEF HeldInv, CachedInv, Cached
  <2> SUFFICES ASSUME NEW k \in Version, Held(k)'
               PROVE  \/ Settled(k)'
                      \/ \E v \in Worker : Ver(v)' = k /\ task'[v].phase \in {"serving", "adopted"}
    BY <2>0 DEF HeldInv
  <2>1. k = Ver(w) \/ Held(k)
    BY <1>1 DEF Held, Cached
  <2>2. CASE k = Ver(w)
    BY <1>2, <1>3, <2>2
  <2>3. CASE Held(k)
    BY <1>1, <1>2, <1>3, <2>3 DEF HeldInv, Settled
  <2>4. QED
    BY <2>1, <2>2, <2>3
<1>6. \A n \in Version : services'.version \notin before[n]
  BY <1>1, OpenIsNotPast
<1>7. PastInv'
  <2>1. NoResurrection'
    BY <1>1, <1>6 DEF PastInv, NoResurrection
  <2>2. \A v \in Worker :
          /\ task'[v].phase \in {"serving", "adopted"} => services'.version \notin before'[Ver(v)']
          /\ task'[v].phase = "adopted" => config'.version \notin before'[Ver(v)']
    <3> SUFFICES ASSUME NEW v \in Worker, task'[v].phase \in {"serving", "adopted"}
                 PROVE  /\ services'.version \notin before'[Ver(v)']
                        /\ task'[v].phase = "adopted" => config'.version \notin before'[Ver(v)']
      OBVIOUS
    <3>1. Ver(v) \in Version
      BY <1>2, <1>3 DEF Busy, TypeInv, PushInv, Ver
    <3>2. services'.version \notin before'[Ver(v)']
      BY <1>1, <1>3, <1>6, <3>1
    <3>3. task'[v].phase = "adopted" => config'.version \notin before'[Ver(v)']
      BY <1>1, <1>2, <1>3 DEF PastInv
    <3>4. QED
      BY <3>2, <3>3
  <2>3. QED
    BY <1>1, <2>1, <2>2 DEF PastInv
<1> QED
  BY <1>4, <1>5, <1>7

LEMMA AdoptConfigDeployment ==
  ASSUME DeploymentInv, NEW w \in Worker, AdoptConfig(w)
  PROVE  CallInv' /\ HeldInv' /\ PastInv'
<1> USE DEF DeploymentInv
<1>1. /\ task[w].phase = "serving" /\ Busy(w) /\ Ver(w) \in Version /\ outcome[Ver(w)] = "open"
      /\ config' = task[w].config /\ config'.version = Ver(w)
      /\ UNCHANGED <<life, services, cache, outcome, before, unsaved>>
  BY DEF AdoptConfig, Busy, Ver, CallInv, TypeInv, PushInv
<1>2. /\ task'[w].phase = "adopted" /\ task'[w].config = task[w].config /\ task'[w].built = task[w].built
      /\ \A v \in Worker \ {w} : task'[v] = task[v]
  BY DEF AdoptConfig, Move, TypeInv, TypeOK
<1>3. \A v \in Worker : Ver(v)' = Ver(v) /\ (Busy(v)' <=> Busy(v))
  BY <1>1, <1>2 DEF Ver, Busy
<1>4. CallInv'
  BY <1>1, <1>2, <1>3 DEF CallInv
<1>5. HeldInv'
  <2>0. CachedInv'
    BY <1>1 DEF HeldInv, CachedInv, Cached
  <2> SUFFICES ASSUME NEW k \in Version, Held(k)'
               PROVE  \/ Settled(k)'
                      \/ \E v \in Worker : Ver(v)' = k /\ task'[v].phase \in {"serving", "adopted"}
    BY <2>0 DEF HeldInv
  <2>1. k = Ver(w) \/ Held(k)
    BY <1>1 DEF Held, Cached
  <2>2. CASE k = Ver(w)
    BY <1>2, <1>3, <2>2
  <2>3. CASE Held(k)
    BY <1>1, <1>2, <1>3, <2>3 DEF HeldInv, Settled
  <2>4. QED
    BY <2>1, <2>2, <2>3
<1>6. \A n \in Version : config'.version \notin before[n]
  BY <1>1, OpenIsNotPast
<1>7. PastInv'
  <2>1. NoResurrection'
    BY <1>1, <1>6 DEF PastInv, NoResurrection
  <2>2. \A v \in Worker :
          /\ task'[v].phase \in {"serving", "adopted"} => services'.version \notin before'[Ver(v)']
          /\ task'[v].phase = "adopted" => config'.version \notin before'[Ver(v)']
    <3> SUFFICES ASSUME NEW v \in Worker, task'[v].phase \in {"serving", "adopted"}
                 PROVE  /\ services'.version \notin before'[Ver(v)']
                        /\ config'.version \notin before'[Ver(v)']
      OBVIOUS
    <3>1. Ver(v) \in Version /\ task[v].phase \in {"serving", "adopted"}
      BY <1>1, <1>2, <1>3 DEF Busy, TypeInv, PushInv, Ver
    <3>2. config'.version \notin before'[Ver(v)']
      BY <1>1, <1>3, <1>6, <3>1
    <3>3. services'.version \notin before'[Ver(v)']
      BY <1>1, <1>3, <3>1 DEF PastInv
    <3>4. QED
      BY <3>2, <3>3
  <2>3. QED
    BY <1>1, <2>1, <2>2 DEF PastInv
<1> QED
  BY <1>4, <1>5, <1>7

LEMMA SaveDeployment ==
  ASSUME DeploymentInv, NEW w \in Worker, Save(w)
  PROVE  CallInv' /\ HeldInv' /\ PastInv'
<1> USE DEF DeploymentInv
<1> DEFINE r == Ver(w)
<1>1. /\ Busy(w) /\ task[w].phase = "adopted"
      /\ UNCHANGED <<life, services, config, before>>
  BY DEF Save, Busy, process, history
<1>0. PICK st \in {"ok", "refused"} :
        /\ Reply(w, st)
        /\ \/ cache' = NewFile(w) /\ unsaved' = unsaved /\ st = "ok"
           \/ cache' = cache /\ unsaved' = unsaved \cup {r}
  BY DEF Save, Ver
<1>2. CallInv'
  BY <1>0, <1>1, ReplyKeepsCalls DEF Over
<1>3. /\ \A v \in Worker : Busy(v)' => v # w /\ task'[v] = task[v] /\ Ver(v) # r
      /\ \A v \in Worker \ {w} : task'[v] = task[v]
      /\ outcome[r] = "open" /\ outcome'[r] \in {st, "lost"} /\ r \in Version
      /\ \A n \in Version \ {r} : outcome'[n] = outcome[n]
  BY <1>0, <1>1, ReplyFacts DEF Over
<1>4. NewFile(w).version = r /\ NewFile(w) # NoDocument
  <2>1. task[w].config \in Config /\ task[w].config.version \in Version
    BY <1>3 DEF TypeInv, TypeOK, Task, Ver
  <2>2. QED
    BY <2>1, ToDocumentType, DeploymentAssumption DEF NewFile, Ver
<1>5. \/ cache' = NewFile(w) /\ unsaved' = unsaved
      \/ cache' = cache /\ unsaved' = unsaved \cup {r}
  BY <1>0
<1>6. HeldInv'
  <2>0. CachedInv'
    BY <1>0, <1>3, <1>4 DEF HeldInv, CachedInv, Cached
  <2> SUFFICES ASSUME NEW k \in Version, Held(k)'
               PROVE  \/ Settled(k)'
                      \/ \E v \in Worker : Ver(v)' = k /\ task'[v].phase \in {"serving", "adopted"}
    BY <2>0 DEF HeldInv
  <2>1. CASE k = r
    BY <1>0, <1>3, <2>1 DEF Settled
  <2>2. CASE k # r
    <3>1. Held(k)
      BY <1>1, <1>4, <1>5, <2>2 DEF Held, Cached
    <3>2. CASE Settled(k)
      BY <1>3, <1>5, <2>2, <3>2 DEF Settled
    <3>3. ASSUME NEW v \in Worker, Ver(v) = k, task[v].phase \in {"serving", "adopted"}
          PROVE  Ver(v)' = k /\ task'[v].phase \in {"serving", "adopted"}
      BY <1>3, <2>2, <3>3 DEF Ver
    <3>4. QED
      BY <3>1, <3>2, <3>3 DEF HeldInv
  <2>3. QED
    BY <2>1, <2>2
<1>7. PastInv'
  <2>1. \A k \in Version : \A m \in before'[k] : outcome'[m] \in Over
    BY <1>0, <1>1, <1>3 DEF PastInv, Over, TypeInv, TypeOK
  <2>2. NoResurrection'
    <3> SUFFICES ASSUME NEW k \in Version, outcome'[k] = "ok", k \notin unsaved'
                 PROVE  /\ services'.version \notin before'[k]
                        /\ config'.version \notin before'[k]
                        /\ cache' # NoDocument => cache'.version \notin before'[k]
      BY DEF NoResurrection
    <3>1. r \notin before[k]
      BY <1>1, OpenIsNotPast
    <3>2. CASE k = r
      <4>1. cache' = NewFile(w)
        BY <1>5, <3>2
      <4>2. services.version \notin before[r] /\ config.version \notin before[r]
        BY <1>1 DEF PastInv
      <4>3. QED
        BY <1>1, <1>4, <3>1, <3>2, <4>1, <4>2
    <3>3. CASE k # r
      <4>1. outcome[k] = "ok" /\ k \notin unsaved
        BY <1>3, <1>5, <3>3
      <4>2. /\ services.version \notin before[k] /\ config.version \notin before[k]
            /\ cache # NoDocument => cache.version \notin before[k]
        BY <4>1 DEF PastInv, NoResurrection
      <4>3. QED
        BY <1>1, <1>4, <1>5, <3>1, <4>2
    <3>4. QED
      BY <3>2, <3>3
  <2>3. \A v \in Worker :
          /\ task'[v].phase \in {"serving", "adopted"} => services'.version \notin before'[Ver(v)']
          /\ task'[v].phase = "adopted" => config'.version \notin before'[Ver(v)']
    BY <1>1, <1>3 DEF PastInv, Busy, Ver
  <2> QED
    BY <2>1, <2>2, <2>3 DEF PastInv
<1> QED
  BY <1>2, <1>6, <1>7
LEMMA BootDeployment ==
  ASSUME DeploymentInv, Boot
  PROVE  CallInv' /\ HeldInv' /\ PastInv'
<1> USE DEF DeploymentInv
<1>1. PICK c \in {NoConfig} \cup (IF cache = NoDocument THEN {} ELSE {FromDocument(cache)}),
           sdk \in BOOLEAN : config' = c /\ services' = Build(c, sdk)
  BY DEF Boot
<1>2. c \in Config /\ (c.version = 0 \/ (cache # NoDocument /\ c.version = cache.version))
  <2>1. CASE c = NoConfig
    BY <2>1, NoConfigType
  <2>2. CASE cache # NoDocument /\ c = FromDocument(cache)
    BY <2>2, FromDocumentType DEF TypeInv, TypeOK
  <2>3. QED
    BY <1>1, <2>1, <2>2
<1>3. services'.version = c.version /\ config'.version = c.version
  BY <1>1, <1>2, BuildType
<1>4. /\ \A w \in Worker : ~Busy(w)
      /\ UNCHANGED <<task, outcome, before, cache, unsaved>>
  BY DEF Boot, CallInv, history
<1>5. \A w \in Worker : task[w].phase = "idle" /\ task'[w] = task[w]
  BY <1>4 DEF Busy
<1>6. \A n \in Version : Held(n)' => Held(n)
  BY <1>2, <1>3, <1>4, DeploymentAssumption DEF Held, Cached, Version
<1>7. CallInv'
  BY <1>5 DEF CallInv, Busy
<1>8. HeldInv'
  <2>1. CachedInv'
    BY <1>4 DEF HeldInv, CachedInv, Cached
  <2>2. \A n \in Version : Held(n)' => Settled(n) /\ (Settled(n)' <=> Settled(n))
    BY <1>4, <1>5, <1>6 DEF HeldInv, Held, Cached, Settled
  <2>3. QED
    BY <2>1, <2>2 DEF HeldInv
<1>9. PastInv'
  <2>1. 0 \notin Version
    BY DeploymentAssumption DEF Version
  <2>2. NoResurrection'
    BY <1>2, <1>3, <1>4, <2>1 DEF PastInv, NoResurrection, TypeInv, TypeOK
  <2>3. QED
    BY <1>4, <1>5, <2>2 DEF PastInv
<1> QED
  BY <1>7, <1>8, <1>9

\* The process is gone: what is still held is the cached document, which was
\* accepted or lost.
LEMMA GoneDeployment ==
  ASSUME DeploymentInv, Gone,
         \A w \in Worker : task'[w].phase = "idle",
         \A n \in Version :
           \/ outcome'[n] = outcome[n] /\ (outcome[n] = "open" => \A w \in Worker : ~Busy(w))
           \/ outcome[n] = "open" /\ outcome'[n] = "lost"
  PROVE  CallInv' /\ HeldInv' /\ PastInv'
<1> USE DEF DeploymentInv
<1>1. /\ services'.version = 0 /\ config'.version = 0
      /\ UNCHANGED <<cache, before, unsaved>>
  BY NothingType, NoConfigType DEF Gone, history
<1>2. 0 \notin Version
  BY DeploymentAssumption DEF Version
<1>3. CallInv'
  BY DEF CallInv, Busy
<1>4. HeldInv'
  <2> SUFFICES ASSUME NEW k \in Version, Held(k)' PROVE outcome'[k] \in {"ok", "lost"}
    BY DEF HeldInv, CachedInv, Settled, Held
  <2>1. Cached(k)
    BY <1>1, <1>2 DEF Held, Cached
  <2>2. QED
    BY <2>1 DEF HeldInv, CachedInv
<1>5. PastInv'
  <2>1. \A k \in Version : \A m \in before'[k] : outcome'[m] \in Over
    BY <1>1 DEF PastInv, Over, TypeInv, TypeOK
  <2>2. NoResurrection'
    BY <1>1, <1>2 DEF PastInv, NoResurrection, TypeInv, TypeOK
  <2>3. QED
    BY <1>1, <2>1, <2>2 DEF PastInv
<1> QED
  BY <1>3, <1>4, <1>5
LEMMA StepDeployment == DeploymentInv /\ [Next]_vars => DeploymentInv'
<1> SUFFICES ASSUME DeploymentInv, [Next]_vars PROVE CallInv' /\ HeldInv' /\ PastInv'
  BY StepType DEF DeploymentInv
<1>1. CASE UNCHANGED vars
  BY <1>1 DEF vars, DeploymentInv, CallInv, HeldInv, CachedInv, PastInv, NoResurrection,
                Busy, Ver, Cached, Settled, Held
<1>2. ASSUME NEW w \in Worker, NEW n \in Version, NEW b \in Body, Receive(w, n, b)
      PROVE  CallInv' /\ HeldInv' /\ PastInv'
  BY <1>2, ReceiveDeployment
<1>3. ASSUME NEW w \in Worker, NEW sdk \in BOOLEAN, Built(w, sdk), UNCHANGED liveKey,
             task[w].phase \in {"building", "stamped"}
      PROVE  CallInv' /\ HeldInv' /\ PastInv'
  <2> DEFINE s == Build(task[w].config, sdk)
  <2>1. s \in Services /\ s.version = Ver(w)
    BY BuildType DEF DeploymentInv, TypeInv, TypeOK, Task, Ver
  <2>2. Move(w, "built", s) /\ "built" \in {"stamped", "built"}
    BY <1>3 DEF Built
  <2> HIDE DEF s
  <2>3. UNCHANGED <<life, services, config, cache, elsewhere, sent, outcome, before, unsaved>>
    BY <1>3 DEF Built
  <2>4. QED
    BY <1>3, <2>1, <2>2, <2>3, MoveDeployment
<1>4. ASSUME NEW w \in Worker, Stamp(w) PROVE CallInv' /\ HeldInv' /\ PastInv'
  <2>1. task[w].built \in Services
    BY DEF DeploymentInv, TypeInv, TypeOK, Task
  <2>2. Move(w, "stamped", task[w].built) /\ "stamped" \in {"stamped", "built"} /\ "stamped" # "built"
    BY <1>4 DEF Stamp
  <2>3. /\ UNCHANGED <<life, services, config, cache, elsewhere, sent, outcome, before, unsaved>>
        /\ task[w].phase \in {"building", "stamped"}
    BY <1>4 DEF Stamp
  <2>4. QED
    BY <2>1, <2>2, <2>3, MoveDeployment
<1>5. ASSUME NEW w \in Worker, Assemble(w) \/ RejectScanner(w) \/ Construct(w)
      PROVE  CallInv' /\ HeldInv' /\ PastInv'
  <2>1. PICK sdk \in BOOLEAN : Built(w, sdk)
    BY <1>5 DEF Assemble, RejectScanner, Construct
  <2>2. UNCHANGED liveKey /\ task[w].phase \in {"building", "stamped"}
    BY <1>5 DEF Assemble, RejectScanner, Construct
  <2>3. QED
    BY <1>3, <2>1, <2>2
<1>6. ASSUME NEW w \in Worker, Refuse(w) PROVE CallInv' /\ HeldInv' /\ PastInv'
  BY <1>6, RefuseDeployment
<1>7. ASSUME NEW w \in Worker, AdoptServices(w) PROVE CallInv' /\ HeldInv' /\ PastInv'
  BY <1>7, AdoptServicesDeployment
<1>8. ASSUME NEW w \in Worker, AdoptConfig(w) PROVE CallInv' /\ HeldInv' /\ PastInv'
  BY <1>8, AdoptConfigDeployment
<1>9. ASSUME NEW w \in Worker, Save(w) PROVE CallInv' /\ HeldInv' /\ PastInv'
  BY <1>9, SaveDeployment
<1>10. CASE Boot
  BY <1>10, BootDeployment
<1>11. CASE Stop
  BY <1>11 DEF Stop, DeploymentInv, CallInv, HeldInv, CachedInv, PastInv, NoResurrection,
               Busy, Ver, Cached, Settled, Held, process, history
<1>12. CASE Exit
  <2>1. /\ Gone /\ task' = task /\ outcome' = outcome
        /\ \A w \in Worker : task[w].phase = "idle"
    BY <1>12 DEF Exit, Free
  <2>2. /\ \A w \in Worker : task'[w].phase = "idle"
        /\ \A n \in Version : outcome'[n] = outcome[n] /\ \A w \in Worker : ~Busy(w)
    BY <2>1 DEF Busy
  <2>3. QED
    BY <2>1, <2>2, GoneDeployment
<1>13. CASE Crash
  <2>1. Gone /\ \A w \in Worker : task'[w].phase = "idle"
    BY <1>13 DEF Crash, Idle
  <2>2. \A n \in Version :
          \/ outcome'[n] = outcome[n] /\ outcome[n] # "open"
          \/ outcome[n] = "open" /\ outcome'[n] = "lost"
    BY <1>13 DEF Crash
  <2>3. QED
    BY <2>1, <2>2, GoneDeployment
<1>14. ASSUME NEW w \in Worker, Occupy(w) \/ Vacate(w)
       PROVE  CallInv' /\ HeldInv' /\ PastInv'
  BY <1>14 DEF Occupy, Vacate, DeploymentInv, CallInv, HeldInv, CachedInv, PastInv,
               NoResurrection, Busy, Ver, Cached, Settled, Held, process, history
<1>15. QED
  BY <1>1, <1>2, <1>4, <1>5, <1>6, <1>7, <1>8, <1>9, <1>10, <1>11, <1>12, <1>13, <1>14
     DEF Next, Step

LEMMA DeploymentCorrect == Spec => []DeploymentInv
<1>1. Init => DeploymentInv
  BY InitDeployment
<1>2. QED
  BY <1>1, StepDeployment, PTL DEF Spec, Safety

\* However the pushes interleave and wherever the process dies, a document whose
\* push was answered with ok=False is never cached, and is served or held only if
\* its save and the cleanup after it failed once it had been adopted: what else is
\* held came in a push that was accepted, or is in the middle of being adopted.
THEOREM RefusedNeverServedCorrect == Spec => []RefusedNeverServed
<1>1. DeploymentInv => RefusedNeverServed
  BY DEF DeploymentInv, CallInv, HeldInv, CachedInv, Cached, Settled, Held, Busy,
         RefusedNeverServed
<1>2. QED
  BY <1>1, DeploymentCorrect, PTL

\* Once a push is accepted and cached, no document that was over before it was
\* sent comes back: not in the services, not in the configuration, not in the
\* cache a restart reads.
THEOREM NoResurrectionCorrect == Spec => []NoResurrection
<1>1. DeploymentInv => NoResurrection
  BY DEF DeploymentInv, PastInv
<1>2. QED
  BY <1>1, DeploymentCorrect, PTL
=============================================================================
