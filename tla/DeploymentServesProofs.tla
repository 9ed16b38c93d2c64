------------------------ MODULE DeploymentServesProofs ------------------------
(***************************************************************************)
(* Proofs about Deployment, continued: what serves is what was asked for,  *)
(* and pushes that do not overlap agree on it, for any documents, workers  *)
(* and number of pushes.                                                   *)
(***************************************************************************)
EXTENDS DeploymentProofs, WellFoundedInduction, SequenceTheorems

-----------------------------------------------------------------------------
(* The last entry of a service.                                            *)

Below == {pair \in Nat \X Nat : pair[1] < pair[2]}

LEMMA LeastExists ==
  ASSUME NEW S \in SUBSET Nat, S # {}
  PROVE  \E i \in S : \A j \in S : i <= j
<1>1. IsWellFoundedOn(Below, Nat)
  BY NatLessThanWellFounded DEF OpToRel, Below
<1>2. PICK i \in S : \A j \in S : <<j, i>> \notin Below
  BY <1>1, WFMin
<1>3. \A j \in S : i <= j
  <2> SUFFICES ASSUME NEW j \in S PROVE i <= j
    OBVIOUS
  <2>1. i \in Nat /\ j \in Nat /\ <<j, i>> \notin Below
    BY <1>2
  <2>2. ~(j < i)
    BY <2>1 DEF Below
  <2> QED
    BY <2>1, <2>2
<1> QED
  BY <1>3

LEMMA LastExists ==
  ASSUME NEW n \in Nat, NEW S \in SUBSET (1..n), S # {}
  PROVE  \E i \in S : \A j \in S : j <= i
<1> DEFINE T == {n - i : i \in S}
<1>1. T \in SUBSET Nat /\ T # {}
  <2>1. \A i \in S : n - i \in Nat
    OBVIOUS
  <2> QED
    BY <2>1
<1>2. PICK k \in T : \A l \in T : k <= l
  <2> HIDE DEF T
  <2> QED
    BY <1>1, LeastExists
<1>3. PICK i \in S : k = n - i
  BY <1>2
<1>4. \A j \in S : n - i <= n - j
  BY <1>2, <1>3
<1>5. \A j \in S : j <= i
  <2> SUFFICES ASSUME NEW j \in S PROVE j <= i
    OBVIOUS
  <2>1. n - i <= n - j /\ i \in Nat /\ j \in Nat
    BY <1>4
  <2> QED
    BY <2>1
<1> QED
  BY <1>5

\* The entries that speak for a service.
Speaking(listed, name) == {i \in DOMAIN listed : ServiceName(listed[i]) = name}

LEMMA StandsIsLast ==
  ASSUME NEW listed \in Seq(Entry), NEW name, NEW i \in DOMAIN listed
  PROVE  Stands(listed, name, i) <=>
           i \in Speaking(listed, name) /\ \A j \in Speaking(listed, name) : j <= i
<1>1. \A j \in DOMAIN listed : (j <= i) <=> ~(j > i)
  OBVIOUS
<1> QED
  BY <1>1 DEF Stands, Speaking

LEMMA NamedIsLast ==
  ASSUME NEW listed \in Seq(Entry), NEW name \in {"chat", "agent"},
         NEW i \in DOMAIN listed, Stands(listed, name, i)
  PROVE  Named(listed, name) = [listed[i] EXCEPT !.service = name]
<1> DEFINE k == CHOOSE k \in DOMAIN listed : Stands(listed, name, k)
<1>1. k \in DOMAIN listed /\ Stands(listed, name, k)
  OBVIOUS
<1>2. Named(listed, name) = [listed[k] EXCEPT !.service = name]
  BY DEF Named, ReadRoute
<1> HIDE DEF k
<1>3. k \in Nat /\ i \in Nat
  BY <1>1
<1>4. k <= i /\ i <= k
  BY <1>1, StandsIsLast
<1>5. k = i
  BY <1>3, <1>4
<1> QED
  BY <1>2, <1>5

LEMMA NamedIsAbsent ==
  ASSUME NEW listed \in Seq(Entry), NEW name \in {"chat", "agent"}
  PROVE  Named(listed, name) = Absent <=> Speaking(listed, name) = {}
<1>1. CASE Speaking(listed, name) = {}
  <2>1. \A i \in DOMAIN listed : ~Stands(listed, name, i)
    BY <1>1 DEF Stands, Speaking
  <2> QED
    BY <1>1, <2>1 DEF Named
<1>2. CASE Speaking(listed, name) # {}
  <2>1. Len(listed) \in Nat /\ Speaking(listed, name) \in SUBSET (1..Len(listed))
    BY DEF Speaking
  <2>2. PICK i \in Speaking(listed, name) : \A j \in Speaking(listed, name) : j <= i
    BY <1>2, <2>1, LastExists
  <2>3. i \in DOMAIN listed /\ Stands(listed, name, i)
    BY <2>2, StandsIsLast DEF Speaking
  <2>4. Named(listed, name) = [listed[i] EXCEPT !.service = name]
    BY <2>3, NamedIsLast
  <2>5. listed[i] \in Entry
    BY <2>3
  <2>6. [listed[i] EXCEPT !.service = name] \in Entry
    BY <2>5 DEF Entry
  <2> QED
    BY <1>2, <2>4, <2>6, DeploymentAssumption
<1> QED
  BY <1>1, <1>2

-----------------------------------------------------------------------------
(* A document keeps its meaning on the way through the cache.              *)

\* What a configuration holds for a service goes by that service's name.
LEMMA NamedHasName ==
  ASSUME NEW listed \in Seq(Entry), NEW name \in {"chat", "agent"}, Named(listed, name) # Absent
  PROVE  Named(listed, name) \in Entry /\ Named(listed, name).service = name
<1>1. Speaking(listed, name) # {}
  BY NamedIsAbsent
<1>2. PICK i \in DOMAIN listed : Stands(listed, name, i)
  <2>1. Len(listed) \in Nat /\ Speaking(listed, name) \in SUBSET (1..Len(listed))
    BY DEF Speaking
  <2>2. PICK i \in Speaking(listed, name) : \A j \in Speaking(listed, name) : j <= i
    BY <1>1, <2>1, LastExists
  <2> QED
    BY <2>2, StandsIsLast DEF Speaking
<1>3. Named(listed, name) = [listed[i] EXCEPT !.service = name] /\ listed[i] \in Entry
  BY <1>2, NamedIsLast
<1> QED
  BY <1>3 DEF Entry

LEMMA OneEntryNamed ==
  ASSUME NEW listed \in Seq(Entry), NEW name \in {"chat", "agent"}, NEW i \in DOMAIN listed,
         listed[i].service = name,
         \A j \in DOMAIN listed \ {i} : listed[j].service \in {"chat", "agent"} \ {name}
  PROVE  Named(listed, name) = listed[i]
<1>1. Stands(listed, name, i)
  <2>1. ServiceName(listed[i]) = name
    BY DEF ServiceName
  <2>2. \A j \in DOMAIN listed \ {i} : ServiceName(listed[j]) # name
    BY DEF ServiceName
  <2>3. \A j \in DOMAIN listed : j > i => j # i
    OBVIOUS
  <2> QED
    BY <2>1, <2>2, <2>3 DEF Stands
<1>2. Named(listed, name) = [listed[i] EXCEPT !.service = name] /\ listed[i] \in Entry
  BY <1>1, NamedIsLast
<1>3. [listed[i] EXCEPT !.service = name] = listed[i]
  BY <1>2 DEF Entry
<1> QED
  BY <1>2, <1>3

LEMMA NoEntryNamed ==
  ASSUME NEW listed \in Seq(Entry), NEW name \in {"chat", "agent"},
         \A j \in DOMAIN listed : listed[j].service \in {"chat", "agent"} \ {name}
  PROVE  Named(listed, name) = Absent
<1>1. \A j \in DOMAIN listed : ServiceName(listed[j]) # name
  BY DEF ServiceName
<1> QED
  BY <1>1, NamedIsAbsent DEF Speaking

\* The two entries to_document writes are read back as they were.
LEMMA PairNamed ==
  ASSUME NEW a \in Entry \cup {Absent}, a # Absent => a.service = "chat",
         NEW b \in Entry \cup {Absent}, b # Absent => b.service = "agent"
  PROVE  Named(One(a) \o One(b), "chat") = a /\ Named(One(a) \o One(b), "agent") = b
<1>1. CASE a = Absent /\ b = Absent
  <2> DEFINE s == One(a) \o One(b)
  <2>1. s = <<>>
    BY <1>1 DEF One
  <2>2. s \in Seq(Entry) /\ DOMAIN s = {}
    BY <2>1
  <2> HIDE DEF s
  <2>3. Named(s, "chat") = Absent /\ Named(s, "agent") = Absent
    BY <2>2, NoEntryNamed
  <2> QED
    BY <1>1, <2>3 DEF s
<1>2. CASE a # Absent /\ b = Absent
  <2> DEFINE s == One(a) \o One(b)
  <2>1. s = <<a>> /\ a \in Entry
    BY <1>2 DEF One
  <2>2. s \in Seq(Entry) /\ DOMAIN s = {1} /\ s[1] = a
    BY <2>1
  <2> HIDE DEF s
  <2>3. Named(s, "chat") = s[1]
    BY <1>2, <2>2, OneEntryNamed
  <2>4. Named(s, "agent") = Absent
    BY <1>2, <2>2, NoEntryNamed
  <2> QED
    BY <1>2, <2>2, <2>3, <2>4 DEF s
<1>3. CASE a = Absent /\ b # Absent
  <2> DEFINE s == One(a) \o One(b)
  <2>1. s = <<b>> /\ b \in Entry
    BY <1>3 DEF One
  <2>2. s \in Seq(Entry) /\ DOMAIN s = {1} /\ s[1] = b
    BY <2>1
  <2> HIDE DEF s
  <2>3. Named(s, "agent") = s[1]
    BY <1>3, <2>2, OneEntryNamed
  <2>4. Named(s, "chat") = Absent
    BY <1>3, <2>2, NoEntryNamed
  <2> QED
    BY <1>3, <2>2, <2>3, <2>4 DEF s
<1>4. CASE a # Absent /\ b # Absent
  <2> DEFINE s == One(a) \o One(b)
  <2>1. One(a) = <<a>> /\ One(b) = <<b>> /\ a \in Entry /\ b \in Entry
    BY <1>4 DEF One
  <2>2. s \in Seq(Entry) /\ DOMAIN s = {1, 2} /\ s[1] = a /\ s[2] = b
    <3> DEFINE t == <<a>>
               u == <<b>>
    <3>1. /\ t \in Seq(Entry) /\ Len(t) = 1 /\ t[1] = a
          /\ u \in Seq(Entry) /\ Len(u) = 1 /\ u[1] = b
      BY <2>1
    <3>2. s = t \o u
      BY <2>1
    <3> HIDE DEF t, u, s
    <3>3. t \o u \in Seq(Entry) /\ Len(t \o u) = 2
      BY <3>1
    <3>4. (t \o u)[1] = a /\ (t \o u)[2] = b
      <4>1. \A i \in 1..(Len(t) + Len(u)) :
              (t \o u)[i] = IF i <= Len(t) THEN t[i] ELSE u[i - Len(t)]
        BY <3>1, ConcatProperties
      <4>2. /\ 1 \in 1..(Len(t) + Len(u)) /\ 1 <= Len(t)
            /\ 2 \in 1..(Len(t) + Len(u)) /\ ~(2 <= Len(t)) /\ 2 - Len(t) = 1
        BY <3>1
      <4>3. (t \o u)[1] = t[1] /\ (t \o u)[2] = u[2 - Len(t)]
        BY <4>1, <4>2, Zenon
      <4> QED
        BY <3>1, <4>2, <4>3
    <3>5. DOMAIN (t \o u) = {1, 2}
      BY <3>3
    <3> QED
      BY <3>2, <3>3, <3>4, <3>5
  <2> HIDE DEF s
  <2>3. Named(s, "chat") = s[1]
    BY <1>4, <2>2, OneEntryNamed
  <2>4. Named(s, "agent") = s[2]
    BY <1>4, <2>2, OneEntryNamed
  <2> QED
    BY <2>2, <2>3, <2>4 DEF s
<1> QED
  BY <1>1, <1>2, <1>3, <1>4

\* to_document, the file and from_document lose nothing of a configuration that
\* came from a document: the restart means what the push meant.
THEOREM CacheKeepsMeaning ==
  ASSUME NEW d \in Document
  PROVE  FromDocument(ToDocument(FromDocument(d))) = FromDocument(d)
<1> DEFINE c == FromDocument(d)
           s == One(c.chat) \o One(c.agent)
<1>1. c \in Config /\ d.body.services \in Seq(Entry)
  BY FromDocumentType, DeploymentAssumption DEF Document, BodyType
<1>2. c.chat = Named(d.body.services, "chat") /\ c.agent = Named(d.body.services, "agent")
  BY DEF FromDocument
<1>3. /\ c.chat \in Entry \cup {Absent} /\ (c.chat # Absent => c.chat.service = "chat")
      /\ c.agent \in Entry \cup {Absent} /\ (c.agent # Absent => c.agent.service = "agent")
  BY <1>1, <1>2, NamedHasName, NamedType
<1>4. Named(s, "chat") = c.chat /\ Named(s, "agent") = c.agent
  <2> HIDE DEF c
  <2> QED
    BY <1>3, PairNamed
<1>5. FromDocument(ToDocument(c)) =
        [version |-> c.version, providers |-> c.providers, chat |-> Named(s, "chat"),
         agent |-> Named(s, "agent"), airsKey |-> c.airsKey, gatewayKey |-> c.gatewayKey]
  <2> HIDE DEF c
  <2> QED
    BY DEF FromDocument, ToDocument
<1>6. c = [version |-> c.version, providers |-> c.providers, chat |-> c.chat, agent |-> c.agent,
           airsKey |-> c.airsKey, gatewayKey |-> c.gatewayKey]
  BY DEF FromDocument
<1> HIDE DEF c, s
<1>7. FromDocument(ToDocument(c)) = c
  BY <1>4, <1>5, <1>6
<1> QED
  BY <1>7 DEF c

-----------------------------------------------------------------------------
(* What is held, built or cached is what some push asked for.              *)

Asked(n) == FromDocument([version |-> n, body |-> sent[n]])
IsBuild(s, c) == \E sdk \in BOOLEAN : s = Build(c, sdk)

FaithInv ==
  /\ \A n \in Version : outcome[n] # "unsent" => sent[n] \in Body
  /\ \A w \in Worker : Busy(w) => task[w].config = Asked(Ver(w))
  /\ \A w \in Worker : task[w].phase \in {"built", "serving", "adopted"} =>
       IsBuild(task[w].built, task[w].config)
  /\ services.version \in Version \cup {0}
  /\ \A n \in Version : services.version = n =>
       outcome[n] # "unsent" /\ IsBuild(services, Asked(n))
  /\ \A n \in Version : cache # NoDocument /\ cache.version = n =>
       outcome[n] # "unsent" /\ cache = ToDocument(Asked(n))

\* What has been sent is never sent again, and never forgotten.
LEMMA SentForGood ==
  ASSUME DeploymentInv, [Next]_vars, NEW n \in Version, outcome[n] # "unsent"
  PROVE  outcome'[n] # "unsent" /\ sent'[n] = sent[n] /\ before'[n] = before[n]
<1> USE DEF DeploymentInv
<1>1. ASSUME NEW w \in Worker, NEW st \in Outcome \ {"unsent"}, Reply(w, st)
      PROVE  outcome'[n] # "unsent"
  <2>1. PICK told \in {st, "lost"} :
          outcome' = [outcome EXCEPT ![task[w].config.version] = told]
    BY <1>1 DEF Reply
  <2> QED
    BY <1>1, <2>1 DEF TypeInv, TypeOK
<1>2. ASSUME NEW w \in Worker, NEW m \in Version, NEW b \in Body, Receive(w, m, b)
      PROVE  outcome'[n] # "unsent" /\ sent'[n] = sent[n] /\ before'[n] = before[n]
  BY <1>2 DEF Receive, TypeInv, TypeOK
<1>3. ASSUME NEW w \in Worker, Refuse(w) PROVE outcome'[n] # "unsent" /\ UNCHANGED <<sent, before>>
  BY <1>1, <1>3 DEF Refuse, Outcome, history
<1>4. ASSUME NEW w \in Worker, Save(w) PROVE outcome'[n] # "unsent" /\ UNCHANGED <<sent, before>>
  BY <1>1, <1>4 DEF Save, Outcome, history
<1>5. CASE Crash
  BY <1>5 DEF Crash, Gone, history
<1>6. QED
  BY <1>2, <1>3, <1>4, <1>5
     DEF Next, Step, vars, Assemble, RejectScanner, Stamp, Construct, Built, AdoptServices,
         AdoptConfig, Boot, Stop, Exit, Gone, Occupy, Vacate, history

LEMMA AskedForGood ==
  ASSUME DeploymentInv, [Next]_vars, NEW n \in Version, outcome[n] # "unsent"
  PROVE  Asked(n)' = Asked(n) /\ outcome'[n] # "unsent"
BY SentForGood DEF Asked

LEMMA InitFaith == Init => FaithInv
<1> SUFFICES ASSUME Init PROVE FaithInv
  OBVIOUS
<1>1. services.version = 0 /\ 0 \notin Version
  BY NothingType, DeploymentAssumption DEF Init, Version
<1> QED
  BY <1>1 DEF Init, FaithInv, Busy, Idle

\* A worker's task as a step leaves it.
LEMMA TaskFaith ==
  ASSUME DeploymentInv, FaithInv, [Next]_vars
  PROVE  \A w \in Worker :
           /\ Busy(w)' => task'[w].config = Asked(Ver(w))'
           /\ task'[w].phase \in {"built", "serving", "adopted"} =>
                IsBuild(task'[w].built, task'[w].config)
<1> USE DEF DeploymentInv
<1> SUFFICES ASSUME NEW w \in Worker
             PROVE  /\ Busy(w)' => task'[w].config = Asked(Ver(w))'
                    /\ task'[w].phase \in {"built", "serving", "adopted"} =>
                         IsBuild(task'[w].built, task'[w].config)
  OBVIOUS
<1>1. Busy(w) => Ver(w) \in Version /\ outcome[Ver(w)] # "unsent" /\ task[w].config = Asked(Ver(w))
  BY DEF FaithInv, CallInv, TypeInv, PushInv, Busy, Ver
<1>2. ASSUME Busy(w), task'[w].config = task[w].config
      PROVE  task'[w].config = Asked(Ver(w))'
  <2>1. PICK n \in Version : n = Ver(w) /\ outcome[n] # "unsent" /\ task[w].config = Asked(n)
    BY <1>1, <1>2
  <2>2. Ver(w)' = n
    BY <1>2, <2>1 DEF Ver
  <2>3. Asked(n)' = Asked(n)
    BY <2>1, AskedForGood
  <2>4. Asked(Ver(w))' = Asked(n)'
    BY <2>2 DEF Asked
  <2> QED
    BY <1>2, <2>1, <2>3, <2>4
<1>3. CASE task'[w] = task[w]
  BY <1>2, <1>3 DEF FaithInv, Busy
<1>4. CASE task'[w].phase = "idle"
  BY <1>4 DEF Busy
<1>5. CASE task'[w].config = task[w].config /\ Busy(w) /\ task'[w].phase = "stamped"
  BY <1>2, <1>5
<1>6. CASE /\ task'[w].config = task[w].config /\ Busy(w)
           /\ task'[w].phase \in {"serving", "adopted"} /\ task'[w].built = task[w].built
           /\ task[w].phase \in {"built", "serving"}
  BY <1>2, <1>6 DEF FaithInv
<1>7. CASE \E sdk \in BOOLEAN : Built(w, sdk) /\ Busy(w)
  <2>1. PICK sdk \in BOOLEAN : Built(w, sdk) /\ Busy(w)
    BY <1>7
  <2>2. task'[w].config = task[w].config /\ task'[w].built = Build(task[w].config, sdk)
    BY <2>1 DEF Built, Move, TypeInv, TypeOK
  <2> QED
    BY <1>2, <2>1, <2>2 DEF IsBuild
<1>8. CASE \E n \in Version, b \in Body : Receive(w, n, b)
  <2>1. PICK n \in Version, b \in Body : Receive(w, n, b)
    BY <1>8
  <2> DEFINE c == FromDocument([version |-> n, body |-> b])
  <2>2. [version |-> n, body |-> b] \in Document
    BY DeploymentAssumption DEF Document
  <2>3. c.version = n
    BY <2>2, FromDocumentType
  <2>4. task'[w] = [phase |-> "building", config |-> c, built |-> NoServices]
    BY <2>1 DEF Receive, TypeInv, TypeOK
  <2>5. sent'[n] = b
    BY <2>1 DEF Receive, TypeInv, TypeOK
  <2>6. Asked(n)' = c
    BY <2>5 DEF Asked
  <2> HIDE DEF c
  <2>7. Ver(w)' = n
    BY <2>3, <2>4 DEF Ver
  <2>8. Asked(Ver(w))' = c
    BY <2>6, <2>7 DEF Asked
  <2> QED
    BY <2>4, <2>8
<1>9. ASSUME NEW v \in Worker, v # w, Step(v) \/ \E n \in Version, b \in Body : Receive(v, n, b)
      PROVE  task'[w] = task[w]
  BY <1>9 DEF Step, Assemble, RejectScanner, Stamp, Construct, Built, Move, Refuse, Reply,
              AdoptServices, AdoptConfig, Save, Receive, TypeInv, TypeOK
<1>10. ASSUME Step(w)
       PROVE  \/ \E sdk \in BOOLEAN : Built(w, sdk) /\ Busy(w)
              \/ task'[w].phase = "idle"
              \/ task'[w].config = task[w].config /\ Busy(w) /\ task'[w].phase = "stamped"
              \/ /\ task'[w].config = task[w].config /\ Busy(w)
                 /\ task'[w].phase \in {"serving", "adopted"} /\ task'[w].built = task[w].built
                 /\ task[w].phase \in {"built", "serving"}
  <2>1. CASE Assemble(w) \/ RejectScanner(w) \/ Construct(w)
    BY <2>1 DEF Assemble, RejectScanner, Construct, Busy
  <2>2. CASE Stamp(w)
    BY <2>2 DEF Stamp, Move, Busy, TypeInv, TypeOK
  <2>3. CASE AdoptServices(w) \/ AdoptConfig(w)
    BY <2>3 DEF AdoptServices, AdoptConfig, Move, Busy, TypeInv, TypeOK
  <2>4. CASE Refuse(w) \/ Save(w)
    BY <2>4 DEF Refuse, Save, Reply, Idle, TypeInv, TypeOK
  <2> QED
    BY <1>10, <2>1, <2>2, <2>3, <2>4 DEF Step
<1>11. CASE Crash
  BY <1>4, <1>11 DEF Crash, Idle
<1>12. CASE UNCHANGED task
  BY <1>3, <1>12
<1>13. QED
  BY <1>3, <1>4, <1>5, <1>6, <1>7, <1>8, <1>9, <1>10, <1>11, <1>12
     DEF Next, vars, Boot, Stop, Exit, Occupy, Vacate

LEMMA SentFaith ==
  ASSUME DeploymentInv, FaithInv, [Next]_vars, NEW n \in Version, outcome'[n] # "unsent"
  PROVE  sent'[n] \in Body
<1> USE DEF DeploymentInv
<1>1. CASE outcome[n] # "unsent"
  BY <1>1, SentForGood DEF FaithInv
<1>2. CASE outcome[n] = "unsent"
  <2>1. ASSUME NEW w \in Worker, NEW st, Reply(w, st), Busy(w) PROVE FALSE
    <3>1. outcome[Ver(w)] = "open"
      BY <2>1 DEF CallInv
    <3>2. PICK told : outcome' = [outcome EXCEPT ![Ver(w)] = told]
      BY <2>1 DEF Reply, Ver
    <3>3. outcome'[n] = outcome[n]
      BY <1>2, <3>1, <3>2 DEF TypeInv, TypeOK
    <3> QED
      BY <1>2, <3>3
  <2>2. PICK w \in Worker, m \in Version, b \in Body : Receive(w, m, b)
    BY <1>2, <2>1
       DEF Next, Step, vars, Assemble, RejectScanner, Stamp, Construct, Built, AdoptServices,
           AdoptConfig, Refuse, Save, Busy, Boot, Stop, Exit, Crash, Occupy, Vacate, history
  <2> QED
    BY <1>2, <2>2 DEF Receive, TypeInv, TypeOK
<1> QED
  BY <1>1, <1>2

\* A step takes the services from the worker that built them, from the cache, or
\* leaves them.
LEMMA ServicesStep ==
  ASSUME DeploymentInv, [Next]_vars
  PROVE  \/ services' = services
         \/ services'.version = 0
         \/ \E w \in Worker : task[w].phase = "built" /\ services' = task[w].built
         \/ \E n \in Version, sdk \in BOOLEAN :
              /\ cache # NoDocument /\ cache.version = n
              /\ services' = Build(FromDocument(cache), sdk)
<1> USE DEF DeploymentInv
<1>1. CASE Boot
  <2>1. PICK c \in {NoConfig} \cup (IF cache = NoDocument THEN {} ELSE {FromDocument(cache)}),
             sdk \in BOOLEAN : services' = Build(c, sdk)
    BY <1>1 DEF Boot
  <2>2. CASE c = NoConfig
    <3>1. services'.version = 0
      BY <2>1, <2>2, NoConfigType, BuildType
    <3> QED
      BY <3>1
  <2>3. CASE cache # NoDocument /\ c = FromDocument(cache)
    <3>1. cache.version \in Version
      BY <2>3 DEF TypeInv, TypeOK, Document
    <3> QED
      BY <2>1, <2>3, <3>1
  <2> QED
    BY <2>1, <2>2, <2>3
<1>2. CASE Exit \/ Crash
  BY <1>2, NothingType DEF Exit, Crash, Gone
<1>3. CASE \E w \in Worker : AdoptServices(w)
  BY <1>3 DEF AdoptServices
<1> QED
  BY <1>1, <1>2, <1>3
     DEF Next, Step, vars, Assemble, RejectScanner, Stamp, Construct, Built, AdoptConfig,
         Refuse, Save, Receive, Stop, Occupy, Vacate, process

LEMMA ServicesFaith ==
  ASSUME DeploymentInv, FaithInv, [Next]_vars
  PROVE  /\ services'.version \in Version \cup {0}
         /\ \A n \in Version : services'.version = n =>
              outcome'[n] # "unsent" /\ IsBuild(services', Asked(n)')
<1> USE DEF DeploymentInv
<1>1. 0 \notin Version
  BY DeploymentAssumption DEF Version
<1>2. CASE services' = services
  BY <1>2, AskedForGood DEF FaithInv
<1>3. CASE services'.version = 0
  BY <1>1, <1>3
<1>4. ASSUME NEW w \in Worker, task[w].phase = "built", services' = task[w].built
      PROVE  /\ services'.version \in Version
             /\ \A n \in Version : services'.version = n =>
                  outcome'[n] # "unsent" /\ IsBuild(services', Asked(n)')
  <2>1. services'.version = Ver(w) /\ Ver(w) \in Version /\ outcome[Ver(w)] = "open"
    BY <1>4 DEF CallInv, TypeInv, PushInv, Busy, Ver
  <2>2. PICK n \in Version : n = Ver(w)
    BY <2>1
  <2>3. IsBuild(services', Asked(n))
    BY <1>4, <2>2 DEF FaithInv, Busy
  <2>4. Asked(n)' = Asked(n) /\ outcome'[n] # "unsent"
    BY <2>1, <2>2, AskedForGood
  <2> QED
    BY <2>1, <2>2, <2>3, <2>4
<1>5. ASSUME NEW n \in Version, NEW sdk \in BOOLEAN, cache # NoDocument, cache.version = n,
             services' = Build(FromDocument(cache), sdk)
      PROVE  /\ services'.version = n
             /\ outcome'[n] # "unsent" /\ IsBuild(services', Asked(n)')
  <2>1. sent[n] \in Body /\ outcome[n] # "unsent" /\ cache = ToDocument(Asked(n))
    BY <1>5 DEF FaithInv
  <2>2. [version |-> n, body |-> sent[n]] \in Document
    BY <2>1, DeploymentAssumption DEF Document
  <2>3. FromDocument(cache) = Asked(n)
    BY <2>1, <2>2, CacheKeepsMeaning DEF Asked
  <2>4. Asked(n) \in Config /\ Asked(n).version = n
    BY <2>2, FromDocumentType DEF Asked
  <2>5. services'.version = n
    BY <1>5, <2>3, <2>4, BuildType
  <2>6. Asked(n)' = Asked(n) /\ outcome'[n] # "unsent"
    BY <2>1, AskedForGood
  <2> QED
    BY <1>5, <2>3, <2>5, <2>6 DEF IsBuild
<1> QED
  BY <1>2, <1>3, <1>4, <1>5, ServicesStep

LEMMA CacheFaith ==
  ASSUME DeploymentInv, FaithInv, [Next]_vars
  PROVE  \A n \in Version : cache' # NoDocument /\ cache'.version = n =>
           outcome'[n] # "unsent" /\ cache' = ToDocument(Asked(n)')
<1> USE DEF DeploymentInv
<1>1. CASE cache' = cache
  BY <1>1, AskedForGood DEF FaithInv
<1>2. ASSUME NEW w \in Worker, Save(w), cache' = NewFile(w)
      PROVE  \A n \in Version : cache'.version = n =>
               outcome'[n] # "unsent" /\ cache' = ToDocument(Asked(n)')
  <2>1. Busy(w) /\ Ver(w) \in Version /\ outcome[Ver(w)] = "open" /\ task[w].config \in Config
    BY <1>2 DEF Save, CallInv, TypeInv, TypeOK, PushInv, Busy, Ver, Task
  <2>2. PICK n \in Version : n = Ver(w)
    BY <2>1
  <2>3. cache'.version = n
    BY <1>2, <2>1, <2>2, ToDocumentType DEF NewFile, Ver
  <2>4. cache' = ToDocument(Asked(n))
    BY <1>2, <2>1, <2>2 DEF NewFile, FaithInv
  <2>5. Asked(n)' = Asked(n) /\ outcome'[n] # "unsent"
    BY <2>1, <2>2, AskedForGood
  <2> QED
    BY <2>3, <2>4, <2>5
<1> QED
  BY <1>1, <1>2
     DEF Next, Step, vars, Assemble, RejectScanner, Stamp, Construct, Built, AdoptServices,
         AdoptConfig, Refuse, Save, Receive, Boot, Stop, Exit, Crash, Gone, Occupy, Vacate

LEMMA StepFaith == DeploymentInv /\ FaithInv /\ [Next]_vars => FaithInv'
<1> SUFFICES ASSUME DeploymentInv, FaithInv, [Next]_vars PROVE FaithInv'
  OBVIOUS
<1>1. \A n \in Version : outcome'[n] # "unsent" => sent'[n] \in Body
  BY SentFaith
<1>2. \A w \in Worker :
        /\ Busy(w)' => task'[w].config = Asked(Ver(w))'
        /\ task'[w].phase \in {"built", "serving", "adopted"} =>
             IsBuild(task'[w].built, task'[w].config)
  BY TaskFaith
<1>3. /\ services'.version \in Version \cup {0}
      /\ \A n \in Version : services'.version = n =>
           outcome'[n] # "unsent" /\ IsBuild(services', Asked(n)')
  BY ServicesFaith
<1>4. \A n \in Version : cache' # NoDocument /\ cache'.version = n =>
        outcome'[n] # "unsent" /\ cache' = ToDocument(Asked(n)')
  BY CacheFaith
<1> QED
  BY <1>1, <1>2, <1>3, <1>4 DEF FaithInv

LEMMA FaithCorrect == Spec => [](DeploymentInv /\ FaithInv)
<1>1. Init => DeploymentInv /\ FaithInv
  BY InitDeployment, InitFaith
<1>2. (DeploymentInv /\ FaithInv) /\ [Next]_vars => (DeploymentInv /\ FaithInv)'
  BY StepDeployment, StepFaith
<1>3. QED
  BY <1>1, <1>2, PTL DEF Spec, Safety

-----------------------------------------------------------------------------
(* What serves is what was asked for.                                      *)

LEMMA ChatEntriesSpeak ==
  ASSUME NEW b \in BodyType
  PROVE  ChatEntries(b) = Speaking(b.services, "chat")
<1>1. b.services \in Seq(Entry)
  BY DEF BodyType
<1>2. \A i \in DOMAIN b.services :
        ServiceName(b.services[i]) = "chat" <=> b.services[i].service \in {"chat", ""}
  BY DEF ServiceName
<1> QED
  BY <1>2 DEF ChatEntries, Speaking

LEMMA LastChatIsNamed ==
  ASSUME NEW b \in BodyType, ChatEntries(b) # {}
  PROVE  LastChat(b) \in Entry /\ Named(b.services, "chat") = [LastChat(b) EXCEPT !.service = "chat"]
<1> DEFINE k == CHOOSE i \in ChatEntries(b) : \A j \in ChatEntries(b) : j <= i
<1>1. b.services \in Seq(Entry) /\ Len(b.services) \in Nat
  BY DEF BodyType
<1>2. ChatEntries(b) \in SUBSET (1..Len(b.services))
  <2>1. DOMAIN b.services = 1..Len(b.services)
    BY <1>1
  <2> QED
    BY <2>1 DEF ChatEntries
<1>3. k \in ChatEntries(b) /\ \A j \in ChatEntries(b) : j <= k
  BY <1>1, <1>2, LastExists
<1>4. LastChat(b) = b.services[k]
  BY DEF LastChat
<1> HIDE DEF k
<1>5. k \in DOMAIN b.services /\ Stands(b.services, "chat", k)
  BY <1>1, <1>2, <1>3, ChatEntriesSpeak, StandsIsLast
<1>6. Named(b.services, "chat") = [b.services[k] EXCEPT !.service = "chat"]
  BY <1>1, <1>5, NamedIsLast
<1> QED
  BY <1>1, <1>4, <1>5, <1>6

\* The chat entry of a configuration, field by field as it was pushed.
LEMMA EntryIsKept ==
  ASSUME NEW e \in Entry, NEW c, c.chat = [e EXCEPT !.service = "chat"]
  PROVE  /\ c.chat.transport = e.transport /\ c.chat.guardrail = e.guardrail
         /\ c.chat.points = e.points /\ c.chat.profile = e.profile
BY DEF Entry

LEMMA BuildServes ==
  ASSUME NEW n \in Version, NEW b \in Body, NEW c, c = FromDocument([version |-> n, body |-> b]),
         NEW sdk \in BOOLEAN, NEW s, s = Build(c, sdk), s.chat # "failed"
  PROVE  /\ s.chat = "absent" <=> ChatEntries(b) = {}
         /\ s.chat = "ready" =>
              LET e == LastChat(b) IN
              /\ e.guardrail \in Guardrails /\ s.engine.transport = e.transport
              /\ s.engine.inspects <=> e.guardrail = "api_application"
              /\ s.engine.inspects => /\ b.airsKey # NoKey /\ e.profile
                                      /\ s.engine.points = e.points \cap ChatPoints
              /\ s.engine.transport = "direct" =>
                   \A pm \in s.engine.models : pm[1] \in s.engine.endpoints
<1>1. b \in BodyType /\ b.services \in Seq(Entry)
  BY DeploymentAssumption DEF BodyType
<1>2. c.chat = Named(b.services, "chat") /\ c.airsKey = b.airsKey /\ c.providers = b.providers
  BY DEF FromDocument
<1>3. c.chat = Absent <=> ChatEntries(b) = {}
  BY <1>1, <1>2, NamedIsAbsent, ChatEntriesSpeak
<1>4. s.chat = "absent" <=> c.chat = Absent
  BY DEF Build
<1>5. ASSUME s.chat = "ready"
      PROVE  LET e == LastChat(b) IN
              /\ e.guardrail \in Guardrails /\ s.engine.transport = e.transport
              /\ s.engine.inspects <=> e.guardrail = "api_application"
              /\ s.engine.inspects => /\ b.airsKey # NoKey /\ e.profile
                                      /\ s.engine.points = e.points \cap ChatPoints
              /\ s.engine.transport = "direct" =>
                   \A pm \in s.engine.models : pm[1] \in s.engine.endpoints
  <2> DEFINE e == LastChat(b)
  <2>1. c.chat # Absent /\ Buildable(c, sdk) /\ s.engine = ChatEngine(c)
    BY <1>5 DEF Build
  <2>2. e \in Entry /\ c.chat = [e EXCEPT !.service = "chat"]
    BY <1>1, <1>2, <1>3, <2>1, LastChatIsNamed
  <2> HIDE DEF e
  <2>3. /\ c.chat.transport = e.transport /\ c.chat.guardrail = e.guardrail
        /\ c.chat.points = e.points /\ c.chat.profile = e.profile
    BY <2>2, EntryIsKept
  <2>4. e.guardrail \in Guardrails /\ s.engine.transport = e.transport
    BY <2>1, <2>3 DEF Buildable, ReachesClient, Guardrails, ChatEngine
  <2>5. s.engine.inspects <=> e.guardrail = "api_application"
    <3>1. ChatEngine(c).inspects = (c.chat.guardrail = "api_application")
      BY DEF ChatEngine
    <3> QED
      BY <2>1, <2>3, <3>1
  <2>6. ASSUME e.guardrail = "api_application"
        PROVE  /\ b.airsKey # NoKey /\ e.profile
               /\ s.engine.points = e.points \cap ChatPoints
    <3>1. ReachesClient(c)
      BY <2>1, <2>3, <2>6 DEF Buildable
    <3>2. s.engine.points = ActivePoints(c.chat)
      BY <2>1 DEF ChatEngine
    <3> QED
      BY <1>2, <2>3, <2>6, <3>1, <3>2 DEF ReachesClient, ActivePoints
  <2>7. ASSUME s.engine.transport = "direct"
        PROVE  \A pm \in s.engine.models : pm[1] \in s.engine.endpoints
    <3>1. /\ s.engine.models = QualifiedModels(c)
          /\ s.engine.endpoints = c.providers \cap KnownVendor
      BY <2>1, <2>7 DEF ChatEngine
    <3> QED
      BY <3>1 DEF QualifiedModels
  <2>8. QED
    BY <2>4, <2>5, <2>6, <2>7 DEF e
<1> QED
  BY <1>3, <1>4, <1>5

\* What serves is the service its document named, entry, key and checkpoints,
\* for any documents, through any overlap, refusal, crash and restart.
THEOREM ServesWhatItNamedCorrect == Spec => []ServesWhatItNamed
<1>1. DeploymentInv /\ FaithInv => ServesWhatItNamed
  <2> SUFFICES ASSUME DeploymentInv, FaithInv, services.version # 0, services.chat # "failed"
               PROVE  ServesWhatItNamed
    BY DEF ServesWhatItNamed
  <2>1. PICK n \in Version : services.version = n
    BY DEF FaithInv
  <2>2. sent[n] \in Body /\ IsBuild(services, Asked(n))
    BY <2>1 DEF FaithInv
  <2>3. PICK sdk \in BOOLEAN : services = Build(Asked(n), sdk)
    BY <2>2 DEF IsBuild
  <2> DEFINE b == sent[n]
             c == Asked(n)
  <2>4. c = FromDocument([version |-> n, body |-> b])
    BY DEF Asked
  <2> HIDE DEF c
  <2>5. /\ services.chat = "absent" <=> ChatEntries(b) = {}
        /\ services.chat = "ready" =>
              LET e == LastChat(b) IN
              /\ e.guardrail \in Guardrails /\ services.engine.transport = e.transport
              /\ services.engine.inspects <=> e.guardrail = "api_application"
              /\ services.engine.inspects => /\ b.airsKey # NoKey /\ e.profile
                                             /\ services.engine.points = e.points \cap ChatPoints
              /\ services.engine.transport = "direct" =>
                   \A pm \in services.engine.models : pm[1] \in services.engine.endpoints
    <3>1. services = Build(c, sdk) /\ b \in Body
      BY <2>2, <2>3 DEF c
    <3> HIDE DEF b
    <3> QED
      BY <2>4, <3>1, BuildServes
  <2> QED
    BY <2>1, <2>5 DEF ServesWhatItNamed
<1>2. QED
  BY <1>1, FaithCorrect, PTL

-----------------------------------------------------------------------------
(* Pushes that do not overlap.                                             *)

Adopting(w) == task[w].phase \in {"serving", "adopted"}
Newest(n) == \A m \in Version : m > n => outcome[m] = "unsent"
Scans(s) == s.chat = "ready" /\ s.engine.inspects

\* Where no push is halfway in, the three copies are one document; where one is,
\* what it has replaced is its own.
AgreeInv ==
  /\ (\A w \in Worker : ~Adopting(w)) => Agreed
  /\ \A w \in Worker : Adopting(w) => services = task[w].built
  /\ \A w \in Worker : task[w].phase = "adopted" => config.version = Ver(w)

\* The key on the client is that of the build under way, or of the newest push.
KeyInv ==
  /\ \A w \in Worker : task[w].phase = "stamped" => liveKey = task[w].config.airsKey
  /\ \A w \in Worker : task[w].phase \in {"built", "serving", "adopted"} /\ Scans(task[w].built) =>
       liveKey = task[w].config.airsKey
  /\ \A n \in Version : outcome[n] = "ok" /\ Newest(n) /\ services.version = n /\ Scans(services) =>
       liveKey = sent[n].airsKey

SeqInv == Sequential => AgreeInv /\ KeyInv

LEMMA SequentialBefore ==
  ASSUME DeploymentInv, [Next]_vars
  PROVE  /\ Sequential' => Sequential
         /\ \A n \in Version : Newest(n)' => Newest(n)
BY SentForGood DEF Sequential, Newest

\* One call at a time, and after the newest one none.
LEMMA OneAtATime ==
  ASSUME DeploymentInv, Sequential, NEW w \in Worker, Busy(w)
  PROVE  /\ \A v \in Worker \ {w} : ~Busy(v)
         /\ \A n \in Version : ~(outcome[n] = "ok" /\ Newest(n))
<1> USE DEF DeploymentInv
<1>1. \A v \in Worker : Busy(v) => Ver(v) \in Version /\ outcome[Ver(v)] = "open"
  BY DEF CallInv, TypeInv, PushInv, Busy, Ver
<1>2. \A n \in Version : n \in Nat
  BY DEF Version
<1>3. ASSUME NEW m \in Version, NEW n \in Version, outcome[m] = "open", outcome[n] # "unsent"
      PROVE  ~(m < n)
  <2>1. outcome[m] \notin Over
    BY <1>3 DEF Over
  <2>2. before[n] = {k \in Version : k < n}
    BY <1>3 DEF Sequential
  <2>3. m \notin before[n]
    BY <2>1 DEF PastInv
  <2> QED
    BY <2>2, <2>3
<1>4. \A v \in Worker \ {w} : ~Busy(v)
  <2> SUFFICES ASSUME NEW v \in Worker \ {w}, Busy(v) PROVE FALSE
    OBVIOUS
  <2>1. ~(Ver(v) < Ver(w)) /\ ~(Ver(w) < Ver(v))
    BY <1>1, <1>3
  <2>2. Ver(v) = Ver(w)
    BY <1>1, <1>2, <2>1
  <2> QED
    BY <2>2 DEF CallInv
<1>5. \A n \in Version : ~(outcome[n] = "ok" /\ Newest(n))
  <2> SUFFICES ASSUME NEW n \in Version, outcome[n] = "ok", Newest(n) PROVE FALSE
    OBVIOUS
  <2>1. ~(Ver(w) > n)
    BY <1>1 DEF Newest
  <2>2. ~(Ver(w) < n)
    BY <1>1, <1>3
  <2>3. Ver(w) # n
    BY <1>1
  <2> QED
    BY <1>1, <1>2, <2>1, <2>2, <2>3
<1> QED
  BY <1>4, <1>5

\* A build that scans is one that reached the client and was let.
LEMMA ScanningBuild ==
  ASSUME NEW c, NEW sdk \in BOOLEAN, Scans(Build(c, sdk))
  PROVE  ReachesClient(c) /\ sdk
<1>1. c.chat # Absent /\ Buildable(c, sdk)
  BY DEF Scans, Build
<1>2. Build(c, sdk).engine = ChatEngine(c)
  BY <1>1 DEF Build
<1>3. ChatEngine(c).inspects = (c.chat.guardrail = "api_application")
  BY DEF ChatEngine
<1>4. c.chat.guardrail = "api_application"
  BY <1>2, <1>3 DEF Scans
<1> QED
  BY <1>1, <1>4 DEF Buildable

LEMMA InitSeq == Init => SeqInv
<1> SUFFICES ASSUME Init PROVE AgreeInv /\ KeyInv
  BY DEF SeqInv
<1>1. services.version = 0 /\ config.version = 0 /\ 0 \notin Version
  BY NothingType, NoConfigType, DeploymentAssumption DEF Init, Version
<1>2. \A w \in Worker : task[w].phase = "idle"
  BY DEF Init, Idle
<1> QED
  BY <1>1, <1>2 DEF AgreeInv, KeyInv, Agreed, Adopting

\* A worker's own step, while it is the only one in a call.
LEMMA MoveSeq ==
  ASSUME DeploymentInv, Sequential, AgreeInv, KeyInv, NEW w \in Worker,
         task[w].phase \in {"building", "stamped"},
         NEW ph \in {"stamped", "built"}, NEW s, Move(w, ph, s),
         ph = "stamped" => liveKey' = task[w].config.airsKey,
         ph = "built" /\ Scans(s) => liveKey' = task[w].config.airsKey,
         UNCHANGED <<services, config, cache, outcome, unsaved>>
  PROVE  AgreeInv' /\ KeyInv'
<1> USE DEF DeploymentInv
<1>1. Busy(w) /\ ~Adopting(w)
  BY DEF Busy, Adopting
<1>2. \A v \in Worker \ {w} : task[v].phase = "idle"
  BY <1>1, OneAtATime DEF Busy
<1>3. /\ task'[w].phase = ph /\ task'[w].config = task[w].config /\ task'[w].built = s
      /\ \A v \in Worker \ {w} : task'[v].phase = "idle"
  BY <1>2 DEF Move, TypeInv, TypeOK
<1>4. \A n \in Version : outcome'[n] = outcome[n] /\ (Newest(n)' <=> Newest(n))
  BY DEF Newest
<1>5. AgreeInv'
  BY <1>1, <1>2, <1>3 DEF AgreeInv, Agreed, Adopting
<1>6. KeyInv'
  BY <1>1, <1>3, <1>4, OneAtATime DEF KeyInv, Scans
<1> QED
  BY <1>5, <1>6

LEMMA BuiltSeq ==
  ASSUME DeploymentInv, Sequential, AgreeInv, KeyInv, NEW w \in Worker,
         Assemble(w) \/ RejectScanner(w) \/ Construct(w)
  PROVE  AgreeInv' /\ KeyInv'
<1>1. PICK sdk \in BOOLEAN : Built(w, sdk) /\ (Assemble(w) \/ RejectScanner(w) \/ Construct(w))
                             /\ (Assemble(w) => sdk) /\ (RejectScanner(w) => ~sdk)
  BY DEF Assemble, RejectScanner, Construct
<1>2. liveKey' = liveKey /\ task[w].phase \in {"building", "stamped"}
  BY DEF Assemble, RejectScanner, Construct
<1> DEFINE s == Build(task[w].config, sdk)
<1>3. ASSUME Scans(s) PROVE liveKey' = task[w].config.airsKey
  <2>1. ReachesClient(task[w].config) /\ sdk
    BY <1>3, ScanningBuild
  <2>2. ~RejectScanner(w)
    BY <1>1, <2>1
  <2>3. Construct(w)
    BY <1>1, <2>1, <2>2 DEF Assemble
  <2> QED
    BY <1>2, <2>3 DEF Construct, KeyInv
<1>4. Move(w, "built", s)
  BY <1>1 DEF Built
<1>5. UNCHANGED <<services, config, cache, outcome, unsaved>>
  BY <1>1 DEF Built
<1> HIDE DEF s
<1> QED
  BY <1>2, <1>3, <1>4, <1>5, MoveSeq

LEMMA StampSeq ==
  ASSUME DeploymentInv, Sequential, AgreeInv, KeyInv, NEW w \in Worker, Stamp(w)
  PROVE  AgreeInv' /\ KeyInv'
<1>1. /\ task[w].phase \in {"building", "stamped"} /\ Move(w, "stamped", task[w].built)
      /\ liveKey' = task[w].config.airsKey
      /\ UNCHANGED <<services, config, cache, outcome, unsaved>>
  BY DEF Stamp, StampedKey
<1> QED
  BY <1>1, MoveSeq

\* The worker that adopts is the only one in a call.
LEMMA AdoptSeq ==
  ASSUME DeploymentInv, Sequential, AgreeInv, KeyInv, NEW w \in Worker,
         AdoptServices(w) \/ AdoptConfig(w)
  PROVE  AgreeInv' /\ KeyInv'
<1> USE DEF DeploymentInv
<1>1. Busy(w) /\ task[w].phase \in {"built", "serving", "adopted"} /\ Ver(w) \in Version
  BY DEF AdoptServices, AdoptConfig, Busy, Ver, TypeInv, PushInv
<1>2. \A v \in Worker \ {w} : task[v].phase = "idle"
  BY <1>1, OneAtATime DEF Busy
<1>3. /\ task'[w].phase \in {"serving", "adopted"}
      /\ task'[w].config = task[w].config /\ task'[w].built = task[w].built
      /\ \A v \in Worker \ {w} : task'[v].phase = "idle"
      /\ liveKey' = liveKey /\ outcome' = outcome /\ sent' = sent
  BY <1>2 DEF AdoptServices, AdoptConfig, Move, TypeInv, TypeOK
<1>4. services' = task[w].built
  BY DEF AdoptServices, AdoptConfig, AgreeInv, Adopting
<1>5. task'[w].phase = "adopted" => config' = task[w].config
  BY DEF AdoptServices, AdoptConfig, Move, TypeInv, TypeOK
<1>6. Ver(w)' = Ver(w) /\ Adopting(w)' /\ \A v \in Worker \ {w} : ~Adopting(v)'
  BY <1>3 DEF Ver, Adopting
<1>7. AgreeInv'
  BY <1>3, <1>4, <1>5, <1>6 DEF AgreeInv, Adopting, Ver
<1>8. \A n \in Version : ~(outcome'[n] = "ok" /\ Newest(n)')
  BY <1>1, <1>3, OneAtATime DEF Newest
<1>9. KeyInv'
  BY <1>1, <1>3, <1>8 DEF KeyInv
<1> QED
  BY <1>7, <1>9

LEMMA ReplySeq ==
  ASSUME DeploymentInv, FaithInv, Sequential, AgreeInv, KeyInv, NEW w \in Worker,
         Refuse(w) \/ Save(w)
  PROVE  AgreeInv' /\ KeyInv'
<1> USE DEF DeploymentInv
<1> DEFINE r == Ver(w)
<1>1. PICK st \in {"ok", "refused"} :
        Reply(w, st) /\ (st = "ok" => Save(w))
  BY DEF Refuse, Save
<1>2. Busy(w) /\ st \in Over
  BY <1>1 DEF Refuse, Save, Busy, Over
<1>3. \A v \in Worker : task'[v].phase = "idle"
  BY <1>1, <1>2, OneAtATime, ReplyFacts DEF Busy
<1>4. /\ r \in Version /\ outcome'[r] \in {st, "lost"}
      /\ \A n \in Version \ {r} : outcome'[n] = outcome[n]
  BY <1>1, <1>2, ReplyFacts
<1>5. services' = services /\ config' = config /\ liveKey' = liveKey /\ sent' = sent
  BY DEF Refuse, Save, process, history
<1>6. Agreed'
  <2>1. CASE Refuse(w)
    <3>1. \A v \in Worker : ~Adopting(v)
      BY <1>2, <2>1, OneAtATime DEF Refuse, Busy, Adopting
    <3>2. Agreed
      BY <3>1 DEF AgreeInv
    <3> QED
      BY <1>5, <2>1, <3>2 DEF Agreed, Refuse
  <2>2. CASE Save(w)
    <3>1. /\ task[w].phase = "adopted" /\ services = task[w].built /\ config.version = r
          /\ services.version = r
      BY <2>2 DEF Save, AgreeInv, Adopting, CallInv
    <3>2. task[w].config \in Config /\ r \in Version
      BY <1>4 DEF TypeInv, TypeOK, Task
    <3>3. NewFile(w) # NoDocument /\ NewFile(w).version = r
      BY <3>2, ToDocumentType, DeploymentAssumption DEF NewFile, Ver
    <3>4. cache' = NewFile(w) \/ r \in unsaved'
      BY <2>2 DEF Save, Ver
    <3> HIDE DEF r
    <3> QED
      BY <1>5, <3>1, <3>3, <3>4 DEF Agreed
  <2> QED
    BY <2>1, <2>2
<1>7. AgreeInv'
  BY <1>3, <1>6 DEF AgreeInv, Adopting
<1>8. ASSUME NEW n \in Version, outcome'[n] = "ok", Newest(n)', services'.version = n, Scans(services')
      PROVE  liveKey' = sent'[n].airsKey
  <2>1. n = r
    <3>1. CASE n # r
      <4>1. outcome[n] = "ok"
        BY <1>4, <1>8, <3>1
      <4>2. Newest(n)
        <5> SUFFICES ASSUME NEW m \in Version, m > n PROVE outcome[m] = "unsent"
          BY DEF Newest
        <5>1. outcome'[m] = "unsent"
          BY <1>8 DEF Newest
        <5>2. m # r
          BY <1>4, <5>1
        <5> QED
          BY <1>4, <5>1, <5>2
      <4> QED
        BY <1>2, <4>1, <4>2, OneAtATime
    <3> QED
      BY <3>1
  <2>2. st = "ok" /\ task[w].phase = "adopted" /\ services = task[w].built
    BY <1>1, <1>4, <1>8, <2>1 DEF Save, AgreeInv, Adopting
  <2>3. liveKey = task[w].config.airsKey
    BY <1>5, <1>8, <2>2 DEF KeyInv
  <2>4. task[w].config = Asked(n)
    BY <1>2, <2>1 DEF FaithInv
  <2>5. Asked(n).airsKey = sent[n].airsKey
    BY DEF Asked, FromDocument
  <2> QED
    BY <1>5, <2>3, <2>4, <2>5
<1>9. KeyInv'
  BY <1>3, <1>8 DEF KeyInv
<1> QED
  BY <1>7, <1>9

LEMMA ReceiveSeq ==
  ASSUME DeploymentInv, FaithInv, AgreeInv, KeyInv, [Next]_vars,
         NEW w \in Worker, NEW n \in Version, NEW b \in Body, Receive(w, n, b)
  PROVE  AgreeInv' /\ KeyInv'
<1> USE DEF DeploymentInv
<1>1. /\ task[w].phase = "idle" /\ task'[w].phase = "building"
      /\ \A v \in Worker \ {w} : task'[v] = task[v]
      /\ UNCHANGED <<services, config, liveKey, cache, unsaved>>
      /\ outcome'[n] = "open"
      /\ \A m \in Version \ {n} : outcome'[m] = outcome[m]
  BY DEF Receive, Free, TypeInv, TypeOK, process
<1>2. AgreeInv'
  BY <1>1 DEF AgreeInv, Agreed, Adopting, Ver
<1>3. ASSUME NEW m \in Version, outcome'[m] = "ok", Newest(m)'
      PROVE  outcome[m] = "ok" /\ Newest(m) /\ sent'[m] = sent[m]
  BY <1>1, <1>3, SequentialBefore, SentForGood
<1>4. KeyInv'
  BY <1>1, <1>3 DEF KeyInv
<1> QED
  BY <1>2, <1>4

LEMMA BootSeq ==
  ASSUME DeploymentInv, FaithInv, Boot
  PROVE  AgreeInv' /\ KeyInv'
<1> USE DEF DeploymentInv
<1>1. PICK c \in {NoConfig} \cup (IF cache = NoDocument THEN {} ELSE {FromDocument(cache)}),
           sdk \in BOOLEAN :
        /\ config' = c
        /\ services' = Build(c, sdk)
        /\ IF ~ReachesClient(c) THEN liveKey' = NoKey
           ELSE liveKey' \in (IF sdk THEN {c.airsKey} ELSE {c.airsKey, NoKey})
  BY DEF Boot
<1>2. /\ \A w \in Worker : task'[w].phase = "idle"
      /\ UNCHANGED <<cache, unsaved, outcome, sent>>
  BY DEF Boot, CallInv, Busy, history
<1>3. c \in Config /\ (c.version = 0 \/ (cache # NoDocument /\ c.version = cache.version
                                                         /\ c = FromDocument(cache)))
  <2>1. CASE c = NoConfig
    BY <2>1, NoConfigType
  <2>2. CASE cache # NoDocument /\ c = FromDocument(cache)
    BY <2>2, FromDocumentType DEF TypeInv, TypeOK
  <2> QED
    BY <1>1, <2>1, <2>2
<1>4. services'.version = c.version /\ config'.version = c.version
  BY <1>1, <1>3, BuildType
<1>5. 0 \notin Version
  BY DeploymentAssumption DEF Version
<1>6. AgreeInv'
  BY <1>2, <1>3, <1>4, <1>5 DEF AgreeInv, Agreed, Adopting
<1>7. ASSUME NEW n \in Version, services'.version = n, Scans(services')
      PROVE  liveKey' = sent'[n].airsKey
  <2>1. cache # NoDocument /\ cache.version = n /\ c = FromDocument(cache)
    BY <1>3, <1>4, <1>5, <1>7
  <2>2. sent[n] \in Body /\ cache = ToDocument(Asked(n))
    BY <2>1 DEF FaithInv
  <2>3. [version |-> n, body |-> sent[n]] \in Document
    BY <2>2, DeploymentAssumption DEF Document
  <2>4. c = Asked(n)
    BY <2>1, <2>2, <2>3, CacheKeepsMeaning DEF Asked
  <2>5. ReachesClient(c) /\ sdk
    BY <1>1, <1>7, ScanningBuild
  <2>6. liveKey' = c.airsKey
    BY <1>1, <2>5
  <2>7. Asked(n).airsKey = sent[n].airsKey
    BY DEF Asked, FromDocument
  <2> QED
    BY <1>2, <2>4, <2>6, <2>7
<1>8. KeyInv'
  BY <1>2, <1>7 DEF KeyInv
<1> QED
  BY <1>6, <1>8

LEMMA GoneSeq ==
  ASSUME Gone, \A w \in Worker : task'[w].phase = "idle"
  PROVE  AgreeInv' /\ KeyInv'
<1>1. services'.version = 0 /\ config'.version = 0 /\ 0 \notin Version
  BY NothingType, NoConfigType, DeploymentAssumption DEF Gone, Version
<1> QED
  BY <1>1 DEF AgreeInv, KeyInv, Agreed, Adopting

LEMMA StepSeq == DeploymentInv /\ FaithInv /\ SeqInv /\ [Next]_vars => SeqInv'
<1> SUFFICES ASSUME DeploymentInv, FaithInv, SeqInv, [Next]_vars, Sequential'
             PROVE  AgreeInv' /\ KeyInv'
  BY DEF SeqInv
<1>1. Sequential /\ AgreeInv /\ KeyInv
  BY SequentialBefore DEF SeqInv
<1>2. ASSUME NEW w \in Worker, Step(w) PROVE AgreeInv' /\ KeyInv'
  <2>1. CASE Assemble(w) \/ RejectScanner(w) \/ Construct(w)
    BY <1>1, <2>1, BuiltSeq
  <2>2. CASE Stamp(w)
    BY <1>1, <2>2, StampSeq
  <2>3. CASE Refuse(w) \/ Save(w)
    BY <1>1, <2>3, ReplySeq
  <2>4. CASE AdoptServices(w) \/ AdoptConfig(w)
    BY <1>1, <2>4, AdoptSeq
  <2> QED
    BY <1>2, <2>1, <2>2, <2>3, <2>4 DEF Step
<1>3. ASSUME NEW w \in Worker, NEW n \in Version, NEW b \in Body, Receive(w, n, b)
      PROVE  AgreeInv' /\ KeyInv'
  BY <1>1, <1>3, ReceiveSeq
<1>4. CASE Boot
  BY <1>4, BootSeq
<1>5. CASE Exit \/ Crash
  <2>1. Gone /\ \A w \in Worker : task'[w].phase = "idle"
    BY <1>5 DEF Exit, Free, Crash, Idle
  <2> QED
    BY <2>1, GoneSeq
<1>6. CASE UNCHANGED <<services, config, cache, liveKey, task, sent, outcome, unsaved>>
  BY <1>1, <1>6 DEF AgreeInv, KeyInv, Agreed, Adopting, Newest, Scans, Ver
<1> QED
  BY <1>2, <1>3, <1>4, <1>5, <1>6
     DEF Next, vars, Stop, Occupy, Vacate, process, history

LEMMA SeqCorrect == Spec => [](DeploymentInv /\ SeqInv)
<1>1. Init => DeploymentInv /\ FaithInv /\ SeqInv
  BY InitDeployment, InitFaith, InitSeq
<1>2. (DeploymentInv /\ FaithInv /\ SeqInv) /\ [Next]_vars => (DeploymentInv /\ FaithInv /\ SeqInv)'
  BY StepDeployment, StepFaith, StepSeq
<1>3. QED
  BY <1>1, <1>2, PTL DEF Spec, Safety

\* Pushes that do not overlap leave one document in the services, the
\* configuration and, if it could be saved, the cache, across crashes and
\* restarts and for any number of them.
THEOREM SequentialPushesAgreeCorrect == Spec => []SequentialPushesAgree
<1>1. DeploymentInv /\ SeqInv => SequentialPushesAgree
  BY DEF SeqInv, AgreeInv, Adopting, Quiet, SequentialPushesAgree
<1>2. QED
  BY <1>1, SeqCorrect, PTL

\* With the newest of such pushes accepted and serving, its own key scans: not
\* the one before it, and not the one of a push that was refused in between.
THEOREM RotationTakesEffectCorrect == Spec => []RotationTakesEffect
<1>1. DeploymentInv /\ SeqInv => RotationTakesEffect
  BY DEF SeqInv, KeyInv, Newest, Scans, RotationTakesEffect
<1>2. QED
  BY <1>1, SeqCorrect, PTL
=============================================================================
