----------------------------- MODULE HandlerProofs -----------------------------
(***************************************************************************)
(* Proofs about the handlers of the server: the model hot-swap, for any    *)
(* models, reloads, requests, streams and probes (ModelReload), and the    *)
(* transcriptions over HTTP, SSE and gRPC, for any calls, pool, permits    *)
(* and channel (Requests).                                                 *)
(***************************************************************************)
EXTENDS ModelReloadProps, RequestsProps, SequenceTheorems, FiniteSetTheorems, TLAPS

(***************************************************************************)
(* The hot-swap.  The inductive invariant:                                 *)
(*                                                                         *)
(* Used       an engine that somebody can reach was built by a reload that *)
(*            started: nobody changes the model it was built from.         *)
(* OneWriter  undisturbed reloads write one at a time, and what is written *)
(*            so far is the writer's: the engine, then the directory.      *)
(* Reading    a calm stream that has begun to read sees one model until it *)
(*            has read everything.                                         *)
(* Loaded     what a stream that runs was made of; the others hold nothing.*)
(* Recorded   the history of the engines ends with the one in use, and has *)
(*            every reload's that wrote its own.                           *)
(***************************************************************************)
Started(e) == e \in Reloads => reload[e] # "idle"

Used ==
  /\ Started(engine)
  /\ \A s \in Streams : \A e \in Holding(s) : Started(e)

OneWriter ==
  ~disturbed =>
    /\ Writing = {} => OneModel
    /\ \A r, q \in Writing : r = q
    /\ \A r \in Writing :
         /\ engine = r
         /\ reload[r] = "dir" => dir = info
         /\ reload[r] = "info" => dir = modelOf[r]

Reading ==
  \A s \in calm : stream[s].phase \in {"dir", "engine"} =>
    /\ ~disturbed /\ Writing = {}
    /\ stream[s].info = info
    /\ stream[s].phase = "engine" => stream[s].dir = dir

Loaded ==
  \A s \in Streams :
    IF stream[s].phase = "running" THEN s \in calm => StreamOfOneModel(s)
    ELSE Holding(s) = {}

Wrote == {"dir", "info", "reply", "naming", "done"}

Recorded ==
  /\ Len(installed) > 0 /\ installed[Len(installed)] = engine
  /\ \A r \in Reloads : reload[r] \in Wrote => \E k \in 1 .. Len(installed) : installed[k] = r

IInv == TypeOK /\ Used /\ OneWriter /\ Reading /\ Loaded /\ Recorded

LEMMA InitIInv == Init => IInv
  <1> SUFFICES ASSUME Init PROVE IInv
    OBVIOUS
  <1>1. /\ engine = First /\ dir = FirstModel /\ info = FirstModel
        /\ modelOf = [e \in Engines |-> FirstModel]
        /\ holders = [e \in Engines |-> IF e = First THEN {State, Grpc} ELSE {}]
        /\ readers = {} /\ reload = [r \in Reloads |-> "idle"]
        /\ stream = [s \in Streams |-> NoRead] /\ installed = <<First>>
        /\ disturbed = FALSE /\ calm = Streams
    BY DEF Init
  <1>2. First \in Engines /\ First \notin Reloads /\ FirstModel \in Models
    BY EnginesAssumption, ModelsAssumption DEF Engines
  <1>3. TypeOK
    <2>1. NoRead \in [phase : StreamPhases, info : Models, dir : Models]
      BY <1>2 DEF NoRead, StreamPhases
    <2>2. stream \in [Streams -> [phase : StreamPhases, info : Models, dir : Models]]
      BY <1>1, <2>1
    <2>3. holders \in [Engines -> SUBSET Holders]
      BY <1>1 DEF Holders
    <2>4. reload \in [Reloads -> ReloadPhases] /\ \A r \in Reloads : reload[r] # "naming"
      BY <1>1 DEF ReloadPhases
    <2>5. modelOf \in [Engines -> Models] /\ installed \in Seq(Engines)
      BY <1>1, <1>2
    <2>6. QED
      BY <1>1, <1>2, <2>2, <2>3, <2>4, <2>5 DEF TypeOK
  <1>4. Writing = {} /\ \A s \in Streams : Holding(s) = {} /\ stream[s].phase = "idle"
    BY <1>1, TasksAssumption DEF Writing, Holding, NoRead
  <1>5. Used /\ Reading /\ Loaded
    BY <1>1, <1>2, <1>4 DEF Used, Started, Reading, Loaded
  <1>6. OneWriter
    BY <1>1, <1>2, <1>4 DEF OneWriter, OneModel
  <1>7. Recorded
    BY <1>1 DEF Recorded, Wrote
  <1>8. QED
    BY <1>3, <1>5, <1>6, <1>7 DEF IInv

-----------------------------------------------------------------------------
(***************************************************************************)
(* Steps that change neither AppState's model nor what a stream has.  The  *)
(* writers stay the same, and what the histories say of the streams.       *)
(***************************************************************************)
Quiet ==
  /\ UNCHANGED <<model, stream, installed, calm>>
  /\ \A s \in Streams : Holding(s)' = Holding(s)

(* An engine that is reachable keeps its model.                            *)
ModelsKept ==
  /\ \A e \in Engines : Started(e) => modelOf'[e] = modelOf[e]
  /\ \A e \in Engines : Started(e) => Started(e)'

LEMMA QuietKeeps ==
  ASSUME IInv, Quiet, ModelsKept, TypeOK',
         \/ disturbed' = disturbed /\ Writing' = Writing /\ (\A r \in Writing : reload'[r] = reload[r])
         \/ disturbed' /\ Writing # {},
         \A r \in Reloads : reload'[r] \in Wrote => reload[r] \in Wrote
  PROVE  IInv'
  <1> USE DEF IInv
  <1>1. /\ engine' = engine /\ dir' = dir /\ info' = info /\ stream' = stream
        /\ installed' = installed /\ calm' = calm /\ calm \subseteq Streams
        /\ \A s \in Streams : Holding(s)' = Holding(s) /\ Holding(s) \subseteq Engines
    BY DEF Quiet, model, TypeOK, Holding
  <1>2. /\ engine \in Engines /\ modelOf'[engine] = modelOf[engine]
        /\ \A s \in Streams : \A e \in Holding(s) : modelOf'[e] = modelOf[e]
    BY <1>1 DEF TypeOK, Used, ModelsKept
  <1>3. Used'
    BY <1>1, <1>2 DEF Used, ModelsKept
  <1>4. OneWriter'
    <2>1. SUFFICES ASSUME ~disturbed' PROVE OneWriter'
      BY DEF OneWriter
    <2>2. disturbed' = disturbed /\ Writing' = Writing /\ \A r \in Writing : reload'[r] = reload[r]
      BY <2>1
    <2>3. \A r \in Writing : r \in Engines /\ Started(r)
      BY DEF Writing, Engines, Started
    <2>4. \A r \in Writing : modelOf'[r] = modelOf[r]
      BY <2>3 DEF ModelsKept
    <2>5. QED
      BY <1>1, <1>2, <2>2, <2>4 DEF OneWriter, OneModel
  <1>5. Reading'
    BY <1>1 DEF Reading
  <1>6. Loaded'
    BY <1>1, <1>2 DEF Loaded, StreamOfOneModel
  <1>7. Recorded'
    BY <1>1 DEF Recorded
  <1>8. QED
    BY <1>3, <1>4, <1>5, <1>6, <1>7

LEMMA ReloadStartKeeps ==
  ASSUME IInv, NEW r \in Reloads, ReloadStart(r)
  PROVE  IInv'
  <1> USE DEF IInv
  <1>1. /\ reload[r] = "idle"
        /\ UNCHANGED <<engine, dir, info, holders, readers, stream, installed, disturbed, calm>>
    BY DEF ReloadStart, model, history
  <1>2. PICK p \in {"load", "failed"} : reload' = [reload EXCEPT ![r] = p]
    BY DEF ReloadStart, Goto
  <1>3. \A q \in Reloads : reload'[q] = IF q = r THEN p ELSE reload[q]
    BY <1>2 DEF TypeOK
  <1>4. PICK m \in Models : modelOf' = [modelOf EXCEPT ![r] = m]
    <2>1. modelOf = [modelOf EXCEPT ![r] = modelOf[r]] /\ modelOf[r] \in Models /\ dir \in Models
      BY DEF TypeOK, Engines
    <2>2. QED
      BY <2>1 DEF ReloadStart
  <1>5. TypeOK'
    BY <1>1, <1>2, <1>3, <1>4 DEF TypeOK, ReloadPhases
  <1>6. Quiet
    BY <1>1 DEF Quiet, model, Holding
  <1>7. ModelsKept
    BY <1>1, <1>3, <1>4 DEF ModelsKept, Started, TypeOK
  <1>8. Writing' = Writing /\ \A q \in Writing : reload'[q] = reload[q]
    BY <1>1, <1>3 DEF Writing
  <1>9. QED
    BY <1>1, <1>3, <1>5, <1>6, <1>7, <1>8, QuietKeeps DEF Wrote

LEMMA LoadKeeps ==
  ASSUME IInv, NEW r \in Reloads, Load(r)
  PROVE  IInv'
  <1> USE DEF IInv
  <1>1. /\ reload[r] = "load"
        /\ UNCHANGED <<engine, dir, info, modelOf, readers, stream, installed, disturbed, calm>>
    BY DEF Load, model, history
  <1>2. PICK p \in {"engine", "failed"} : reload' = [reload EXCEPT ![r] = p]
    BY DEF Load, Goto
  <1>3. \A q \in Reloads : reload'[q] = IF q = r THEN p ELSE reload[q]
    BY <1>2 DEF TypeOK
  <1>4. holders' = [holders EXCEPT ![r] = @ \union {r}] \/ holders' = holders
    BY DEF Load, Clone
  <1>5. TypeOK'
    <2>1. holders' \in [Engines -> SUBSET Holders]
      BY <1>4 DEF TypeOK, Holders, Engines
    <2>2. QED
      BY <1>1, <1>2, <1>3, <2>1 DEF TypeOK, ReloadPhases
  <1>6. Quiet
    <2>1. \A s \in Streams, e \in Engines : s \in holders'[e] <=> s \in holders[e]
      BY <1>4, TasksAssumption DEF TypeOK
    <2>2. QED
      BY <1>1, <2>1 DEF Quiet, model, Holding
  <1>7. ModelsKept
    BY <1>1, <1>3 DEF ModelsKept, Started
  <1>8. Writing' = Writing /\ \A q \in Writing : reload'[q] = reload[q]
    BY <1>1, <1>3 DEF Writing
  <1>9. QED
    BY <1>1, <1>3, <1>5, <1>6, <1>7, <1>8, QuietKeeps DEF Wrote

LEMMA ReplyKeeps ==
  ASSUME IInv, NEW r \in Reloads, ReplyEngine(r) \/ ReplyInfo(r)
  PROVE  IInv'
  <1> USE DEF IInv
  <1>1. UNCHANGED <<engine, dir, info, modelOf, holders, stream, installed, disturbed, calm>>
    BY DEF ReplyEngine, ReplyInfo, model, history
  <1>2. \/ /\ reload[r] = "reply" /\ reload' = [reload EXCEPT ![r] = "naming"]
           /\ readers' = readers \union {r}
        \/ /\ reload[r] = "naming" /\ reload' = [reload EXCEPT ![r] = "done"]
           /\ readers' = readers \ {r}
    BY DEF ReplyEngine, ReplyInfo, Goto
  <1>3. \A q \in Reloads : q # r => reload'[q] = reload[q]
    BY <1>2 DEF TypeOK
  <1>4. \/ reload[r] = "reply" /\ reload'[r] = "naming"
        \/ reload[r] = "naming" /\ reload'[r] = "done"
    BY <1>2 DEF TypeOK
  <1>5. TypeOK'
    BY <1>1, <1>2, <1>3, <1>4 DEF TypeOK, ReloadPhases
  <1>6. Quiet
    BY <1>1 DEF Quiet, model, Holding
  <1>7. ModelsKept
    BY <1>1, <1>3, <1>4 DEF ModelsKept, Started
  <1>8. Writing' = Writing /\ \A q \in Writing : reload'[q] = reload[q]
    BY <1>3, <1>4 DEF Writing
  <1>9. QED
    BY <1>1, <1>3, <1>4, <1>5, <1>6, <1>7, <1>8, QuietKeeps DEF Wrote

LEMMA ReloadDroppedKeeps ==
  ASSUME IInv, NEW r \in Reloads, ReloadDropped(r)
  PROVE  IInv'
  <1> USE DEF IInv
  <1>1. /\ reload[r] \notin {"idle"} \union ReloadEnded
        /\ reload' = [reload EXCEPT ![r] = "dropped"]
        /\ holders' = [e \in Engines |-> holders[e] \ {r}]
        /\ readers' = readers \ {r}
        /\ disturbed' = (disturbed \/ r \in Writing)
        /\ UNCHANGED <<engine, dir, info, modelOf, stream, installed, calm>>
    BY DEF ReloadDropped, Goto, DropArcs, model
  <1>2. \A q \in Reloads : reload'[q] = IF q = r THEN "dropped" ELSE reload[q]
    BY <1>1 DEF TypeOK
  <1>3. TypeOK'
    <2>1. disturbed' \in BOOLEAN
      BY <1>1
    <2>2. holders' \in [Engines -> SUBSET Holders]
      BY <1>1 DEF TypeOK
    <2>3. reload' \in [Reloads -> ReloadPhases]
      BY <1>1 DEF TypeOK, ReloadPhases
    <2>4. readers' \subseteq Reloads \union Probes
          /\ \A q \in Reloads : q \in readers' <=> reload'[q] = "naming"
      BY <1>1, <1>2 DEF TypeOK
    <2>5. QED
      BY <1>1, <2>1, <2>2, <2>3, <2>4 DEF TypeOK
  <1>4. Quiet
    <2>1. \A s \in Streams, e \in Engines : s \in holders'[e] <=> s \in holders[e]
      BY <1>1, TasksAssumption DEF TypeOK
    <2>2. QED
      BY <1>1, <2>1 DEF Quiet, model, Holding
  <1>5. ModelsKept
    BY <1>1, <1>2 DEF ModelsKept, Started
  <1>6. CASE r \in Writing
    <2>1. disturbed' /\ Writing # {}
      BY <1>1, <1>6
    <2>2. \A q \in Reloads : reload'[q] \in Wrote => reload[q] \in Wrote
      BY <1>2 DEF Wrote
    <2>3. QED
      BY <1>3, <1>4, <1>5, <2>1, <2>2, QuietKeeps
  <1>7. CASE r \notin Writing
    <2>1. Writing' = Writing /\ \A q \in Writing : reload'[q] = reload[q]
      BY <1>2, <1>7 DEF Writing
    <2>2. disturbed' = disturbed
      BY <1>1, <1>7 DEF TypeOK
    <2>3. QED
      BY <1>1, <1>2, <1>3, <1>4, <1>5, <2>1, <2>2, QuietKeeps DEF Wrote
  <1>8. QED
    BY <1>6, <1>7

(* Transcriptions and probes.                                              *)
LEMMA VisitorKeeps ==
  ASSUME IInv,
         \/ \E u \in Users : RequestStart(u) \/ RequestEnd(u)
         \/ \E k \in Probes : ProbeStart(k) \/ ProbeEnd(k)
  PROVE  IInv'
  <1> USE DEF IInv
  <1>1. UNCHANGED <<engine, dir, info, modelOf, reload, stream, installed, disturbed, calm>>
    BY DEF RequestStart, RequestEnd, ProbeStart, ProbeEnd, model, history
  <1>2. /\ \A s \in Streams, e \in Engines : s \in holders'[e] <=> s \in holders[e]
        /\ holders' \in [Engines -> SUBSET Holders]
        /\ readers' \subseteq Reloads \union Probes
        /\ \A r \in Reloads : r \in readers' <=> r \in readers
    <2>1. CASE \E u \in Users : RequestStart(u) \/ RequestEnd(u)
      <3>1. PICK u \in Users : RequestStart(u) \/ RequestEnd(u)
        BY <2>1
      <3>2. CASE RequestStart(u)
        BY <3>2, TasksAssumption DEF RequestStart, Clone, TypeOK, Holders, Users
      <3>3. CASE RequestEnd(u)
        BY <3>3, TasksAssumption DEF RequestEnd, DropArcs, TypeOK, Holders, Users
      <3>4. QED
        BY <3>1, <3>2, <3>3
    <2>2. CASE \E k \in Probes : ProbeStart(k) \/ ProbeEnd(k)
      BY <2>2, TasksAssumption DEF ProbeStart, ProbeEnd, TypeOK
    <2>3. QED
      BY <2>1, <2>2
  <1>3. TypeOK'
    BY <1>1, <1>2 DEF TypeOK
  <1>4. Quiet /\ ModelsKept
    BY <1>1, <1>2 DEF Quiet, model, Holding, ModelsKept, Started
  <1>5. Writing' = Writing
    BY <1>1 DEF Writing
  <1>6. QED
    BY <1>1, <1>3, <1>4, <1>5, QuietKeeps

-----------------------------------------------------------------------------
(* The three writes, and what they do to the streams that read meanwhile. *)

LEMMA WriteEngineKeeps ==
  ASSUME IInv, NEW r \in Reloads, WriteEngine(r)
  PROVE  IInv'
  <1> USE DEF IInv
  <1>1. /\ reload[r] = "engine" /\ reload' = [reload EXCEPT ![r] = "dir"]
        /\ engine' = r /\ installed' = Append(installed, r)
        /\ holders' = [e \in Engines |-> IF e = r THEN {State} ELSE holders[e] \ {State}]
        /\ disturbed' = (disturbed \/ Writing # {})
        /\ calm' = {s \in calm : stream[s].phase \notin {"dir", "engine"}}
        /\ UNCHANGED <<dir, info, modelOf, readers, stream>>
    BY DEF WriteEngine, Install, Goto, Undisturbed
  <1>2. \A q \in Reloads : reload'[q] = IF q = r THEN "dir" ELSE reload[q]
    BY <1>1 DEF TypeOK
  <1>3. TypeOK'
    <2>1. holders' \in [Engines -> SUBSET Holders]
      BY <1>1 DEF TypeOK, Holders
    <2>2. reload' \in [Reloads -> ReloadPhases]
      BY <1>1 DEF TypeOK, ReloadPhases
    <2>3. engine' \in Engines /\ installed' \in Seq(Engines)
      BY <1>1, AppendProperties DEF TypeOK, Engines
    <2>4. calm' \subseteq Streams /\ disturbed' \in BOOLEAN
      BY <1>1 DEF TypeOK
    <2>5. QED
      BY <1>1, <1>2, <2>1, <2>2, <2>3, <2>4 DEF TypeOK
  <1>4. \A s \in Streams : Holding(s)' \subseteq Holding(s)
    BY <1>1, TasksAssumption DEF Holding, TypeOK
  <1>5. Used'
    BY <1>1, <1>2, <1>4 DEF Used, Started
  <1>6. OneWriter'
    <2>1. SUFFICES ASSUME ~disturbed' PROVE OneWriter'
      BY DEF OneWriter
    <2>2. ~disturbed /\ Writing = {}
      BY <1>1, <2>1
    <2>3. Writing' = {r}
      BY <1>2, <2>2 DEF Writing
    <2>4. dir = info
      BY <2>2 DEF OneWriter, OneModel
    <2>5. QED
      BY <1>1, <1>2, <2>3, <2>4 DEF OneWriter
  <1>7. Reading'
    BY <1>1 DEF Reading
  <1>8. Loaded'
    BY <1>1, <1>4 DEF Loaded, StreamOfOneModel
  <1>9. Recorded'
    <2>1. /\ Len(installed') = Len(installed) + 1 /\ installed'[Len(installed')] = r
          /\ \A k \in 1 .. Len(installed) : installed'[k] = installed[k]
          /\ Len(installed) \in Nat
      BY <1>1, AppendProperties, LenProperties DEF TypeOK, Engines
    <2>2. \A q \in Reloads : reload'[q] \in Wrote /\ q # r => reload[q] \in Wrote
      BY <1>2
    <2>3. QED
      BY <1>1, <2>1, <2>2 DEF Recorded
  <1>10. QED
    BY <1>3, <1>5, <1>6, <1>7, <1>8, <1>9

LEMMA WriteRestKeeps ==
  ASSUME IInv, NEW r \in Reloads, WriteDir(r) \/ WriteInfo(r)
  PROVE  IInv'
  <1> USE DEF IInv
  <1>1. /\ \/ /\ reload[r] = "dir" /\ reload' = [reload EXCEPT ![r] = "info"]
              /\ dir' = modelOf[r] /\ info' = info
           \/ /\ reload[r] = "info" /\ reload' = [reload EXCEPT ![r] = "reply"]
              /\ info' = modelOf[r] /\ dir' = dir
        /\ calm' = {s \in calm : stream[s].phase \notin {"dir", "engine"}}
        /\ UNCHANGED <<engine, modelOf, holders, readers, stream, installed, disturbed>>
    BY DEF WriteDir, WriteInfo, Goto, Undisturbed
  <1>2. /\ \A q \in Reloads : q # r => reload'[q] = reload[q]
        /\ r \in Writing
        /\ reload[r] = "dir" => reload'[r] = "info"
        /\ reload[r] = "info" => reload'[r] = "reply"
    BY <1>1 DEF TypeOK, Writing
  <1>3. TypeOK'
    <2>1. reload' \in [Reloads -> ReloadPhases]
      BY <1>1 DEF TypeOK, ReloadPhases
    <2>2. dir' \in Models /\ info' \in Models
      BY <1>1 DEF TypeOK, Engines
    <2>3. \A q \in Reloads : q \in readers' <=> reload'[q] = "naming"
      BY <1>1, <1>2 DEF TypeOK
    <2>4. QED
      BY <1>1, <2>1, <2>2, <2>3 DEF TypeOK
  <1>4. \A s \in Streams : Holding(s)' = Holding(s)
    BY <1>1 DEF Holding
  <1>5. Used'
    BY <1>1, <1>2, <1>4 DEF Used, Started
  <1>6. OneWriter'
    <2>1. SUFFICES ASSUME ~disturbed' PROVE OneWriter'
      BY DEF OneWriter
    <2>2. ~disturbed /\ engine = r /\ \A q \in Writing : q = r
      BY <1>1, <1>2, <2>1 DEF OneWriter
    <2>3. CASE reload[r] = "dir"
      <3>1. Writing' = {r} /\ dir' = modelOf'[r] /\ reload'[r] = "info"
        BY <1>1, <1>2, <2>2, <2>3 DEF Writing
      <3>2. QED
        BY <1>1, <2>2, <3>1 DEF OneWriter
    <2>4. CASE reload[r] = "info"
      <3>1. Writing' = {} /\ info' = modelOf'[r] /\ reload'[r] = "reply" /\ dir' = dir
        BY <1>1, <1>2, <2>2, <2>4 DEF Writing
      <3>2. dir = modelOf[r]
        BY <1>2, <2>2, <2>4 DEF OneWriter
      <3>3. OneModel'
        BY <1>1, <2>2, <3>1, <3>2 DEF OneModel
      <3>4. QED
        BY <3>1, <3>3 DEF OneWriter
    <2>5. QED
      BY <1>1, <2>3, <2>4
  <1>7. Reading'
    BY <1>1 DEF Reading
  <1>8. Loaded'
    BY <1>1, <1>4 DEF Loaded, StreamOfOneModel
  <1>9. Recorded'
    BY <1>1, <1>2 DEF Recorded, Wrote
  <1>10. QED
    BY <1>3, <1>5, <1>6, <1>7, <1>8, <1>9

-----------------------------------------------------------------------------
(* What a step of stream s leaves alone. *)

StreamOnly ==
  UNCHANGED <<engine, dir, info, modelOf, readers, reload, installed, disturbed>>

LEMMA StreamKeeps ==
  ASSUME IInv, NEW s \in Streams, StreamOnly,
         NEW r \in [phase : StreamPhases, info : Models, dir : Models],
         stream' = [stream EXCEPT ![s] = r],
         holders' \in [Engines -> SUBSET Holders], calm' \subseteq Streams,
         \A z \in Streams \ {s} : Holding(z)' = Holding(z) /\ (z \in calm' <=> z \in calm),
         \A e \in Holding(s)' : Started(e),
         s \in calm' /\ r.phase \in {"dir", "engine"} =>
           /\ ~disturbed /\ Writing = {}
           /\ r.info = info /\ (r.phase = "engine" => r.dir = dir),
         s \in calm' /\ r.phase = "running" =>
           r.dir = r.info /\ \A e \in Holding(s)' : modelOf[e] = r.info,
         r.phase # "running" => Holding(s)' = {}
  PROVE  IInv'
  <1> USE DEF IInv
  <1>1. /\ engine' = engine /\ dir' = dir /\ info' = info /\ modelOf' = modelOf
        /\ readers' = readers /\ reload' = reload /\ installed' = installed
        /\ disturbed' = disturbed
    BY DEF StreamOnly
  <1>2. \A z \in Streams : stream'[z] = IF z = s THEN r ELSE stream[z]
    BY DEF TypeOK
  <1>3. TypeOK'
    BY <1>1 DEF TypeOK
  <1>4. Writing' = Writing
    BY <1>1 DEF Writing
  <1>5. Used'
    BY <1>1 DEF Used, Started
  <1>6. OneWriter'
    BY <1>1, <1>4 DEF OneWriter, OneModel
  <1>7. Reading'
    BY <1>1, <1>2, <1>4 DEF Reading
  <1>8. Loaded'
    BY <1>1, <1>2 DEF Loaded, StreamOfOneModel
  <1>9. Recorded'
    BY <1>1 DEF Recorded
  <1>10. QED
    BY <1>3, <1>5, <1>6, <1>7, <1>8, <1>9

LEMMA StreamStepKeeps ==
  ASSUME IInv, NEW s \in Streams,
         StreamInfo(s) \/ StreamDir(s) \/ StreamEngine(s) \/ StreamEnd(s)
  PROVE  IInv'
  <1> USE DEF IInv
  <1> DEFINE q == stream[s]
  <1>1. q \in [phase : StreamPhases, info : Models, dir : Models]
    BY DEF TypeOK
  <1>2. StreamOnly
    BY DEF StreamOnly, StreamInfo, StreamDir, StreamEngine, StreamEnd, model, history
  <1>3. ~disturbed /\ Writing = {} => OneModel
    BY DEF OneWriter
  <1>4. /\ holders \in [Engines -> SUBSET Holders] /\ calm \subseteq Streams
        /\ info \in Models /\ dir \in Models /\ s \in Holders
        /\ stream \in [Streams -> [phase : StreamPhases, info : Models, dir : Models]]
    BY DEF TypeOK, Holders
  <1>5. \A e \in Holding(s) : Started(e)
    BY DEF Used
  <1>6. CASE StreamInfo(s)
    <2> DEFINE r == [q EXCEPT !.phase = "dir", !.info = info]
    <2>1. /\ q.phase = "idle" /\ stream' = [stream EXCEPT ![s] = r] /\ holders' = holders
          /\ calm' = IF disturbed \/ Writing # {} THEN calm \ {s} ELSE calm \union {s}
      BY <1>4, <1>6 DEF StreamInfo
    <2>2. /\ r \in [phase : StreamPhases, info : Models, dir : Models]
          /\ r.phase = "dir" /\ r.info = info
      BY <1>1, <1>4 DEF StreamPhases
    <2>3. \A z \in Streams : Holding(z)' = Holding(z)
      BY <2>1 DEF Holding
    <2>4. Holding(s) = {}
      BY <2>1 DEF Loaded
    <2> HIDE DEF r
    <2>5. QED
      BY <1>2, <1>4, <2>1, <2>2, <2>3, <2>4, StreamKeeps
  <1>7. CASE StreamDir(s)
    <2> DEFINE p == IF q.info \in Streaming THEN "running" ELSE "engine"
               r == [q EXCEPT !.dir = dir, !.phase = p]
    <2>1. /\ q.phase = "dir" /\ stream' = [stream EXCEPT ![s] = r] /\ holders' = holders
          /\ calm' = calm
      BY <1>4, <1>7 DEF StreamDir, history
    <2>2. /\ r \in [phase : StreamPhases, info : Models, dir : Models]
          /\ r.phase \in {"running", "engine"} /\ r.info = q.info /\ r.dir = dir
      BY <1>1, <1>4 DEF StreamPhases
    <2>3. \A z \in Streams : Holding(z)' = Holding(z)
      BY <2>1 DEF Holding
    <2>4. Holding(s) = {}
      BY <2>1 DEF Loaded
    <2>5. s \in calm => ~disturbed /\ Writing = {} /\ q.info = info
      BY <2>1 DEF Reading
    <2>6. s \in calm => dir = info
      BY <1>3, <2>5 DEF OneModel
    <2> HIDE DEF r
    <2>7. /\ s \in calm' => ~disturbed /\ Writing = {} /\ r.info = info /\ r.dir = r.info
          /\ Holding(s)' = {} /\ s \in Streams
      BY <2>1, <2>2, <2>3, <2>4, <2>5, <2>6
    <2>8. /\ holders' \in [Engines -> SUBSET Holders] /\ calm' \subseteq Streams
          /\ \A z \in Streams : Holding(z)' = Holding(z) /\ (z \in calm' <=> z \in calm)
      BY <1>4, <2>1, <2>3
    <2>9. QED
      BY <1>2, <2>1, <2>2, <2>7, <2>8, StreamKeeps
  <1>8. CASE StreamEngine(s)
    <2> DEFINE r == [q EXCEPT !.phase = "running"]
    <2>1. /\ q.phase = "engine" /\ stream' = [stream EXCEPT ![s] = r] /\ calm' = calm
          /\ holders' = [holders EXCEPT ![engine] = @ \union {s}]
      BY <1>4, <1>8 DEF StreamEngine, history, Clone
    <2>2. /\ r \in [phase : StreamPhases, info : Models, dir : Models]
          /\ r.phase = "running" /\ r.info = q.info /\ r.dir = q.dir
      BY <1>1 DEF StreamPhases
    <2>3. engine \in Engines /\ Started(engine)
      BY DEF TypeOK, Used
    <2>4. /\ holders' \in [Engines -> SUBSET Holders]
          /\ \A e \in Engines : holders'[e] = IF e = engine THEN holders[e] \union {s} ELSE holders[e]
      BY <1>4, <2>1, <2>3
    <2>5. Holding(s) = {}
      BY <2>1 DEF Loaded
    <2>6. \A z \in Streams \ {s} : Holding(z)' = Holding(z)
      BY <2>4 DEF Holding
    <2>7. \A e \in Holding(s)' : e = engine
      BY <2>4, <2>5 DEF Holding
    <2>8. s \in calm => ~disturbed /\ Writing = {} /\ q.info = info /\ q.dir = dir
      BY <2>1 DEF Reading
    <2> HIDE DEF r
    <2>9. QED
      BY <1>2, <1>3, <1>4, <2>1, <2>2, <2>3, <2>4, <2>6, <2>7, <2>8, StreamKeeps DEF OneModel
  <1>9. CASE StreamEnd(s)
    <2>1. /\ stream' = [stream EXCEPT ![s] = NoRead] /\ calm' = calm
          /\ holders' = [e \in Engines |-> holders[e] \ {s}]
      BY <1>9 DEF StreamEnd, history, DropArcs
    <2>2. /\ NoRead \in [phase : StreamPhases, info : Models, dir : Models]
          /\ NoRead.phase = "idle"
      BY ModelsAssumption DEF NoRead, StreamPhases
    <2>3. /\ holders' \in [Engines -> SUBSET Holders] /\ Holding(s)' = {}
          /\ \A z \in Streams \ {s} : Holding(z)' = Holding(z)
      BY <1>4, <2>1 DEF Holding
    <2>4. QED
      BY <1>2, <1>4, <2>1, <2>2, <2>3, StreamKeeps
  <1>10. QED
    BY <1>6, <1>7, <1>8, <1>9

LEMMA NextIInv == IInv /\ [Next]_vars => IInv'
  <1> SUFFICES ASSUME IInv, [Next]_vars PROVE IInv'
    OBVIOUS
  <1>1. CASE \E r \in Reloads :
               \/ ReloadStart(r) \/ ReloadDropped(r)
               \/ Load(r) \/ WriteEngine(r) \/ WriteDir(r) \/ WriteInfo(r)
               \/ ReplyEngine(r) \/ ReplyInfo(r)
    BY <1>1, ReloadStartKeeps, ReloadDroppedKeeps, LoadKeeps, WriteEngineKeeps, WriteRestKeeps,
       ReplyKeeps
  <1>2. CASE \/ \E u \in Users : RequestStart(u) \/ RequestEnd(u)
             \/ \E k \in Probes : ProbeStart(k) \/ ProbeEnd(k)
    BY <1>2, VisitorKeeps
  <1>3. CASE \E s \in Streams : StreamInfo(s) \/ StreamDir(s) \/ StreamEngine(s) \/ StreamEnd(s)
    BY <1>3, StreamStepKeeps
  <1>4. CASE UNCHANGED vars
    <2>1. Quiet /\ ModelsKept
      BY <1>4 DEF vars, Quiet, model, Holding, ModelsKept, Started
    <2>2. TypeOK' /\ disturbed' = disturbed /\ Writing' = Writing /\ reload' = reload
      BY <1>4 DEF vars, IInv, TypeOK, Writing
    <2>3. QED
      BY <2>1, <2>2, QuietKeeps
  <1>5. QED
    BY <1>1, <1>2, <1>3, <1>4 DEF Next

LEMMA IInvHolds == Spec => []IInv
  BY InitIInv, NextIInv, PTL DEF Spec

-----------------------------------------------------------------------------
(***************************************************************************)
(* Reloads one after the other leave AppState with one model, and a stream *)
(* that no write fell into gets a pipeline of one model (src/src/server/   *)
(* http.rs, reload; ws.rs, the reads at the start of handle_v1_stream).    *)
(***************************************************************************)
THEOREM SerialReloadsAreConsistent == Spec => []SerialReloadsConsistent
  <1>1. IInv => SerialReloadsConsistent
    BY DEF IInv, SerialReloadsConsistent, OneWriter, Loaded, TypeOK
  <1>2. QED
    BY <1>1, IInvHolds, PTL

(***************************************************************************)
(* A transcription, or a /stream connection, that starts after a reload    *)
(* was answered gets that reload's engine or a later one: RequestStart     *)
(* clones what AppState holds and a write of engine is never undone.       *)
(***************************************************************************)
THEOREM NewRequestsGetNewEngine == Spec => NewRequestsUseNewEngine
  <1> DEFINE Uses == \A u \in Users, r \in Reloads :
                       RequestStart(u) /\ reload[r] = "done" =>
                         \E k, l \in 1 .. Len(installed) :
                           installed[k] = r /\ installed[l] = engine /\ k <= l
  <1>1. IInv => Uses
    <2> SUFFICES ASSUME IInv, NEW r \in Reloads, reload[r] = "done"
                 PROVE  \E k, l \in 1 .. Len(installed) :
                          installed[k] = r /\ installed[l] = engine /\ k <= l
      OBVIOUS
    <2>1. PICK k \in 1 .. Len(installed) : installed[k] = r
      BY DEF IInv, Recorded, Wrote
    <2>2. Len(installed) \in 1 .. Len(installed) /\ installed[Len(installed)] = engine
          /\ k <= Len(installed)
      BY <2>1, LenProperties DEF IInv, Recorded, TypeOK
    <2>3. QED
      BY <2>1, <2>2
  <1>2. QED
    BY <1>1, IInvHolds, PTL DEF NewRequestsUseNewEngine

-----------------------------------------------------------------------------
(***************************************************************************)
(* The transcription requests.  The inductive invariant:                   *)
(*                                                                         *)
(* Lending    the triplets that are not in the pool are those of the calls *)
(*            whose task or handler works with one.                        *)
(* Admitting  the gRPC permits in use are those of the calls admitted.     *)
(* Placed     a call has a task only after it was let begin, and no        *)
(*            segments before; segments and chunks left make up the upload.*)
(* Streamed   where nobody reads there are no events; those there are come *)
(*            in order, and while the SSE task runs and its response is    *)
(*            open, they are all of its segments: it ends in the step in   *)
(*            which it drops one.                                          *)
(***************************************************************************)
Typed ==
  /\ kind \in [Calls -> Kinds] /\ pc \in [Calls -> Places]
  /\ worker \in [Calls -> {"none", "run", "over", "returned", "done", "error"}]
  /\ chunks \in [Calls -> Nat] /\ made \in [Calls -> Nat]
  /\ chan \in [Calls -> Seq(Event)] /\ got \in [Calls -> Seq(Event)]
  /\ open \subseteq Calls /\ stalled \subseteq Calls /\ pipelines \subseteq Calls
  /\ cancelled \in BOOLEAN /\ exited \in BOOLEAN

Handling == {c \in Calls : worker[c] \in {"run", "over"} \/ At(c, "infer")}
Admitted == {c \in Calls : At(c, "admitted")}

Lending ==
  /\ free \in Nat /\ held = Handling /\ IsFiniteSet(held)
  /\ free + Cardinality(held) = Triplets

Admitting ==
  /\ permits \in Nat /\ IsFiniteSet(Admitted)
  /\ permits + Cardinality(Admitted) = Permits

Begun == {"await", "body", "ok", "failed", "ended", "gone"}

Placed(c) ==
  /\ worker[c] # "none" => pc[c] \in Begun
  /\ worker[c] = "none" => made[c] = 0
  /\ made[c] + chunks[c] <= MaxChunks

Streamed(c) ==
  /\ Len(chan[c]) <= Room
  /\ pc[c] \notin {"body", "ended"} => chan[c] = <<>> /\ got[c] = <<>>
  /\ Ordered(c)
  /\ SseRuns(c) /\ At(c, "body") =>
       /\ Len(Events(c)) = made[c]
       /\ \A i \in 1..Len(Events(c)) : Events(c)[i].type = "partial"

OrderInv ==
  /\ Typed /\ Lending /\ Admitting
  /\ \A c \in Calls : Placed(c) /\ Streamed(c)

-----------------------------------------------------------------------------
(* A step of one call leaves the others as they were.                      *)
Same(d) ==
  /\ kind'[d] = kind[d] /\ pc'[d] = pc[d] /\ worker'[d] = worker[d]
  /\ chunks'[d] = chunks[d] /\ made'[d] = made[d]
  /\ chan'[d] = chan[d] /\ got'[d] = got[d]

OthersSame(c) == \A d \in Calls \ {c} : Same(d)

Handles(c) == worker[c] \in {"run", "over"} \/ At(c, "infer")

LEMMA SameKeeps ==
  ASSUME NEW d, Placed(d), Streamed(d), Same(d)
  PROVE  Placed(d)' /\ Streamed(d)'
  <1>1. /\ Events(d)' = Events(d) /\ (SseRuns(d)' <=> SseRuns(d)) /\ (At(d, "body")' <=> At(d, "body"))
        /\ pc'[d] = pc[d] /\ worker'[d] = worker[d] /\ chunks'[d] = chunks[d]
        /\ made'[d] = made[d] /\ chan'[d] = chan[d] /\ got'[d] = got[d]
    BY DEF Same, Events, SseRuns, At
  <1>2. Placed(d)'
    BY <1>1 DEF Placed
  <1>3. Ordered(d)'
    <2>1. Ordered(d)
      BY DEF Streamed
    <2>2. QED
      BY <1>1, <2>1 DEF Ordered
  <1>4. Streamed(d)'
    BY <1>1, <1>3 DEF Streamed
  <1>5. QED
    BY <1>2, <1>4

LEMMA OneCallSteps ==
  ASSUME OrderInv, NEW c \in Calls, Typed', Lending', Admitting',
         OthersSame(c), Placed(c)', Streamed(c)'
  PROVE  OrderInv'
  <1> SUFFICES ASSUME NEW d \in Calls, d # c PROVE Placed(d)' /\ Streamed(d)'
    BY DEF OrderInv
  <1> QED
    BY SameKeeps DEF OrderInv, OthersSame

(* A step of a call keeps the books of the pool, and of the permits, if it *)
(* takes when it begins to work with one and gives back when it ends.      *)
LEMMA LendingStep ==
  ASSUME Lending, NEW c \in Calls, OthersSame(c),
         \/ UNCHANGED pool /\ (Handles(c)' <=> Handles(c))
         \/ Take(c) /\ ~Handles(c) /\ Handles(c)'
         \/ GiveBack(c) /\ Handles(c) /\ ~Handles(c)'
  PROVE  Lending'
  <1>1. Handling = {d \in Calls : Handles(d)} /\ Handling' = {d \in Calls : Handles(d)'}
    BY DEF Handling, Handles, At
  <1>2. \A d \in Calls \ {c} : Handles(d)' <=> Handles(d)
    BY DEF OthersSame, Same, Handles, At
  <1>3. CASE UNCHANGED pool /\ (Handles(c)' <=> Handles(c))
    <2>1. Handling' = Handling
      BY <1>1, <1>2, <1>3
    <2>2. QED
      BY <1>3, <2>1 DEF Lending, pool
  <1>4. CASE Take(c) /\ ~Handles(c) /\ Handles(c)'
    <2>1. Handling' = Handling \union {c} /\ c \notin Handling
      BY <1>1, <1>2, <1>4
    <2>2. /\ Handling = held /\ IsFiniteSet(held) /\ Cardinality(held) \in Nat
          /\ free \in Nat /\ free > 0 /\ free' = free - 1
          /\ held' = held \union {c} /\ free + Cardinality(held) = Triplets
      BY <1>4, FS_CardinalityType DEF Lending, Take
    <2>3. IsFiniteSet(held') /\ Cardinality(held') = Cardinality(held) + 1
      BY <2>1, <2>2, FS_AddElement
    <2>4. free' + Cardinality(held') = Triplets /\ free' \in Nat
      BY <2>2, <2>3
    <2>5. QED
      BY <2>1, <2>2, <2>3, <2>4 DEF Lending
  <1>5. CASE GiveBack(c) /\ Handles(c) /\ ~Handles(c)'
    <2>1. Handling' = Handling \ {c} /\ c \in Handling
      BY <1>1, <1>2, <1>5
    <2>2. /\ Handling = held /\ IsFiniteSet(held) /\ Cardinality(held) \in Nat
          /\ free \in Nat /\ free' = free + 1
          /\ held' = held \ {c} /\ free + Cardinality(held) = Triplets
      BY <1>5, FS_CardinalityType DEF Lending, GiveBack
    <2>3. IsFiniteSet(held') /\ Cardinality(held') = Cardinality(held) - 1
      BY <2>1, <2>2, FS_RemoveElement
    <2>4. free' + Cardinality(held') = Triplets /\ free' \in Nat
      BY <2>2, <2>3
    <2>5. QED
      BY <2>1, <2>2, <2>3, <2>4 DEF Lending
  <1>6. QED
    BY <1>3, <1>4, <1>5

LEMMA AdmittingStep ==
  ASSUME Admitting, NEW c \in Calls, OthersSame(c),
         \/ UNCHANGED permits /\ (At(c, "admitted")' <=> At(c, "admitted"))
         \/ /\ permits > 0 /\ permits' = permits - 1
            /\ ~At(c, "admitted") /\ At(c, "admitted")'
         \/ permits' = permits + 1 /\ At(c, "admitted") /\ ~At(c, "admitted")'
  PROVE  Admitting'
  <1>1. \A d \in Calls \ {c} : At(d, "admitted")' <=> At(d, "admitted")
    BY DEF OthersSame, Same, At
  <1>2. permits \in Nat /\ IsFiniteSet(Admitted) /\ Cardinality(Admitted) \in Nat
    BY FS_CardinalityType DEF Admitting
  <1>3. CASE UNCHANGED permits /\ (At(c, "admitted")' <=> At(c, "admitted"))
    <2>1. Admitted' = Admitted
      BY <1>1, <1>3 DEF Admitted
    <2>2. QED
      BY <1>3, <2>1 DEF Admitting
  <1>4. CASE /\ permits > 0 /\ permits' = permits - 1
             /\ ~At(c, "admitted") /\ At(c, "admitted")'
    <2>1. Admitted' = Admitted \union {c} /\ c \notin Admitted
      BY <1>1, <1>4 DEF Admitted
    <2>2. IsFiniteSet(Admitted') /\ Cardinality(Admitted') = Cardinality(Admitted) + 1
      BY <1>2, <2>1, FS_AddElement
    <2>3. QED
      BY <1>2, <1>4, <2>2 DEF Admitting
  <1>5. CASE permits' = permits + 1 /\ At(c, "admitted") /\ ~At(c, "admitted")'
    <2>1. Admitted' = Admitted \ {c} /\ c \in Admitted
      BY <1>1, <1>5 DEF Admitted
    <2>2. IsFiniteSet(Admitted') /\ Cardinality(Admitted') = Cardinality(Admitted) - 1
      BY <1>2, <2>1, FS_RemoveElement
    <2>3. QED
      BY <1>2, <1>5, <2>2 DEF Admitting
  <1>6. QED
    BY <1>3, <1>4, <1>5

(* What the reader has and what is in the channel, one after the other: an *)
(* event sent comes last, and reading moves the line between them.         *)
LEMMA ConcatAppend ==
  ASSUME NEW S, NEW s \in Seq(S), NEW t \in Seq(S), NEW e \in S
  PROVE  s \o Append(t, e) = Append(s \o t, e)
  <1>1. <<e>> \in Seq(S) /\ s \o t \in Seq(S)
    BY ConcatProperties
  <1>2. Append(t, e) = t \o <<e>> /\ Append(s \o t, e) = (s \o t) \o <<e>>
    BY <1>1, AppendIsConcat
  <1>3. QED
    BY <1>1, <1>2, ConcatAssociative

LEMMA HeadMoves ==
  ASSUME NEW S, NEW s \in Seq(S), NEW t \in Seq(S), t # <<>>
  PROVE  Append(s, Head(t)) \o Tail(t) = s \o t
  <1>1. Head(t) \in S /\ Tail(t) \in Seq(S) /\ <<Head(t)>> \in Seq(S)
    BY HeadTailProperties
  <1>2. t = <<Head(t)>> \o Tail(t)
    <2>1. Len(t) \in Nat \ {0} /\ SubSeq(t, 1, Len(t)) = t
      BY EmptySeq, SubSeqFull
    <2>2. SubSeq(t, 1, Len(t)) = <<t[1]>> \o SubSeq(t, 2, Len(t))
      BY <2>1, SubSeqRecursiveFirst
    <2>3. Tail(t) = SubSeq(t, 2, Len(t)) /\ Head(t) = t[1]
      BY TailIsSubSeq
    <2>4. QED
      BY <2>1, <2>2, <2>3
  <1>3. Append(s, Head(t)) = s \o <<Head(t)>>
    BY <1>1, AppendIsConcat
  <1>4. (s \o <<Head(t)>>) \o Tail(t) = s \o (<<Head(t)>> \o Tail(t))
    BY <1>1, ConcatAssociative
  <1>5. QED
    BY <1>2, <1>3, <1>4

(* The three things a step can do to the events of its call: leave them,   *)
(* have none, add one.                                                     *)
LEMMA EventsKept ==
  ASSUME NEW c, Streamed(c), Events(c)' = Events(c), Len(chan'[c]) <= Room,
         pc'[c] \notin {"body", "ended"} => chan'[c] = <<>> /\ got'[c] = <<>>,
         (SseRuns(c) /\ At(c, "body"))' =>
           SseRuns(c) /\ At(c, "body") /\ made'[c] = made[c]
  PROVE  Streamed(c)'
  <1>1. Ordered(c)'
    BY DEF Streamed, Ordered
  <1>2. QED
    BY <1>1 DEF Streamed

LEMMA NothingSent ==
  ASSUME NEW c, chan'[c] = <<>>, got'[c] = <<>>,
         (SseRuns(c) /\ At(c, "body"))' => made'[c] = 0
  PROVE  Streamed(c)'
  <1>1. Events(c)' = <<>> /\ Len(Events(c)') = 0 /\ Len(chan'[c]) = 0
    BY DEF Events
  <1>2. 1 .. Len(Events(c)') = {}
    BY <1>1
  <1>3. Room \in Nat
    BY SizesAssumption
  <1>4. QED
    BY <1>1, <1>2, <1>3 DEF Streamed, Ordered

LEMMA EventAdded ==
  ASSUME Typed, NEW c \in Calls, Streamed(c), SseRuns(c), At(c, "body"), At(c, "body")',
         Len(chan[c]) # Room, got'[c] = got[c],
         NEW event \in Event, chan'[c] = Append(chan[c], event),
         \/ event.type = "partial" /\ event.n = made[c] + 1 /\ made'[c] = made[c] + 1
         \/ event.type = "final" /\ event.n = made[c] /\ ~SseRuns(c)'
         \/ event.type = "error" /\ ~SseRuns(c)'
  PROVE  Streamed(c)'
  <1>1. /\ chan[c] \in Seq(Event) /\ got[c] \in Seq(Event) /\ made[c] \in Nat
        /\ Len(Events(c)) = made[c]
        /\ \A i \in 1..Len(Events(c)) : Events(c)[i].type = "partial"
    BY DEF Typed, Streamed
  <1>2. Events(c) \in Seq(Event)
    BY <1>1 DEF Events
  <1>3. Events(c)' = Append(Events(c), event)
    <2>1. \A s, t \in Seq(Event) : s \o Append(t, event) = Append(s \o t, event)
      BY ConcatAppend
    <2>2. QED
      BY <1>1, <2>1 DEF Events
  <1>4. /\ Len(Events(c)') = made[c] + 1
        /\ \A i \in 1..made[c] : Events(c)'[i] = Events(c)[i]
        /\ Events(c)'[made[c] + 1] = event
    BY <1>1, <1>2, <1>3
  <1>5. Ordered(c)'
    <2> SUFFICES ASSUME NEW i \in 1..(made[c] + 1)
                 PROVE  /\ Events(c)'[i].type = "partial" => Events(c)'[i].n = i
                        /\ Events(c)'[i].type # "partial" => i = made[c] + 1
                        /\ Events(c)'[i].type = "final" => Events(c)'[i].n = i - 1
      BY <1>4 DEF Ordered
    <2>1. CASE i \in 1..made[c]
      <3>1. Events(c)[i].type = "partial" /\ Events(c)[i].n = i
        BY <1>1, <2>1 DEF Streamed, Ordered
      <3>2. QED
        BY <1>4, <2>1, <3>1
    <2>2. CASE i = made[c] + 1
      BY <1>1, <1>4, <2>2
    <2>3. QED
      BY <1>1, <2>1, <2>2
  <1>6. Len(chan'[c]) <= Room
    <2>1. Len(chan'[c]) = Len(chan[c]) + 1 /\ Len(chan[c]) \in Nat
      BY <1>1
    <2>2. Room \in Nat /\ Len(chan[c]) <= Room
      BY SizesAssumption DEF Streamed
    <2>3. QED
      BY <2>1, <2>2
  <1>7. (SseRuns(c) /\ At(c, "body"))' =>
          /\ Len(Events(c)') = made'[c]
          /\ \A i \in 1..Len(Events(c)') : Events(c)'[i].type = "partial"
    <2> SUFFICES ASSUME SseRuns(c)'
                 PROVE  /\ Len(Events(c)') = made'[c]
                        /\ \A i \in 1..Len(Events(c)') : Events(c)'[i].type = "partial"
      OBVIOUS
    <2>1. event.type = "partial" /\ made'[c] = made[c] + 1
      OBVIOUS
    <2>2. \A i \in 1..(made[c] + 1) : i \in 1..made[c] \/ i = made[c] + 1
      BY <1>1
    <2>3. QED
      BY <1>1, <1>4, <2>1, <2>2
  <1>8. QED
    BY <1>5, <1>6, <1>7 DEF Streamed, At

-----------------------------------------------------------------------------
(* One lemma per action.                                                   *)
LEMMA HttpCallKeeps ==
  ASSUME OrderInv, NEW c \in Calls, HttpCall(c)
  PROVE  OrderInv'
  <1>1. Typed /\ Lending /\ Admitting /\ Placed(c) /\ Streamed(c)
    BY DEF OrderInv
  <1>2. OthersSame(c)
    BY <1>1 DEF OthersSame, Same, Typed, HttpCall, Enter, pool, sse, grpc, main
  <1>3. Typed'
    <2>1. PICK k \in Http, n \in 0..MaxChunks :
            kind' = [kind EXCEPT ![c] = k] /\ chunks' = [chunks EXCEPT ![c] = n]
      BY DEF HttpCall
    <2>2. k \in Kinds /\ n \in Nat
      BY MaxChunksAssumption DEF Http, Kinds
    <2>3. QED
      BY <1>1, <2>1, <2>2 DEF Typed, Places, Over, HttpCall, Enter, pool, grpc, main
  <1>4. Lending'
    BY <1>1, <1>2, LendingStep DEF Typed, Handles, At, Placed, Begun, HttpCall,
       Enter, pool, sse, grpc, main
  <1>5. Admitting'
    BY <1>1, <1>2, AdmittingStep DEF Typed, At, HttpCall, Enter, pool, sse, grpc,
       main
  <1>6. Placed(c)'
    BY <1>1 DEF Typed, Placed, Begun, Over, At, HttpCall, Enter, pool, sse, grpc,
       main
  <1>7. chan'[c] = <<>> /\ got'[c] = <<>>
    BY <1>1 DEF Typed, Streamed, At, HttpCall, Enter, pool, sse, grpc, main
  <1>8. (SseRuns(c) /\ At(c, "body"))' => made'[c] = 0
    BY <1>1 DEF Typed, Placed, Begun, SseRuns, At, HttpCall, Enter, pool, sse,
       grpc, main
  <1>9. Streamed(c)'
    BY <1>7, <1>8, NothingSent
  <1>10. QED
    BY <1>2, <1>3, <1>4, <1>5, <1>6, <1>9, OneCallSteps

LEMMA CheckoutKeeps ==
  ASSUME OrderInv, NEW c \in Calls, Checkout(c)
  PROVE  OrderInv'
  <1>1. Typed /\ Lending /\ Admitting /\ Placed(c) /\ Streamed(c)
    BY DEF OrderInv
  <1>2. OthersSame(c)
    BY <1>1 DEF OthersSame, Same, Typed, Checkout, Enter, Work, Take, sse, grpc,
       main
  <1>3. Typed'
    BY <1>1 DEF Typed, Kinds, Http, Places, Over, Checkout, Enter, Work, Take,
       sse, grpc, main
  <1>4. Lending'
    BY <1>1, <1>2, LendingStep DEF Typed, Handles, At, Placed, Begun, Checkout,
       Enter, Work, Take, sse, grpc, main
  <1>5. Admitting'
    BY <1>1, <1>2, AdmittingStep DEF Typed, At, Checkout, Enter, Work, Take, sse,
       grpc, main
  <1>6. Placed(c)'
    BY <1>1 DEF Typed, Placed, Begun, Over, At, Checkout, Enter, Work, Take, sse,
       grpc, main
  <1>7. chan'[c] = <<>> /\ got'[c] = <<>>
    BY <1>1 DEF Typed, Streamed, At, Checkout, Enter, Work, Take, sse, grpc, main
  <1>8. (SseRuns(c) /\ At(c, "body"))' => made'[c] = 0
    BY <1>1 DEF Typed, Placed, Begun, SseRuns, At, Checkout, Enter, Work, Take,
       sse, grpc, main
  <1>9. Streamed(c)'
    BY <1>7, <1>8, NothingSent
  <1>10. QED
    BY <1>2, <1>3, <1>4, <1>5, <1>6, <1>9, OneCallSteps

LEMMA CheckoutTimeoutKeeps ==
  ASSUME OrderInv, NEW c \in Calls, CheckoutTimeout(c)
  PROVE  OrderInv'
  <1>1. Typed /\ Lending /\ Admitting /\ Placed(c) /\ Streamed(c)
    BY DEF OrderInv
  <1>2. OthersSame(c)
    BY <1>1 DEF OthersSame, Same, Typed, CheckoutTimeout, Enter, pool, sse, grpc,
       main
  <1>3. Typed'
    BY <1>1 DEF Typed, Kinds, Http, Places, Over, CheckoutTimeout, Enter, pool,
       sse, grpc, main
  <1>4. Lending'
    BY <1>1, <1>2, LendingStep DEF Typed, Handles, At, Placed, Begun,
       CheckoutTimeout, Enter, pool, sse, grpc, main
  <1>5. Admitting'
    BY <1>1, <1>2, AdmittingStep DEF Typed, At, CheckoutTimeout, Enter, pool,
       sse, grpc, main
  <1>6. Placed(c)'
    BY <1>1 DEF Typed, Placed, Begun, Over, At, CheckoutTimeout, Enter, pool,
       sse, grpc, main
  <1>7. chan'[c] = <<>> /\ got'[c] = <<>>
    BY <1>1 DEF Typed, Streamed, At, CheckoutTimeout, Enter, pool, sse, grpc, main
  <1>8. (SseRuns(c) /\ At(c, "body"))' => made'[c] = 0
    BY <1>1 DEF Typed, Placed, Begun, SseRuns, At, CheckoutTimeout, Enter, pool,
       sse, grpc, main
  <1>9. Streamed(c)'
    BY <1>7, <1>8, NothingSent
  <1>10. QED
    BY <1>2, <1>3, <1>4, <1>5, <1>6, <1>9, OneCallSteps

LEMMA OnceWorksKeeps ==
  ASSUME OrderInv, NEW c \in Calls, OnceWorks(c)
  PROVE  OrderInv'
  <1>1. Typed /\ Lending /\ Admitting /\ Placed(c) /\ Streamed(c)
    BY DEF OrderInv
  <1>2. OthersSame(c)
    BY <1>1 DEF OthersSame, Same, Typed, OnceWorks, Work, GiveBack, sse, grpc, main
  <1>3. Typed'
    BY <1>1 DEF Typed, Kinds, Http, Places, Over, OnceWorks, Work, GiveBack, sse,
       grpc, main
  <1>4. Lending'
    BY <1>1, <1>2, LendingStep DEF Typed, Handles, At, Placed, Begun, OnceWorks,
       Work, GiveBack, sse, grpc, main
  <1>5. Admitting'
    BY <1>1, <1>2, AdmittingStep DEF Typed, At, OnceWorks, Work, GiveBack, sse,
       grpc, main
  <1>6. Placed(c)'
    BY <1>1 DEF Typed, Placed, Begun, Over, At, OnceWorks, Work, GiveBack, sse,
       grpc, main
  <1>7. Events(c)' = Events(c) /\ Len(chan'[c]) <= Room
    BY <1>1 DEF Typed, Streamed, Events, OnceWorks, Work, GiveBack, sse, grpc, main
  <1>8. /\ pc'[c] \notin {"body", "ended"} => chan'[c] = <<>> /\ got'[c] = <<>>
        /\ (SseRuns(c) /\ At(c, "body"))' =>
             SseRuns(c) /\ At(c, "body") /\ made'[c] = made[c]
    BY <1>1 DEF Typed, Streamed, SseRuns, At, OnceWorks, Work, GiveBack, sse,
       grpc, main
  <1>9. Streamed(c)'
    BY <1>1, <1>7, <1>8, EventsKept
  <1>10. QED
    BY <1>2, <1>3, <1>4, <1>5, <1>6, <1>9, OneCallSteps

LEMMA OnceAnswersKeeps ==
  ASSUME OrderInv, NEW c \in Calls, OnceAnswers(c)
  PROVE  OrderInv'
  <1>1. Typed /\ Lending /\ Admitting /\ Placed(c) /\ Streamed(c)
    BY DEF OrderInv
  <1>2. OthersSame(c)
    BY <1>1 DEF OthersSame, Same, Typed, OnceAnswers, Enter, pool, sse, grpc, main
  <1>3. Typed'
    BY <1>1 DEF Typed, Kinds, Http, Places, Over, OnceAnswers, Enter, pool, sse,
       grpc, main
  <1>4. Lending'
    BY <1>1, <1>2, LendingStep DEF Typed, Handles, At, Placed, Begun,
       OnceAnswers, Enter, pool, sse, grpc, main
  <1>5. Admitting'
    BY <1>1, <1>2, AdmittingStep DEF Typed, At, OnceAnswers, Enter, pool, sse,
       grpc, main
  <1>6. Placed(c)'
    BY <1>1 DEF Typed, Placed, Begun, Over, At, OnceAnswers, Enter, pool, sse,
       grpc, main
  <1>7. chan'[c] = <<>> /\ got'[c] = <<>>
    BY <1>1 DEF Typed, Streamed, At, OnceAnswers, Enter, pool, sse, grpc, main
  <1>8. (SseRuns(c) /\ At(c, "body"))' => made'[c] = 0
    BY <1>1 DEF Typed, Placed, Begun, SseRuns, At, OnceAnswers, Enter, pool, sse,
       grpc, main
  <1>9. Streamed(c)'
    BY <1>7, <1>8, NothingSent
  <1>10. QED
    BY <1>2, <1>3, <1>4, <1>5, <1>6, <1>9, OneCallSteps

LEMMA DisconnectKeeps ==
  ASSUME OrderInv, NEW c \in Calls, Disconnect(c)
  PROVE  OrderInv'
  <1>1. Typed /\ Lending /\ Admitting /\ Placed(c) /\ Streamed(c)
    BY DEF OrderInv
  <1>2. OthersSame(c)
    BY <1>1 DEF OthersSame, Same, Typed, Disconnect, Enter, pool, main
  <1>3. Typed'
    BY <1>1 DEF Typed, Kinds, Http, Places, Over, Disconnect, Enter, pool, main
  <1>4. Lending'
    BY <1>1, <1>2, LendingStep DEF Typed, Handles, At, Placed, Begun, Disconnect,
       Enter, pool, main
  <1>5. Admitting'
    BY <1>1, <1>2, AdmittingStep DEF Typed, At, Disconnect, Enter, pool, main
  <1>6. Placed(c)'
    BY <1>1 DEF Typed, Placed, Begun, Over, At, Disconnect, Enter, pool, main
  <1>7. chan'[c] = <<>> /\ got'[c] = <<>>
    BY <1>1 DEF Typed, Streamed, At, Disconnect, Enter, pool, main
  <1>8. (SseRuns(c) /\ At(c, "body"))' => made'[c] = 0
    BY <1>1 DEF Typed, Placed, Begun, SseRuns, At, Disconnect, Enter, pool, main
  <1>9. Streamed(c)'
    BY <1>7, <1>8, NothingSent
  <1>10. QED
    BY <1>2, <1>3, <1>4, <1>5, <1>6, <1>9, OneCallSteps

LEMMA SseCancelledKeeps ==
  ASSUME OrderInv, NEW c \in Calls, SseCancelled(c)
  PROVE  OrderInv'
  <1>1. Typed /\ Lending /\ Admitting /\ Placed(c) /\ Streamed(c)
    BY DEF OrderInv
  <1>2. OthersSame(c)
    BY <1>1 DEF OthersSame, Same, Typed, SseCancelled, SseRuns, Work, pool, sse,
       grpc, main
  <1>3. Typed'
    BY <1>1 DEF Typed, Kinds, Http, Places, Over, SseCancelled, SseRuns, Work,
       pool, sse, grpc, main
  <1>4. Lending'
    BY <1>1, <1>2, LendingStep DEF Typed, Handles, At, Placed, Begun,
       SseCancelled, SseRuns, Work, pool, sse, grpc, main
  <1>5. Admitting'
    BY <1>1, <1>2, AdmittingStep DEF Typed, At, SseCancelled, SseRuns, Work,
       pool, sse, grpc, main
  <1>6. Placed(c)'
    BY <1>1 DEF Typed, Placed, Begun, Over, At, SseCancelled, SseRuns, Work,
       pool, sse, grpc, main
  <1>7. Events(c)' = Events(c) /\ Len(chan'[c]) <= Room
    BY <1>1 DEF Typed, Streamed, Events, SseCancelled, SseRuns, Work, pool, sse,
       grpc, main
  <1>8. /\ pc'[c] \notin {"body", "ended"} => chan'[c] = <<>> /\ got'[c] = <<>>
        /\ (SseRuns(c) /\ At(c, "body"))' =>
             SseRuns(c) /\ At(c, "body") /\ made'[c] = made[c]
    BY <1>1 DEF Typed, Streamed, SseRuns, At, SseCancelled, SseRuns, Work, pool,
       sse, grpc, main
  <1>9. Streamed(c)'
    BY <1>1, <1>7, <1>8, EventsKept
  <1>10. QED
    BY <1>2, <1>3, <1>4, <1>5, <1>6, <1>9, OneCallSteps

LEMMA SseReturnsKeeps ==
  ASSUME OrderInv, NEW c \in Calls, SseReturns(c)
  PROVE  OrderInv'
  <1>1. Typed /\ Lending /\ Admitting /\ Placed(c) /\ Streamed(c)
    BY DEF OrderInv
  <1>2. OthersSame(c)
    BY <1>1 DEF OthersSame, Same, Typed, SseReturns, Work, GiveBack, sse, grpc, main
  <1>3. Typed'
    BY <1>1 DEF Typed, Kinds, Http, Places, Over, SseReturns, Work, GiveBack,
       sse, grpc, main
  <1>4. Lending'
    BY <1>1, <1>2, LendingStep DEF Typed, Handles, At, Placed, Begun, SseReturns,
       Work, GiveBack, sse, grpc, main
  <1>5. Admitting'
    BY <1>1, <1>2, AdmittingStep DEF Typed, At, SseReturns, Work, GiveBack, sse,
       grpc, main
  <1>6. Placed(c)'
    BY <1>1 DEF Typed, Placed, Begun, Over, At, SseReturns, Work, GiveBack, sse,
       grpc, main
  <1>7. Events(c)' = Events(c) /\ Len(chan'[c]) <= Room
    BY <1>1 DEF Typed, Streamed, Events, SseReturns, Work, GiveBack, sse, grpc, main
  <1>8. /\ pc'[c] \notin {"body", "ended"} => chan'[c] = <<>> /\ got'[c] = <<>>
        /\ (SseRuns(c) /\ At(c, "body"))' =>
             SseRuns(c) /\ At(c, "body") /\ made'[c] = made[c]
    BY <1>1 DEF Typed, Streamed, SseRuns, At, SseReturns, Work, GiveBack, sse,
       grpc, main
  <1>9. Streamed(c)'
    BY <1>1, <1>7, <1>8, EventsKept
  <1>10. QED
    BY <1>2, <1>3, <1>4, <1>5, <1>6, <1>9, OneCallSteps

LEMMA SseHangsUpKeeps ==
  ASSUME OrderInv, NEW c \in Calls, SseHangsUp(c)
  PROVE  OrderInv'
  <1>1. Typed /\ Lending /\ Admitting /\ Placed(c) /\ Streamed(c)
    BY DEF OrderInv
  <1>2. OthersSame(c)
    BY <1>1 DEF OthersSame, Same, Typed, SseHangsUp, Work, pool, grpc, main
  <1>3. Typed'
    BY <1>1 DEF Typed, Kinds, Http, Places, Over, SseHangsUp, Work, pool, grpc, main
  <1>4. Lending'
    BY <1>1, <1>2, LendingStep DEF Typed, Handles, At, Placed, Begun, SseHangsUp,
       Work, pool, grpc, main
  <1>5. Admitting'
    BY <1>1, <1>2, AdmittingStep DEF Typed, At, SseHangsUp, Work, pool, grpc, main
  <1>6. Placed(c)'
    BY <1>1 DEF Typed, Placed, Begun, Over, At, SseHangsUp, Work, pool, grpc, main
  <1>7. Events(c)' = Events(c) /\ Len(chan'[c]) <= Room
    BY <1>1 DEF Typed, Streamed, Events, SseHangsUp, Work, pool, grpc, main
  <1>8. /\ pc'[c] \notin {"body", "ended"} => chan'[c] = <<>> /\ got'[c] = <<>>
        /\ (SseRuns(c) /\ At(c, "body"))' =>
             SseRuns(c) /\ At(c, "body") /\ made'[c] = made[c]
    BY <1>1 DEF Typed, Streamed, SseRuns, At, SseHangsUp, Work, pool, grpc, main
  <1>9. Streamed(c)'
    BY <1>1, <1>7, <1>8, EventsKept
  <1>10. QED
    BY <1>2, <1>3, <1>4, <1>5, <1>6, <1>9, OneCallSteps

LEMMA ReadEndKeeps ==
  ASSUME OrderInv, NEW c \in Calls, ReadEnd(c)
  PROVE  OrderInv'
  <1>1. Typed /\ Lending /\ Admitting /\ Placed(c) /\ Streamed(c)
    BY DEF OrderInv
  <1>2. OthersSame(c)
    BY <1>1 DEF OthersSame, Same, Typed, ReadEnd, Enter, pool, sse, grpc, main
  <1>3. Typed'
    BY <1>1 DEF Typed, Kinds, Http, Places, Over, ReadEnd, Enter, pool, sse,
       grpc, main
  <1>4. Lending'
    BY <1>1, <1>2, LendingStep DEF Typed, Handles, At, Placed, Begun, ReadEnd,
       Enter, pool, sse, grpc, main
  <1>5. Admitting'
    BY <1>1, <1>2, AdmittingStep DEF Typed, At, ReadEnd, Enter, pool, sse, grpc,
       main
  <1>6. Placed(c)'
    BY <1>1 DEF Typed, Placed, Begun, Over, At, ReadEnd, Enter, pool, sse, grpc,
       main
  <1>7. Events(c)' = Events(c) /\ Len(chan'[c]) <= Room
    BY <1>1 DEF Typed, Streamed, Events, ReadEnd, Enter, pool, sse, grpc, main
  <1>8. /\ pc'[c] \notin {"body", "ended"} => chan'[c] = <<>> /\ got'[c] = <<>>
        /\ (SseRuns(c) /\ At(c, "body"))' =>
             SseRuns(c) /\ At(c, "body") /\ made'[c] = made[c]
    BY <1>1 DEF Typed, Streamed, SseRuns, At, ReadEnd, Enter, pool, sse, grpc, main
  <1>9. Streamed(c)'
    BY <1>1, <1>7, <1>8, EventsKept
  <1>10. QED
    BY <1>2, <1>3, <1>4, <1>5, <1>6, <1>9, OneCallSteps

LEMMA StallKeeps ==
  ASSUME OrderInv, NEW c \in Calls, Stall(c)
  PROVE  OrderInv'
  <1>1. Typed /\ Lending /\ Admitting /\ Placed(c) /\ Streamed(c)
    BY DEF OrderInv
  <1>2. OthersSame(c)
    BY <1>1 DEF OthersSame, Same, Typed, Stall, pool, grpc, main
  <1>3. Typed'
    BY <1>1 DEF Typed, Kinds, Http, Places, Over, Stall, pool, grpc, main
  <1>4. Lending'
    BY <1>1, <1>2, LendingStep DEF Typed, Handles, At, Placed, Begun, Stall,
       pool, grpc, main
  <1>5. Admitting'
    BY <1>1, <1>2, AdmittingStep DEF Typed, At, Stall, pool, grpc, main
  <1>6. Placed(c)'
    BY <1>1 DEF Typed, Placed, Begun, Over, At, Stall, pool, grpc, main
  <1>7. Events(c)' = Events(c) /\ Len(chan'[c]) <= Room
    BY <1>1 DEF Typed, Streamed, Events, Stall, pool, grpc, main
  <1>8. /\ pc'[c] \notin {"body", "ended"} => chan'[c] = <<>> /\ got'[c] = <<>>
        /\ (SseRuns(c) /\ At(c, "body"))' =>
             SseRuns(c) /\ At(c, "body") /\ made'[c] = made[c]
    BY <1>1 DEF Typed, Streamed, SseRuns, At, Stall, pool, grpc, main
  <1>9. Streamed(c)'
    BY <1>1, <1>7, <1>8, EventsKept
  <1>10. QED
    BY <1>2, <1>3, <1>4, <1>5, <1>6, <1>9, OneCallSteps

LEMMA UnaryCallKeeps ==
  ASSUME OrderInv, NEW c \in Calls, UnaryCall(c)
  PROVE  OrderInv'
  <1>1. Typed /\ Lending /\ Admitting /\ Placed(c) /\ Streamed(c)
    BY DEF OrderInv
  <1>2. OthersSame(c)
    BY <1>1 DEF OthersSame, Same, Typed, UnaryCall, Enter, Take, pool, sse, grpc,
       main
  <1>3. Typed'
    BY <1>1 DEF Typed, Kinds, Http, Places, Over, UnaryCall, Enter, Take, pool,
       sse, grpc, main
  <1>4. Lending'
    BY <1>1, <1>2, LendingStep DEF Typed, Handles, At, Placed, Begun, UnaryCall,
       Enter, Take, pool, sse, grpc, main
  <1>5. Admitting'
    BY <1>1, <1>2, AdmittingStep DEF Typed, At, UnaryCall, Enter, Take, pool,
       sse, grpc, main
  <1>6. Placed(c)'
    BY <1>1 DEF Typed, Placed, Begun, Over, At, UnaryCall, Enter, Take, pool,
       sse, grpc, main
  <1>7. chan'[c] = <<>> /\ got'[c] = <<>>
    BY <1>1 DEF Typed, Streamed, At, UnaryCall, Enter, Take, pool, sse, grpc, main
  <1>8. (SseRuns(c) /\ At(c, "body"))' => made'[c] = 0
    BY <1>1 DEF Typed, Placed, Begun, SseRuns, At, UnaryCall, Enter, Take, pool,
       sse, grpc, main
  <1>9. Streamed(c)'
    BY <1>7, <1>8, NothingSent
  <1>10. QED
    BY <1>2, <1>3, <1>4, <1>5, <1>6, <1>9, OneCallSteps

LEMMA UnaryDoneKeeps ==
  ASSUME OrderInv, NEW c \in Calls, UnaryDone(c)
  PROVE  OrderInv'
  <1>1. Typed /\ Lending /\ Admitting /\ Placed(c) /\ Streamed(c)
    BY DEF OrderInv
  <1>2. OthersSame(c)
    BY <1>1 DEF OthersSame, Same, Typed, UnaryDone, Enter, GiveBack, sse, grpc, main
  <1>3. Typed'
    BY <1>1 DEF Typed, Kinds, Http, Places, Over, UnaryDone, Enter, GiveBack,
       sse, grpc, main
  <1>4. Lending'
    BY <1>1, <1>2, LendingStep DEF Typed, Handles, At, Placed, Begun, UnaryDone,
       Enter, GiveBack, sse, grpc, main
  <1>5. Admitting'
    BY <1>1, <1>2, AdmittingStep DEF Typed, At, UnaryDone, Enter, GiveBack, sse,
       grpc, main
  <1>6. Placed(c)'
    BY <1>1 DEF Typed, Placed, Begun, Over, At, UnaryDone, Enter, GiveBack, sse,
       grpc, main
  <1>7. chan'[c] = <<>> /\ got'[c] = <<>>
    BY <1>1 DEF Typed, Streamed, At, UnaryDone, Enter, GiveBack, sse, grpc, main
  <1>8. (SseRuns(c) /\ At(c, "body"))' => made'[c] = 0
    BY <1>1 DEF Typed, Placed, Begun, SseRuns, At, UnaryDone, Enter, GiveBack,
       sse, grpc, main
  <1>9. Streamed(c)'
    BY <1>7, <1>8, NothingSent
  <1>10. QED
    BY <1>2, <1>3, <1>4, <1>5, <1>6, <1>9, OneCallSteps

LEMMA StreamAdmitKeeps ==
  ASSUME OrderInv, NEW c \in Calls, StreamAdmit(c)
  PROVE  OrderInv'
  <1>1. Typed /\ Lending /\ Admitting /\ Placed(c) /\ Streamed(c)
    BY DEF OrderInv
  <1>2. OthersSame(c)
    BY <1>1 DEF OthersSame, Same, Typed, StreamAdmit, Enter, pool, sse, main
  <1>3. Typed'
    BY <1>1 DEF Typed, Kinds, Http, Places, Over, StreamAdmit, Enter, pool, sse,
       main
  <1>4. Lending'
    BY <1>1, <1>2, LendingStep DEF Typed, Handles, At, Placed, Begun,
       StreamAdmit, Enter, pool, sse, main
  <1>5. Admitting'
    BY <1>1, <1>2, AdmittingStep DEF Typed, At, StreamAdmit, Enter, pool, sse, main
  <1>6. Placed(c)'
    BY <1>1 DEF Typed, Placed, Begun, Over, At, StreamAdmit, Enter, pool, sse, main
  <1>7. chan'[c] = <<>> /\ got'[c] = <<>>
    BY <1>1 DEF Typed, Streamed, At, StreamAdmit, Enter, pool, sse, main
  <1>8. (SseRuns(c) /\ At(c, "body"))' => made'[c] = 0
    BY <1>1 DEF Typed, Placed, Begun, SseRuns, At, StreamAdmit, Enter, pool, sse,
       main
  <1>9. Streamed(c)'
    BY <1>7, <1>8, NothingSent
  <1>10. QED
    BY <1>2, <1>3, <1>4, <1>5, <1>6, <1>9, OneCallSteps

LEMMA StreamReturnedKeeps ==
  ASSUME OrderInv, NEW c \in Calls, StreamReturned(c)
  PROVE  OrderInv'
  <1>1. Typed /\ Lending /\ Admitting /\ Placed(c) /\ Streamed(c)
    BY DEF OrderInv
  <1>2. OthersSame(c)
    BY <1>1 DEF OthersSame, Same, Typed, StreamReturned, Enter, pool, sse, main
  <1>3. Typed'
    BY <1>1 DEF Typed, Kinds, Http, Places, Over, StreamReturned, Enter, pool,
       sse, main
  <1>4. Lending'
    BY <1>1, <1>2, LendingStep DEF Typed, Handles, At, Placed, Begun,
       StreamReturned, Enter, pool, sse, main
  <1>5. Admitting'
    BY <1>1, <1>2, AdmittingStep DEF Typed, At, StreamReturned, Enter, pool, sse,
       main
  <1>6. Placed(c)'
    BY <1>1 DEF Typed, Placed, Begun, Over, At, StreamReturned, Enter, pool, sse,
       main
  <1>7. chan'[c] = <<>> /\ got'[c] = <<>>
    BY <1>1 DEF Typed, Streamed, At, StreamReturned, Enter, pool, sse, main
  <1>8. (SseRuns(c) /\ At(c, "body"))' => made'[c] = 0
    BY <1>1 DEF Typed, Placed, Begun, SseRuns, At, StreamReturned, Enter, pool,
       sse, main
  <1>9. Streamed(c)'
    BY <1>7, <1>8, NothingSent
  <1>10. QED
    BY <1>2, <1>3, <1>4, <1>5, <1>6, <1>9, OneCallSteps

LEMMA StreamConfigKeeps ==
  ASSUME OrderInv, NEW c \in Calls, StreamConfig(c)
  PROVE  OrderInv'
  <1>1. Typed /\ Lending /\ Admitting /\ Placed(c) /\ Streamed(c)
    BY DEF OrderInv
  <1>2. OthersSame(c)
    BY <1>1 DEF OthersSame, Same, Typed, StreamConfig, Enter, pool, sse, main
  <1>3. Typed'
    BY <1>1 DEF Typed, Kinds, Http, Places, Over, StreamConfig, Enter, pool, sse,
       main
  <1>4. Lending'
    BY <1>1, <1>2, LendingStep DEF Typed, Handles, At, Placed, Begun,
       StreamConfig, Enter, pool, sse, main
  <1>5. Admitting'
    BY <1>1, <1>2, AdmittingStep DEF Typed, At, StreamConfig, Enter, pool, sse, main
  <1>6. Placed(c)'
    BY <1>1 DEF Typed, Placed, Begun, Over, At, StreamConfig, Enter, pool, sse, main
  <1>7. chan'[c] = <<>> /\ got'[c] = <<>>
    BY <1>1 DEF Typed, Streamed, At, StreamConfig, Enter, pool, sse, main
  <1>8. (SseRuns(c) /\ At(c, "body"))' => made'[c] = 0
    BY <1>1 DEF Typed, Placed, Begun, SseRuns, At, StreamConfig, Enter, pool,
       sse, main
  <1>9. Streamed(c)'
    BY <1>7, <1>8, NothingSent
  <1>10. QED
    BY <1>2, <1>3, <1>4, <1>5, <1>6, <1>9, OneCallSteps

LEMMA StreamEndsKeeps ==
  ASSUME OrderInv, NEW c \in Calls, StreamEnds(c)
  PROVE  OrderInv'
  <1>1. Typed /\ Lending /\ Admitting /\ Placed(c) /\ Streamed(c)
    BY DEF OrderInv
  <1>2. OthersSame(c)
    BY <1>1 DEF OthersSame, Same, Typed, StreamEnds, Enter, pool, sse, main
  <1>3. Typed'
    BY <1>1 DEF Typed, Kinds, Http, Places, Over, StreamEnds, Enter, pool, sse, main
  <1>4. Lending'
    BY <1>1, <1>2, LendingStep DEF Typed, Handles, At, Placed, Begun, StreamEnds,
       Enter, pool, sse, main
  <1>5. Admitting'
    BY <1>1, <1>2, AdmittingStep DEF Typed, At, StreamEnds, Enter, pool, sse, main
  <1>6. Placed(c)'
    BY <1>1 DEF Typed, Placed, Begun, Over, At, StreamEnds, Enter, pool, sse, main
  <1>7. chan'[c] = <<>> /\ got'[c] = <<>>
    BY <1>1 DEF Typed, Streamed, At, StreamEnds, Enter, pool, sse, main
  <1>8. (SseRuns(c) /\ At(c, "body"))' => made'[c] = 0
    BY <1>1 DEF Typed, Placed, Begun, SseRuns, At, StreamEnds, Enter, pool, sse,
       main
  <1>9. Streamed(c)'
    BY <1>7, <1>8, NothingSent
  <1>10. QED
    BY <1>2, <1>3, <1>4, <1>5, <1>6, <1>9, OneCallSteps

(* What try_send does: nothing, or one event more.                         *)
LEMMA SendTo ==
  ASSUME Typed, NEW c \in Calls, Streamed(c), SseRuns(c), NEW type, Send(c, type),
         [type |-> type, n |-> made'[c]] \in Event,
         got' = got, pc' = pc, made'[c] \in {made[c], made[c] + 1},
         \/ type = "partial" /\ made'[c] = made[c] + 1
            /\ (SendFails(c) => worker'[c] = "over")
         \/ type \in {"final", "error"} /\ made'[c] = made[c] /\ worker'[c] = "over"
  PROVE  chan' \in [Calls -> Seq(Event)] /\ Streamed(c)' /\ \A d \in Calls \ {c} : chan'[d] = chan[d]
  <1>1. chan \in [Calls -> Seq(Event)] /\ made[c] \in Nat /\ pc \in [Calls -> Places]
    BY DEF Typed
  <1>2. CASE SendFails(c)
    <2>1. chan' = chan /\ Events(c)' = Events(c)
      BY <1>2 DEF Send, Events
    <2>2. At(c, "body")' => ~SseRuns(c)'
      BY <1>2 DEF SseRuns, At
    <2>3. Streamed(c)'
      BY <2>1, <2>2, EventsKept DEF Streamed, At
    <2>4. QED
      BY <1>1, <2>1, <2>3
  <1>3. CASE ~SendFails(c)
    <2> DEFINE event == [type |-> type, n |-> made'[c]]
    <2>1. chan' = [chan EXCEPT ![c] = Append(@, event)] /\ At(c, "body") /\ Len(chan[c]) # Room
      BY <1>3 DEF Send, SendFails
    <2>2. chan'[c] = Append(chan[c], event) /\ event.type = type /\ event.n = made'[c]
      BY <1>1, <2>1
    <2>3. Append(chan[c], event) \in Seq(Event)
      BY <1>1, AppendProperties
    <2>4. chan' \in [Calls -> Seq(Event)] /\ \A d \in Calls \ {c} : chan'[d] = chan[d]
      BY <1>1, <2>1, <2>3
    <2>5. At(c, "body")' /\ (type # "partial" => ~SseRuns(c)')
      BY <2>1 DEF At, SseRuns
    <2>6. Streamed(c)'
      <3> HIDE DEF event
      <3> QED
        BY <2>1, <2>2, <2>5, EventAdded DEF event
    <2>7. QED
      BY <2>4, <2>6
  <1>4. QED
    BY <1>2, <1>3

LEMMA SseChunkKeeps ==
  ASSUME OrderInv, NEW c \in Calls, SseChunk(c)
  PROVE  OrderInv'
  <1>1. Typed /\ Lending /\ Admitting /\ Placed(c) /\ Streamed(c)
    BY DEF OrderInv
  <1>2. /\ SseRuns(c) /\ chunks[c] > 0 /\ chunks' = [chunks EXCEPT ![c] = @ - 1]
        /\ pc' = pc /\ kind' = kind /\ got' = got /\ open' = open
        /\ UNCHANGED <<pool, stalled, grpc, main>>
    BY DEF SseChunk
  <1>3. CASE UNCHANGED <<made, chan, worker>>
    <2>1. OthersSame(c)
      BY <1>1, <1>2, <1>3 DEF OthersSame, Same, Typed
    <2>2. Typed'
      BY <1>1, <1>2, <1>3 DEF Typed, grpc, main
    <2>3. Lending'
      BY <1>1, <1>2, <1>3, <2>1, LendingStep DEF Handles, At
    <2>4. Admitting'
      BY <1>1, <1>2, <2>1, AdmittingStep DEF At, grpc
    <2>5. Placed(c)'
      BY <1>1, <1>2, <1>3, MaxChunksAssumption DEF Typed, Placed
    <2>6. Streamed(c)'
      BY <1>1, <1>2, <1>3, EventsKept DEF Events, Streamed, SseRuns, At
    <2>7. QED
      BY <2>1, <2>2, <2>3, <2>4, <2>5, <2>6, OneCallSteps
  <1>4. CASE /\ made' = [made EXCEPT ![c] = @ + 1]
             /\ Send(c, "partial")
             /\ IF SendFails(c) THEN Work(c, "over") ELSE UNCHANGED worker
    <2>1. /\ made \in [Calls -> Nat] /\ chunks \in [Calls -> Nat]
          /\ worker \in [Calls -> {"none", "run", "over", "returned", "done", "error"}]
      BY <1>1 DEF Typed
    <2>2. /\ made'[c] = made[c] + 1 /\ chunks'[c] = chunks[c] - 1
          /\ made' \in [Calls -> Nat] /\ chunks' \in [Calls -> Nat]
      BY <1>2, <1>4, <2>1
    <2>3. /\ worker' \in [Calls -> {"none", "run", "over", "returned", "done", "error"}]
          /\ SendFails(c) => worker'[c] = "over"
          /\ worker[c] = "run" /\ worker'[c] \in {"run", "over"}
          /\ \A d \in Calls \ {c} : worker'[d] = worker[d]
      BY <1>2, <1>4, <2>1 DEF Work, SseRuns
    <2>4. [type |-> "partial", n |-> made'[c]] \in Event
      <3>1. made'[c] \in 0..MaxChunks
        BY <1>1, <1>2, <2>1, <2>2, MaxChunksAssumption DEF Placed
      <3>2. QED
        BY <3>1 DEF Event
    <2>5. chan' \in [Calls -> Seq(Event)] /\ Streamed(c)' /\ \A d \in Calls \ {c} : chan'[d] = chan[d]
      BY <1>1, <1>2, <1>4, <2>2, <2>3, <2>4, SendTo
    <2>6. OthersSame(c)
      BY <1>2, <1>4, <2>1, <2>3, <2>5 DEF OthersSame, Same
    <2>7. Typed'
      BY <1>1, <1>2, <2>2, <2>3, <2>5 DEF Typed, grpc, main
    <2>8. Lending'
      BY <1>1, <1>2, <2>3, <2>6, LendingStep DEF Handles, At
    <2>9. Admitting'
      BY <1>1, <1>2, <2>6, AdmittingStep DEF At, grpc
    <2>10. Placed(c)'
      BY <1>1, <1>2, <2>1, <2>2, <2>3 DEF Placed
    <2>11. QED
      BY <2>5, <2>6, <2>7, <2>8, <2>9, <2>10, OneCallSteps
  <1>5. QED
    BY <1>3, <1>4 DEF SseChunk

(* The end of the task, with an event or without.                          *)
LEMMA SseEndKeeps ==
  ASSUME OrderInv, NEW c \in Calls, SseFlush(c) \/ SseFails(c)
  PROVE  OrderInv'
  <1>1. Typed /\ Lending /\ Admitting /\ Placed(c) /\ Streamed(c)
    BY DEF OrderInv
  <1>2. /\ SseRuns(c) /\ worker' = [worker EXCEPT ![c] = "over"]
        /\ made' = made /\ chunks' = chunks
        /\ pc' = pc /\ kind' = kind /\ got' = got /\ open' = open
        /\ UNCHANGED <<pool, stalled, grpc, main>>
    BY DEF SseFlush, SseFails, Work
  <1>3. PICK type \in {"final", "error"} : Send(c, type) \/ UNCHANGED chan
    BY DEF SseFlush, SseFails
  <1>4. /\ worker' \in [Calls -> {"none", "run", "over", "returned", "done", "error"}]
        /\ worker[c] = "run" /\ worker'[c] = "over"
        /\ \A d \in Calls \ {c} : worker'[d] = worker[d]
    BY <1>1, <1>2 DEF Typed, SseRuns
  <1>5. chan' \in [Calls -> Seq(Event)] /\ Streamed(c)' /\ \A d \in Calls \ {c} : chan'[d] = chan[d]
    <2>1. CASE UNCHANGED chan
      <3>1. Streamed(c)'
        BY <1>1, <1>2, <1>4, <2>1, EventsKept DEF Events, Streamed, SseRuns, At
      <3>2. QED
        BY <1>1, <2>1, <3>1 DEF Typed
    <2>2. CASE Send(c, type)
      <3>1. made'[c] = made[c] /\ [type |-> type, n |-> made'[c]] \in Event
        BY <1>1, <1>2, MaxChunksAssumption DEF Typed, Placed, Event
      <3>2. QED
        BY <1>1, <1>2, <1>3, <1>4, <2>2, <3>1, SendTo
    <2>3. QED
      BY <1>3, <2>1, <2>2
  <1>6. OthersSame(c)
    BY <1>2, <1>4, <1>5 DEF OthersSame, Same
  <1>7. Typed'
    BY <1>1, <1>2, <1>4, <1>5 DEF Typed, grpc, main
  <1>8. Lending'
    BY <1>1, <1>2, <1>4, <1>6, LendingStep DEF Handles, At
  <1>9. Admitting'
    BY <1>1, <1>2, <1>6, AdmittingStep DEF At, grpc
  <1>10. Placed(c)'
    BY <1>1, <1>2, <1>4 DEF Placed
  <1>11. QED
    BY <1>5, <1>6, <1>7, <1>8, <1>9, <1>10, OneCallSteps

LEMMA ReadKeeps ==
  ASSUME OrderInv, NEW c \in Calls, Read(c)
  PROVE  OrderInv'
  <1>1. Typed /\ Lending /\ Admitting /\ Placed(c) /\ Streamed(c)
    BY DEF OrderInv
  <1>2. /\ At(c, "body") /\ chan[c] # <<>>
        /\ got' = [got EXCEPT ![c] = Append(@, Head(chan[c]))]
        /\ chan' = [chan EXCEPT ![c] = Tail(@)]
        /\ UNCHANGED <<kind, pc, worker, pool, chunks, made, open, stalled, grpc, main>>
    BY DEF Read
  <1>3. /\ chan \in [Calls -> Seq(Event)] /\ got \in [Calls -> Seq(Event)]
        /\ chan[c] \in Seq(Event) /\ got[c] \in Seq(Event)
    BY <1>1 DEF Typed
  <1>4. /\ Head(chan[c]) \in Event /\ Tail(chan[c]) \in Seq(Event)
        /\ Len(Tail(chan[c])) = Len(chan[c]) - 1
        /\ Append(got[c], Head(chan[c])) \in Seq(Event)
    <2>1. /\ Head(chan[c]) \in Event /\ Tail(chan[c]) \in Seq(Event)
          /\ Len(Tail(chan[c])) = Len(chan[c]) - 1
      BY <1>2, <1>3, HeadTailProperties
    <2>2. QED
      BY <1>3, <2>1, AppendProperties
  <1>5. OthersSame(c)
    BY <1>2, <1>3 DEF OthersSame, Same
  <1>6. Typed'
    BY <1>1, <1>2, <1>3, <1>4 DEF Typed, grpc, main
  <1>7. Lending'
    BY <1>1, <1>2, <1>5, LendingStep DEF Handles, At
  <1>8. Admitting'
    BY <1>1, <1>2, <1>5, AdmittingStep DEF At, grpc
  <1>9. Placed(c)'
    BY <1>1, <1>2 DEF Placed
  <1>10. Streamed(c)'
    <2>1. got'[c] = Append(got[c], Head(chan[c])) /\ chan'[c] = Tail(chan[c])
      BY <1>2, <1>3
    <2>2. \A s, t \in Seq(Event) : t # <<>> => Append(s, Head(t)) \o Tail(t) = s \o t
      BY HeadMoves
    <2>3. Events(c)' = Events(c)
      BY <1>2, <1>3, <2>1, <2>2 DEF Events
    <2>4. Len(chan'[c]) <= Room
      <3>1. Len(chan[c]) \in Nat /\ Len(chan[c]) <= Room /\ Room \in Nat
        BY <1>1, <1>3, SizesAssumption DEF Streamed
      <3>2. QED
        BY <1>4, <2>1, <3>1
    <2>5. QED
      BY <1>1, <1>2, <2>3, <2>4, EventsKept DEF SseRuns, At
  <1>11. QED
    BY <1>5, <1>6, <1>7, <1>8, <1>9, <1>10, OneCallSteps

(* The shutdown, the exit and a stutter leave the calls alone.             *)
LEMMA CallsRest ==
  ASSUME OrderInv, UNCHANGED <<kind, pc, worker, pool, sse, grpc>>,
         cancelled' \in BOOLEAN, exited' \in BOOLEAN
  PROVE  OrderInv'
  <1>1. \A c \in Calls : Same(c)
    BY DEF Same, sse
  <1>2. Typed'
    BY DEF OrderInv, Typed, sse, grpc
  <1>3. Lending' /\ Admitting'
    BY DEF OrderInv, Lending, Admitting, Handling, Admitted, At, pool, grpc
  <1>4. QED
    BY <1>1, <1>2, <1>3, SameKeeps DEF OrderInv

-----------------------------------------------------------------------------
LEMMA InitOrderInv == RequestsInit => OrderInv
  <1> SUFFICES ASSUME RequestsInit PROVE OrderInv
    OBVIOUS
  <1>1. Typed
    <2>1. <<>> \in Seq(Event) /\ 0 \in Nat
      BY EmptySeq
    <2>2. /\ chan \in [Calls -> Seq(Event)] /\ got \in [Calls -> Seq(Event)]
          /\ chunks \in [Calls -> Nat] /\ made \in [Calls -> Nat]
      BY <2>1 DEF RequestsInit
    <2>3. QED
      BY <2>2 DEF RequestsInit, Typed, Kinds, Places, Over
  <1>2. Handling = {} /\ Admitted = {}
    BY DEF RequestsInit, Handling, Admitted, At
  <1>3. Lending /\ Admitting
    BY <1>2, FS_EmptySet, SizesAssumption DEF RequestsInit, Lending, Admitting
  <1>4. ASSUME NEW c \in Calls PROVE Placed(c) /\ Streamed(c)
    <2>1. pc[c] = "idle" /\ worker[c] = "none" /\ made[c] = 0 /\ chunks[c] = 0
          /\ chan[c] = <<>> /\ got[c] = <<>>
      BY DEF RequestsInit
    <2>2. Events(c) = <<>> /\ Len(Events(c)) = 0
      BY <2>1 DEF Events
    <2>3. Room \in Nat
      BY SizesAssumption
    <2>4. QED
      BY <2>1, <2>2, <2>3, MaxChunksAssumption DEF Placed, Streamed, Ordered, At
  <1>5. QED
    BY <1>1, <1>3, <1>4 DEF OrderInv

LEMMA NextOrderInv == OrderInv /\ [RequestsNext]_requestVars => OrderInv'
  <1> SUFFICES ASSUME OrderInv, [RequestsNext]_requestVars PROVE OrderInv'
    OBVIOUS
  <1>1. ASSUME NEW c \in Calls, Handler(c) PROVE OrderInv'
    BY <1>1, CheckoutKeeps, CheckoutTimeoutKeeps, OnceAnswersKeeps, UnaryDoneKeeps,
       StreamReturnedKeeps DEF Handler
  <1>2. ASSUME NEW c \in Calls, Worker(c) \/ SseFails(c) PROVE OrderInv'
    BY <1>2, OnceWorksKeeps, SseChunkKeeps, SseEndKeeps, SseCancelledKeeps,
       SseReturnsKeeps, SseHangsUpKeeps DEF Worker
  <1>3. ASSUME NEW c \in Calls, Reader(c) PROVE OrderInv'
    BY <1>3, ReadKeeps, ReadEndKeeps DEF Reader
  <1>4. ASSUME NEW c \in Calls, Client(c) PROVE OrderInv'
    BY <1>4, HttpCallKeeps, UnaryCallKeeps, StreamAdmitKeeps, DisconnectKeeps,
       StallKeeps, StreamConfigKeeps, StreamEndsKeeps DEF Client
  <1>5. CASE Shutdown \/ Exited
    <2>1. cancelled' \in BOOLEAN /\ exited' \in BOOLEAN
      BY <1>5 DEF OrderInv, Typed, Shutdown, Exited
    <2>2. QED
      BY <1>5, <2>1, CallsRest DEF Shutdown, Exited
  <1>6. CASE UNCHANGED requestVars
    <2>1. cancelled' \in BOOLEAN /\ exited' \in BOOLEAN
      BY <1>6 DEF OrderInv, Typed, requestVars, main
    <2>2. QED
      BY <1>6, <2>1, CallsRest DEF requestVars
  <1>7. QED
    BY <1>1, <1>2, <1>3, <1>4, <1>5, <1>6 DEF RequestsNext

LEMMA OrderInvImplies == OrderInv => SseInOrder
  <1> SUFFICES ASSUME OrderInv PROVE SseInOrder
    OBVIOUS
  <1>1. Typed /\ Lending /\ Admitting /\ \A c \in Calls : Placed(c) /\ Streamed(c)
    BY DEF OrderInv
  <1>2. chunks \in [Calls -> 0..MaxChunks] /\ made \in [Calls -> 0..MaxChunks]
    <2>1. \A c \in Calls : made[c] \in 0..MaxChunks /\ chunks[c] \in 0..MaxChunks
      BY <1>1, MaxChunksAssumption DEF Typed, Placed
    <2>2. QED
      BY <1>1, <2>1 DEF Typed
  <1>3. \A c \in Calls : Events(c) \in Seq(Event) /\ Len(chan[c]) <= Room
    BY <1>1, ConcatProperties DEF Typed, Streamed, Events
  <1>4. permits \in 0..Permits
    <2>1. Cardinality(Admitted) \in Nat
      BY <1>1, FS_CardinalityType DEF Admitting
    <2>2. QED
      BY <1>1, <2>1, SizesAssumption DEF Admitting
  <1>5. {open, stalled, pipelines} \subseteq SUBSET Calls
    BY <1>1 DEF Typed
  <1>6. /\ held \subseteq Calls /\ free \in Nat /\ free + Cardinality(held) = Triplets
        /\ \A c \in held : worker[c] \in {"run", "over"} \/ At(c, "infer")
    BY <1>1 DEF Lending, Handling
  <1>7. RequestsTypeOK
    BY <1>1, <1>2, <1>3, <1>4, <1>5, <1>6 DEF RequestsTypeOK, Typed
  <1>8. QED
    BY <1>1, <1>7 DEF SseInOrder, Streamed

(***************************************************************************)
(* However slowly an SSE client reads and whenever it leaves, it has the   *)
(* segments in order and without a gap, a final or an error comes last,    *)
(* and a final only after every segment (SseInOrder).  The triplets and    *)
(* permits add up besides (RequestsTypeOK).                                *)
(***************************************************************************)
THEOREM SseStaysInOrder == RequestsSpec => []SseInOrder
  <1>1. RequestsSpec => []OrderInv
    BY InitOrderInv, NextOrderInv, PTL DEF RequestsSpec
  <1>2. QED
    BY <1>1, OrderInvImplies, PTL

=============================================================================
