--------------------------- MODULE WorkerListProofs ---------------------------
(***************************************************************************)
(* What the steps of the workers, and the operations on the list, preserve *)
(* whoever performs them: types, and that events stay in the queues.       *)
(***************************************************************************)
EXTENDS WorkerList, SequenceTheorems, TLAPS

(* Every event queued is an event, the struct nobody filled in is not one. *)
LEMMA UninitialisedIsNoEvent == Uninitialised \notin Event
BY DEF Uninitialised, Event, Part, Worker

(* The kinds of the workers are device classes.                            *)
LEMMA KindIsKind == ASSUME NEW w \in Worker PROVE Kind[w] \in Kinds
BY WorkersAssumption

(* Taking the head off a queue leaves a queue.                             *)
LEMMA HandOverType ==
    ASSUME NEW w \in Worker, captured \in [Worker -> Seq(Nat)]
    PROVE  HandOver(w) \in Seq(Nat)
BY DEF HandOver

(* What the readout would find is a trigger's number.                      *)
LEMMA ExposedType ==
    ASSUME NEW w \in Worker, WorkersTypeOK
    PROVE  Exposed(w) \in Nat
<1>1. captured[w] \in Seq(Nat) /\ memory[w] \in Nat
  BY DEF WorkersTypeOK
<1>2. CASE captured[w] # <<>>
  BY <1>1, <1>2 DEF Exposed
<1>3. CASE captured[w] = <<>>
  BY <1>1, <1>3 DEF Exposed
<1> QED BY <1>2, <1>3

(* Only a queue of one is empty without its head.                          *)
LEMMA TailOfMore ==
    ASSUME NEW S, NEW queue \in Seq(S), queue # <<>>, Len(queue) # 1
    PROVE  Tail(queue) # <<>>
<1> DEFINE rest == Tail(queue)
<1>1. rest \in Seq(S) /\ Len(rest) = Len(queue) - 1 /\ Len(queue) \in Nat \ {0}
  BY HeadTailProperties
<1> HIDE DEF rest
<1>2. Len(rest) # 0
  BY <1>1
<1>3. rest # <<>>
  BY <1>1, <1>2
<1> QED BY <1>3 DEF rest

(* Dropping the oldest event of an overlong queue leaves it with events.   *)
LEMMA DropOldKeeps ==
    ASSUME NEW w \in Worker, NEW queue \in Seq(Event), queue # <<>>
    PROVE  DropOld(w, queue) \in Seq(Event) \ {<<>>}
<1>1. CASE Device(w).bounded /\ Len(queue) > MaxQueueSize
  <2>1. Len(queue) > 1 BY <1>1, WorkersAssumption
  <2>2. Tail(queue) \in Seq(Event) /\ Len(Tail(queue)) = Len(queue) - 1
    OBVIOUS
  <2>3. Tail(queue) # <<>>
    BY <2>1, <2>2
  <2> QED BY <1>1, <2>2, <2>3 DEF DropOld
<1>2. CASE ~(Device(w).bounded /\ Len(queue) > MaxQueueSize)
  BY <1>2 DEF DropOld
<1> QED BY <1>1, <1>2

(* Half of a readout leaves the static bundles made of parts.              *)
LEMMA ReadHalfType ==
    ASSUME WorkersTypeOK, NEW w \in Worker, NEW half \in 1..2, ReadHalf(w, half)
    PROVE  static_bundle' \in [Kinds -> [1..2 -> Event]]
<1>1. {<<w, memory[w]>>} \in Event
  BY DEF WorkersTypeOK, Event, Part
<1> QED BY <1>1 DEF ReadHalf, WorkersTypeOK

(* What every step that lets queues alone or adds to them has in common.   *)
KeepsEvents ==
    \A v \in Worker :
        /\ data_queue[v] # <<>> => data_queue'[v] # <<>>
        /\ has_event'[v] => has_event[v] \/ data_queue'[v] # <<>>

-----------------------------------------------------------------------------
(* A step of a worker's own thread.                                        *)

(* A pushed event is an event, and its queue is not empty.                 *)
LEMMA PushStep ==
    ASSUME WorkersTypeOK, NEW w \in Worker, Push(w)
    PROVE  WorkersTypeOK' /\ KeepsEvents
<1> DEFINE event == static_bundle[Kind[w]][1] \cup static_bundle[Kind[w]][2]
           queue == DropOld(w, Append(data_queue[w], event))
<1>1. event \in Event
  BY KindIsKind DEF WorkersTypeOK, Event
<1>2. data_queue[w] \in Seq(Event)
  BY DEF WorkersTypeOK
<1>3. Append(data_queue[w], event) \in Seq(Event) \ {<<>>}
  <2> HIDE DEF event
  <2>1. Append(data_queue[w], event) \in Seq(Event)
    BY <1>1, <1>2
  <2>2. Len(Append(data_queue[w], event)) > 0
    BY <1>1, <1>2
  <2> QED BY <2>1, <2>2
<1>4. queue \in Seq(Event) \ {<<>>}
  BY <1>3, DropOldKeeps
<1>5. /\ data_queue' = [data_queue EXCEPT ![w] = queue]
      /\ has_event' = [has_event EXCEPT ![w] = TRUE]
      /\ work' = [work EXCEPT ![w] = "poll"]
      /\ UNCHANGED <<deviceVars, controlVars, static_bundle>>
  BY DEF Push
<1> HIDE DEF queue
<1>6. WorkersTypeOK'
  BY <1>4, <1>5 DEF WorkersTypeOK, deviceVars, controlVars
<1>7. KeepsEvents
  BY <1>4, <1>5 DEF WorkersTypeOK, KeepsEvents
<1> QED BY <1>6, <1>7

(* Every step of WorkLoop keeps the types and the events queued.           *)
LEMMA WorkLoopStep ==
    ASSUME WorkersTypeOK, NEW w \in Worker, WorkLoop(w)
    PROVE  WorkersTypeOK' /\ KeepsEvents
<1>1. CASE Dump(w)
  <2>1. HandOver(w) \in Seq(Nat) BY HandOverType DEF WorkersTypeOK
  <2> QED BY <1>1, <2>1 DEF Dump, WorkersTypeOK, KeepsEvents, controlVars, queueVars
<1>2. CASE Poll(w)
  <2>1. HandOver(w) \in Seq(Nat) BY HandOverType DEF WorkersTypeOK
  <2>2. Exposed(w) \in Nat BY ExposedType
  <2> QED BY <1>2, <2>1, <2>2
          DEF Poll, WorkersTypeOK, KeepsEvents, controlVars, queueVars
<1>3. CASE Read(w)
  <2>1. static_bundle' \in [Kinds -> [1..2 -> Event]]
    BY <1>3, ReadHalfType DEF Read
  <2> QED BY <1>3, <2>1
          DEF Read, WorkersTypeOK, KeepsEvents, deviceVars, controlVars, queueVars
<1>4. CASE Finish(w)
  <2>1. static_bundle' \in [Kinds -> [1..2 -> Event]]
    BY <1>4, ReadHalfType DEF Finish
  <2>2. HandOver(w) \in Seq(Nat) BY HandOverType DEF WorkersTypeOK
  <2> QED BY <1>4, <2>1, <2>2
          DEF Finish, WorkersTypeOK, KeepsEvents, controlVars, queueVars
<1>5. CASE Push(w)
  BY <1>5, PushStep
<1>6. CASE Exit(w)
  BY <1>6 DEF Exit, WorkersTypeOK, KeepsEvents, controlVars, queueVars
<1> QED BY <1>1, <1>2, <1>3, <1>4, <1>5, <1>6 DEF WorkLoop

(* A trigger changes no queue.                                             *)
LEMMA TriggerStepType ==
    ASSUME WorkersTypeOK, NEW S \in SUBSET Worker, Trigger(S)
    PROVE  WorkersTypeOK' /\ KeepsEvents
<1>1. triggers + 1 \in Nat /\ \A w \in Worker : Append(captured[w], triggers + 1) \in Seq(Nat)
  BY DEF WorkersTypeOK
<1> QED BY <1>1 DEF Trigger, WorkersTypeOK, KeepsEvents, controlVars, queueVars

-----------------------------------------------------------------------------
(* The operations other threads perform on a worker.                       *)

(* Starting and stopping a worker keeps types and queues.                  *)
LEMMA ControlType ==
    ASSUME WorkersTypeOK, NEW w \in Worker,
           \/ StartThread(w) \/ AskToStop(w)
           \/ SetGoTime(w, TRUE) \/ SetGoTime(w, FALSE)
    PROVE  WorkersTypeOK' /\ UNCHANGED queueVars
<1>1. CASE StartThread(w)
  BY <1>1 DEF StartThread, WorkersTypeOK, queueVars
<1>2. CASE AskToStop(w)
  BY <1>2 DEF AskToStop, WorkersTypeOK, queueVars, deviceVars
<1>3. CASE SetGoTime(w, TRUE)
  BY <1>3 DEF SetGoTime, WorkersTypeOK, queueVars, deviceVars
<1>4. CASE SetGoTime(w, FALSE)
  BY <1>4 DEF SetGoTime, WorkersTypeOK, queueVars, deviceVars
<1> QED BY <1>1, <1>2, <1>3, <1>4

(* PopEvent gives an event if the queue has one.                           *)
LEMMA PopEventType ==
    ASSUME WorkersTypeOK, NEW w \in Worker, PopEvent(w)
    PROVE  /\ WorkersTypeOK'
           /\ Popped(w) \in Event \cup {Uninitialised}
           /\ data_queue[w] # <<>> => Popped(w) \in Event
<1>1. data_queue[w] \in Seq(Event)
  BY DEF WorkersTypeOK
<1>2. data_queue[w] # <<>> => /\ Head(data_queue[w]) \in Event
                              /\ Tail(data_queue[w]) \in Seq(Event)
  BY <1>1
<1>3. WorkersTypeOK'
  BY <1>1, <1>2 DEF PopEvent, WorkersTypeOK, deviceVars, controlVars
<1> QED BY <1>2, <1>3 DEF Popped

(* FlushEvents keeps the types in both its steps.                          *)
LEMMA FlushType ==
    ASSUME WorkersTypeOK, NEW w \in Worker, ClearQueue(w) \/ ClearFlag(w)
    PROVE  WorkersTypeOK'
<1>1. CASE ClearQueue(w)
  BY <1>1 DEF ClearQueue, WorkersTypeOK, deviceVars, controlVars
<1>2. CASE ClearFlag(w)
  BY <1>2 DEF ClearFlag, WorkersTypeOK, deviceVars, controlVars
<1> QED BY <1>1, <1>2

-----------------------------------------------------------------------------
(* The operations on the list, performed by thread t of the threads T at   *)
(* labels of L: types, and that no other thread is moved.                  *)

ListTypeOK(T, L) ==
    /\ WorkersTypeOK
    /\ pc \in [T -> L] /\ idx \in [T -> Worker]
    /\ bundle \in Seq(Event \cup {Uninitialised})

(* How an operation moves its thread.                                      *)
Moves(t, here, after) ==
    \/ NextWorker(t, here, after)
    \/ Goto(t, here)
    \/ pc' = [pc EXCEPT ![t] = here] /\ UNCHANGED idx

(* A move keeps the types of the threads' places: an index stays among the *)
(* workers.                                                                *)
LEMMA MovesType ==
    ASSUME NEW T, NEW L, pc \in [T -> L], idx \in [T -> Worker],
           NEW t \in T, NEW here \in L, NEW after \in L, Moves(t, here, after)
    PROVE  pc' \in [T -> L] /\ idx' \in [T -> Worker]
<1>0. 1 \in Worker
  BY WorkersAssumption DEF Worker
<1>1. CASE idx[t] # NWorkers /\ NextWorker(t, here, after)
  <2>1. idx[t] + 1 \in Worker
    BY <1>1, WorkersAssumption DEF Worker
  <2> QED BY <1>1, <2>1 DEF NextWorker
<1>2. CASE Goto(t, here) \/ Goto(t, after)
  BY <1>0, <1>2 DEF Goto
<1>3. CASE pc' = [pc EXCEPT ![t] = here] /\ UNCHANGED idx
  BY <1>3
<1> QED BY <1>1, <1>2, <1>3 DEF Moves, NextWorker

(* A thread's step moves no other thread.                                  *)
LEMMA MovesNoOther ==
    ASSUME NEW T, NEW L, pc \in [T -> L], idx \in [T -> Worker],
           NEW t \in T, NEW u \in T \ {t}, NEW here, NEW after, Moves(t, here, after)
    PROVE  pc'[u] = pc[u] /\ idx'[u] = idx[u]
BY DEF Moves, NextWorker, Goto

(* The checks.                                                             *)
LEMMA ChecksType ==
    ASSUME NEW T, NEW L, ListTypeOK(T, L),
           NEW t \in T, NEW here \in L, NEW yes \in L, NEW no \in L,
           \/ AnyWorkersHaveEvent(t, here, yes, no)
           \/ AllWorkersHaveEvent(t, here, yes, no)
           \/ AnyWorkersHaveMultiEvent(t, here, yes, no)
    PROVE  ListTypeOK(T, L)'
<1>1. UNCHANGED <<workerVars, bundle>>
  BY DEF AnyWorkersHaveEvent, AllWorkersHaveEvent, AnyWorkersHaveMultiEvent
<1>2. \E label, after \in L : Moves(t, label, after)
  BY DEF AnyWorkersHaveEvent, AllWorkersHaveEvent, AnyWorkersHaveMultiEvent, Moves
<1>3. pc' \in [T -> L] /\ idx' \in [T -> Worker]
  BY <1>2, MovesType DEF ListTypeOK
<1>4. WorkersTypeOK'
  BY <1>1 DEF ListTypeOK, WorkersTypeOK, workerVars
<1> QED BY <1>1, <1>3, <1>4 DEF ListTypeOK

(* Starting and stopping: no queue is touched.                             *)
LEMMA StartStopType ==
    ASSUME NEW T, NEW L, ListTypeOK(T, L),
           NEW t \in T, NEW here \in L, NEW join \in L, NEW after \in L,
           \/ StartThreads(t, here, after) \/ StartWorkers(t, here, after)
           \/ StopWorkers(t, here, after) \/ StopThreads(t, here, join, after)
    PROVE  ListTypeOK(T, L)' /\ UNCHANGED <<data_queue, has_event, bundle>>
<1>0. idx[t] \in Worker /\ WorkersTypeOK
  BY DEF ListTypeOK
<1>1. WorkersTypeOK' /\ UNCHANGED <<data_queue, has_event>>
  <2>1. \/ StartThread(idx[t]) \/ AskToStop(idx[t])
        \/ SetGoTime(idx[t], TRUE) \/ SetGoTime(idx[t], FALSE)
        \/ UNCHANGED workerVars
    BY DEF StartThreads, StartWorkers, StopWorkers, StopThreads
  <2>2. CASE UNCHANGED workerVars
    BY <1>0, <2>2 DEF WorkersTypeOK, workerVars
  <2>3. CASE ~UNCHANGED workerVars
    BY <1>0, <2>1, <2>3, ControlType DEF queueVars
  <2> QED BY <2>2, <2>3
<1>2. UNCHANGED bundle /\ \E label, next \in L : Moves(t, label, next)
  BY DEF StartThreads, StartWorkers, StopWorkers, StopThreads, Moves
<1>3. pc' \in [T -> L] /\ idx' \in [T -> Worker]
  BY <1>2, MovesType DEF ListTypeOK
<1> QED BY <1>1, <1>2, <1>3 DEF ListTypeOK

LEMMA GetEventDataType ==
    ASSUME NEW T, NEW L, ListTypeOK(T, L),
           NEW t \in T, NEW here \in L, NEW after \in L, GetEventData(t, here, after)
    PROVE  ListTypeOK(T, L)'
<1>0. idx[t] \in Worker /\ WorkersTypeOK
  BY DEF ListTypeOK
<1>1. WorkersTypeOK' /\ Popped(idx[t]) \in Event \cup {Uninitialised}
  BY <1>0, PopEventType DEF GetEventData
<1>2. bundle' \in Seq(Event \cup {Uninitialised})
  BY <1>1 DEF GetEventData, ListTypeOK
<1>3. pc' \in [T -> L] /\ idx' \in [T -> Worker]
  BY MovesType DEF ListTypeOK, GetEventData, Moves
<1> QED BY <1>1, <1>2, <1>3 DEF ListTypeOK

LEMMA FlushEventDataKeepsType ==
    ASSUME NEW T, NEW L, ListTypeOK(T, L),
           NEW t \in T, NEW here \in L, NEW flag \in L, NEW after \in L,
           FlushEventData(t, here, flag, after)
    PROVE  ListTypeOK(T, L)'
<1>0. idx[t] \in Worker /\ WorkersTypeOK
  BY DEF ListTypeOK
<1>1. WorkersTypeOK'
  BY <1>0, FlushType DEF FlushEventData, FlushQueue, FlushFlag
<1>2. UNCHANGED bundle /\ \E label, next \in L : Moves(t, label, next)
  BY DEF FlushEventData, FlushQueue, FlushFlag, Moves
<1>3. pc' \in [T -> L] /\ idx' \in [T -> Worker]
  BY <1>2, MovesType DEF ListTypeOK
<1> QED BY <1>1, <1>2, <1>3 DEF ListTypeOK

-----------------------------------------------------------------------------
(* The loop of thread t that bundles one event of each worker: RunLoop of  *)
(* the managers and BuilderLoop of the builder, which perform the same     *)
(* operations in the same order.                                           *)

(* A flag that is up tells the truth, but for the loop's own flush between *)
(* its two steps.                                                          *)
FlagsTell(t) ==
    \A w \in Worker : has_event[w] =>
        \/ data_queue[w] # <<>>
        \/ At(t, "flag") /\ idx[t] = w

(* Of the workers it has passed, the loop holds an event each.             *)
CountsEvents(t) ==
    /\ At(t, "get") => Len(bundle) = idx[t] - 1
    /\ At(t, "push") => Len(bundle) = NWorkers
    /\ pc[t] \notin {"get", "push"} => bundle = <<>>

(* The queues the loop has seen events in keep them until it pops them, so *)
(* each event it has popped is an event.                                   *)
SeesEvents(t) ==
    LET at == pc[t]  v == idx[t]
    IN  /\ at = "all" => \A w \in 1..(v - 1) : data_queue[w] # <<>>
        /\ at = "multi" => \A w \in Worker : data_queue[w] # <<>>
        /\ at = "get" => \A w \in v..NWorkers : data_queue[w] # <<>>
        /\ bundle \in Seq(Event)
        /\ CountsEvents(t)

Informed(t) == FlagsTell(t) /\ SeesEvents(t)

(* A step of another thread keeps what t knows, if it keeps the events.    *)
LEMMA OthersKeepInformed ==
    ASSUME NEW T, NEW L, ListTypeOK(T, L), NEW t \in T, Informed(t), KeepsEvents,
           pc'[t] = pc[t], idx'[t] = idx[t], bundle' = bundle
    PROVE  Informed(t)'
<1>1. idx[t] \in 1..NWorkers /\ NWorkers \in Nat
  BY WorkersAssumption DEF ListTypeOK, Worker
<1>2. FlagsTell(t)'
  BY DEF Informed, FlagsTell, KeepsEvents, At
<1>3. \A w \in Worker : data_queue[w] # <<>> => data_queue'[w] # <<>>
  BY DEF KeepsEvents
<1>4. SeesEvents(t)'
  BY <1>1, <1>3 DEF Informed, SeesEvents, CountsEvents, At, Worker
<1> QED BY <1>2, <1>4 DEF Informed

(* Moving on without touching a queue or a flag.                           *)
LEMMA GotoInformed ==
    ASSUME NEW T, NEW L, ListTypeOK(T, L), NEW t \in T, Informed(t),
           UNCHANGED <<queueVars, bundle>>, pc[t] \notin {"flag", "get", "push"},
           NEW label, label \notin {"multi", "get", "push"},
           Goto(t, label)
    PROVE  Informed(t)'
<1>1. pc'[t] = label /\ idx'[t] = 1
  BY DEF Goto, ListTypeOK
<1>2. UNCHANGED <<data_queue, has_event, bundle>>
  BY DEF queueVars
<1>3. FlagsTell(t)'
  BY <1>1, <1>2 DEF Informed, FlagsTell, At
<1>4. SeesEvents(t)'
  BY <1>1, <1>2 DEF Informed, SeesEvents, CountsEvents, At
<1> QED BY <1>3, <1>4 DEF Informed

(* The loops over the workers that only look.                              *)
LEMMA ChecksInformed ==
    ASSUME NEW T, NEW L, ListTypeOK(T, L), NEW t \in T, Informed(t),
           \/ AnyWorkersHaveEvent(t, "any", "wait", "check")
           \/ AllWorkersHaveEvent(t, "all", "multi", "flush")
           \/ AnyWorkersHaveMultiEvent(t, "multi", "flush", "get")
    PROVE  Informed(t)'
<1> DEFINE v == idx[t]
<1>0. /\ v \in 1..NWorkers /\ NWorkers \in Nat \ {0}
      /\ pc \in [T -> L] /\ idx \in [T -> Worker] /\ Worker = 1..NWorkers
  BY WorkersAssumption DEF ListTypeOK, Worker
<1>u. UNCHANGED <<data_queue, has_event, bundle>>
  BY DEF AnyWorkersHaveEvent, AllWorkersHaveEvent, AnyWorkersHaveMultiEvent, workerVars
<1>1. CASE AnyWorkersHaveEvent(t, "any", "wait", "check")
  <2>1. pc[t] = "any" /\ pc'[t] \in {"any", "wait", "check"}
    BY <1>0, <1>1 DEF AnyWorkersHaveEvent, NextWorker, Goto, At
  <2>2. FlagsTell(t)'
    BY <1>u, <2>1 DEF Informed, FlagsTell, At
  <2>3. SeesEvents(t)'
    BY <1>u, <2>1 DEF Informed, SeesEvents, CountsEvents, At
  <2> QED BY <2>2, <2>3 DEF Informed
<1>2. CASE AllWorkersHaveEvent(t, "all", "multi", "flush")
  <2>1. /\ pc[t] = "all"
        /\ \/ pc'[t] = "flush"
           \/ has_event[v] /\ v = NWorkers /\ pc'[t] = "multi"
           \/ has_event[v] /\ pc'[t] = "all" /\ idx'[t] = v + 1
    BY <1>0, <1>2 DEF AllWorkersHaveEvent, NextWorker, Goto, At
  <2>2. FlagsTell(t)'
    BY <1>u, <2>1 DEF Informed, FlagsTell, At
  <2>3. has_event[v] => data_queue[v] # <<>>
    BY <1>0, <2>1 DEF Informed, FlagsTell, At
  <2>4. \A w \in 1..(v - 1) : data_queue[w] # <<>>
    BY <2>1 DEF Informed, SeesEvents, CountsEvents, At
  <2>5. has_event[v] => \A w \in 1..v : data_queue[w] # <<>>
    BY <1>0, <2>3, <2>4
  <2>6. SeesEvents(t)'
    <3>1. CASE pc'[t] = "flush"
      BY <1>u, <2>1, <3>1 DEF Informed, SeesEvents, CountsEvents, At
    <3>2. CASE has_event[v] /\ v = NWorkers /\ pc'[t] = "multi"
      BY <1>0, <1>u, <2>1, <2>5, <3>2 DEF Informed, SeesEvents, CountsEvents, At
    <3>3. CASE has_event[v] /\ pc'[t] = "all" /\ idx'[t] = v + 1
      BY <1>0, <1>u, <2>1, <2>5, <3>3 DEF Informed, SeesEvents, CountsEvents, At
    <3> QED BY <2>1, <3>1, <3>2, <3>3
  <2> QED BY <2>2, <2>6 DEF Informed
<1>3. CASE AnyWorkersHaveMultiEvent(t, "multi", "flush", "get")
  <2>1. /\ pc[t] = "multi"
        /\ \/ pc'[t] \in {"multi", "flush"}
           \/ pc'[t] = "get" /\ idx'[t] = 1
    BY <1>0, <1>3 DEF AnyWorkersHaveMultiEvent, NextWorker, Goto, At
  <2>2. FlagsTell(t)'
    BY <1>u, <2>1 DEF Informed, FlagsTell, At
  <2>3. SeesEvents(t)'
    BY <1>0, <1>u, <2>1 DEF Informed, SeesEvents, CountsEvents, At
  <2> QED BY <2>2, <2>3 DEF Informed
<1> QED BY <1>1, <1>2, <1>3

(* GetEventData pops an event of worker v, and leaves those after v.       *)
LEMMA GetEventDataInformed ==
    ASSUME NEW T, NEW L, ListTypeOK(T, L), NEW t \in T, Informed(t),
           GetEventData(t, "get", "push")
    PROVE  Informed(t)'
<1> DEFINE v == idx[t]
<1>0. /\ v \in Worker /\ NWorkers \in Nat \ {0}
      /\ pc \in [T -> L] /\ idx \in [T -> Worker]
      /\ Worker = 1..NWorkers /\ WorkersTypeOK
      /\ bundle \in Seq(Event)
      /\ data_queue \in [Worker -> Seq(Event)] /\ has_event \in [Worker -> BOOLEAN]
  BY WorkersAssumption DEF Informed, SeesEvents, CountsEvents, At, ListTypeOK, WorkersTypeOK, Worker
<1>1. /\ pc[t] = "get" /\ PopEvent(v) /\ bundle' = Append(bundle, Popped(v))
      /\ \/ v = NWorkers /\ pc'[t] = "push"
         \/ v # NWorkers /\ pc'[t] = "get" /\ idx'[t] = v + 1
  BY <1>0 DEF GetEventData, NextWorker, Goto, At
<1>2. data_queue[v] # <<>> /\ Len(bundle) = v - 1
  BY <1>0, <1>1 DEF Informed, SeesEvents, CountsEvents, At
<1>3. Popped(v) \in Event
  BY <1>0, <1>1, <1>2, PopEventType
<1>4. bundle' \in Seq(Event) /\ Len(bundle') = v
  BY <1>0, <1>1, <1>2, <1>3
<1>5. \A w \in Worker \ {v} :
         data_queue'[w] = data_queue[w] /\ has_event'[w] = has_event[w]
  BY <1>0, <1>1 DEF PopEvent
<1>6. has_event'[v] => data_queue'[v] # <<>>
  <2>1. /\ data_queue'[v] = Tail(data_queue[v])
        /\ has_event'[v] => Len(data_queue[v]) # 1
    BY <1>0, <1>1, <1>2 DEF PopEvent
  <2>2. Len(data_queue[v]) # 1 => Tail(data_queue[v]) # <<>>
    BY <1>0, <1>2, TailOfMore
  <2> QED BY <2>1, <2>2
<1>7. FlagsTell(t)'
  BY <1>0, <1>1, <1>5, <1>6 DEF Informed, FlagsTell, At
<1>8. SeesEvents(t)'
  <2>1. CASE v = NWorkers /\ pc'[t] = "push"
    BY <1>0, <1>4, <2>1 DEF SeesEvents, CountsEvents, At
  <2>2. CASE v # NWorkers /\ pc'[t] = "get" /\ idx'[t] = v + 1
    <3>1. \A w \in v..NWorkers : data_queue[w] # <<>>
      BY <1>1 DEF Informed, SeesEvents, CountsEvents, At
    <3>2. \A w \in (v + 1)..NWorkers :
             w \in v..NWorkers /\ w \in Worker \ {v}
      BY <1>0
    <3>3. \A w \in (v + 1)..NWorkers : data_queue'[w] # <<>>
      BY <1>5, <3>1, <3>2
    <3> QED BY <1>0, <1>4, <2>2, <3>3 DEF SeesEvents, CountsEvents, At
  <2> QED BY <1>1, <2>1, <2>2
<1> QED BY <1>7, <1>8 DEF Informed

(* Between its two steps on a worker, a flush may leave that flag up.      *)
LEMMA FlushInformed ==
    ASSUME NEW T, NEW L, ListTypeOK(T, L), NEW t \in T, Informed(t),
           FlushEventData(t, "flush", "flag", "check")
    PROVE  Informed(t)'
<1> DEFINE v == idx[t]
<1>0. /\ v \in Worker
      /\ pc \in [T -> L] /\ idx \in [T -> Worker]
      /\ data_queue \in [Worker -> Seq(Event)] /\ has_event \in [Worker -> BOOLEAN]
  BY DEF ListTypeOK, WorkersTypeOK
<1>1. CASE FlushQueue(t, "flush", "flag")
  <2>1. /\ pc[t] = "flush" /\ pc'[t] = "flag" /\ idx'[t] = v /\ bundle' = bundle
        /\ has_event' = has_event
        /\ \A w \in Worker \ {v} : data_queue'[w] = data_queue[w]
    BY <1>0, <1>1 DEF FlushQueue, ClearQueue, At
  <2>2. FlagsTell(t)'
    BY <1>0, <2>1 DEF Informed, FlagsTell, At
  <2>3. SeesEvents(t)'
    BY <2>1 DEF Informed, SeesEvents, CountsEvents, At
  <2> QED BY <2>2, <2>3 DEF Informed
<1>2. CASE FlushFlag(t, "flush", "flag", "check")
  <2>1. /\ pc[t] = "flag" /\ pc'[t] \in {"flush", "check"} /\ bundle' = bundle
        /\ data_queue' = data_queue
        /\ has_event' = [has_event EXCEPT ![v] = FALSE]
    BY <1>0, <1>2 DEF FlushFlag, ClearFlag, NextWorker, Goto, At
  <2>2. FlagsTell(t)'
    BY <1>0, <2>1 DEF Informed, FlagsTell, At
  <2>3. SeesEvents(t)'
    BY <2>1 DEF Informed, SeesEvents, CountsEvents, At
  <2> QED BY <2>2, <2>3 DEF Informed
<1> QED BY <1>1, <1>2 DEF FlushEventData

(* A bundle that is pushed has an event of each worker.                    *)
LEMMA PushInformed ==
    ASSUME NEW T, NEW L, ListTypeOK(T, L), NEW t \in T, Informed(t),
           UNCHANGED queueVars, At(t, "push"), bundle' = <<>>,
           NEW label, label \notin {"all", "multi", "get", "push"}, Goto(t, label)
    PROVE  Informed(t)' /\ bundle \in Seq(Event) /\ Len(bundle) = NWorkers
<1>1. pc[t] = "push" /\ pc'[t] = label
  BY DEF Goto, ListTypeOK, At
<1>2. UNCHANGED <<data_queue, has_event>>
  BY DEF queueVars
<1>3. FlagsTell(t)'
  BY <1>1, <1>2 DEF Informed, FlagsTell, At
<1>4. SeesEvents(t)'
  BY <1>1, <1>2 DEF Informed, SeesEvents, CountsEvents, At
<1> QED BY <1>1, <1>3, <1>4 DEF Informed, SeesEvents, CountsEvents, At

-----------------------------------------------------------------------------
(* Where a thread jumps without touching a worker.                         *)
LEMMA GotoKeepsType ==
    ASSUME NEW T, NEW L, ListTypeOK(T, L), NEW t \in T, NEW label \in L, Goto(t, label),
           UNCHANGED workerVars, bundle' \in Seq(Event \cup {Uninitialised})
    PROVE  ListTypeOK(T, L)'
<1>1. Moves(t, label, label)
  BY DEF Moves
<1>2. pc' \in [T -> L] /\ idx' \in [T -> Worker]
  BY <1>1, MovesType DEF ListTypeOK
<1>3. WorkersTypeOK'
  BY DEF ListTypeOK, WorkersTypeOK, workerVars
<1> QED BY <1>2, <1>3 DEF ListTypeOK

(* Whatever the events are and whoever flushes them, the loop counts right *)
(* in its own operations.                                                  *)
LEMMA ListOpsCount ==
    ASSUME NEW T, NEW L, ListTypeOK(T, L), NEW t \in T, CountsEvents(t),
           \/ AnyWorkersHaveEvent(t, "any", "wait", "check")
           \/ AllWorkersHaveEvent(t, "all", "multi", "flush")
           \/ AnyWorkersHaveMultiEvent(t, "multi", "flush", "get")
           \/ GetEventData(t, "get", "push")
           \/ FlushEventData(t, "flush", "flag", "check")
    PROVE  CountsEvents(t)'
<1> DEFINE v == idx[t]
<1>0. /\ v \in 1..NWorkers /\ NWorkers \in Nat \ {0}
      /\ pc \in [T -> L] /\ idx \in [T -> Worker]
      /\ bundle \in Seq(Event \cup {Uninitialised}) /\ WorkersTypeOK
  BY WorkersAssumption DEF ListTypeOK, Worker
<1>1. CASE GetEventData(t, "get", "push")
  <2>1. /\ pc[t] = "get" /\ PopEvent(v) /\ bundle' = Append(bundle, Popped(v))
        /\ \/ v = NWorkers /\ pc'[t] = "push"
           \/ v # NWorkers /\ pc'[t] = "get" /\ idx'[t] = v + 1
    BY <1>0, <1>1 DEF GetEventData, NextWorker, Goto, At
  <2>2. Popped(v) \in Event \cup {Uninitialised}
    BY <1>0, <2>1, PopEventType DEF Worker
  <2>3. Len(bundle') = Len(bundle) + 1
    BY <1>0, <2>1, <2>2
  <2>4. Len(bundle) = v - 1
    BY <2>1 DEF CountsEvents, At
  <2> QED BY <1>0, <2>1, <2>3, <2>4 DEF CountsEvents, At
<1>2. CASE AnyWorkersHaveMultiEvent(t, "multi", "flush", "get")
  <2>1. /\ pc[t] = "multi" /\ bundle' = bundle
        /\ \/ pc'[t] \in {"multi", "flush"}
           \/ pc'[t] = "get" /\ idx'[t] = 1
    BY <1>0, <1>2 DEF AnyWorkersHaveMultiEvent, NextWorker, Goto, At
  <2> QED BY <1>0, <2>1 DEF CountsEvents, At
<1>3. CASE \/ AnyWorkersHaveEvent(t, "any", "wait", "check")
           \/ AllWorkersHaveEvent(t, "all", "multi", "flush")
           \/ FlushEventData(t, "flush", "flag", "check")
  <2>1. /\ pc[t] \in {"any", "all", "flush", "flag"} /\ bundle' = bundle
        /\ pc'[t] \in {"any", "wait", "check", "all", "multi", "flush", "flag"}
    BY <1>0, <1>3 DEF AnyWorkersHaveEvent, AllWorkersHaveEvent, FlushEventData,
           FlushQueue, FlushFlag, NextWorker, Goto, At
  <2> QED BY <2>1 DEF CountsEvents, At
<1> QED BY <1>1, <1>2, <1>3
=============================================================================
