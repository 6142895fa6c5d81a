------------------------------- MODULE Workers -------------------------------
(***************************************************************************)
(* The digitizer workers: WorkerBase<T> and the work loops of its seven    *)
(* device classes (sis_3302, sis_3350, sis_3316, caen_1785, caen_6742,     *)
(* caen_1742, drs4).  A worker owns a digitizer and a thread that polls it *)
(* and appends what it reads to data_queue_; other threads pop and flush   *)
(* that queue.  The threads that do so are in WorkerList and above.        *)
(*                                                                         *)
(* An event is abstracted to the set of parts it was read from, a part     *)
(* being <<worker, trigger>>.  A readout takes two steps, so an event may  *)
(* hold parts of two triggers, or of two workers of one kind: the bundle a *)
(* WorkLoop reads into is a function-local static, one object shared by    *)
(* every worker of the class.                                              *)
(*                                                                         *)
(* A critical section of queue_mutex_ is one step: it touches only the     *)
(* worker's queue and flag, and the unlocked reads of the flag see it      *)
(* before or after its single store.                                       *)
(***************************************************************************)
EXTENDS Naturals, Sequences, FiniteSets

CONSTANTS
    NWorkers,       \* number of workers in the list
    Kind,           \* Kind[w]: the device class of worker w
    MaxTriggers,    \* bound: triggers in a behaviour
    BufferDepth,    \* events a CAEN digitizer buffers on board
    MaxQueueSize    \* WorkerBase::max_queue_size_

Worker == 1..NWorkers

(* What the device classes differ in.                                      *)
(*   depth          events the digitizer holds before it misses a trigger  *)
(*   taken_at_poll  EventAvailable re-arms, switches banks or transfers the *)
(*                  event before GetEvent reads it; else GetEvent releases it *)
(*   shares_memory  once re-armed it samples into the memory being read    *)
(*   static_status  EventAvailable keeps the status in function-local statics *)
(*   skips_no_data  GetEvent leaves the bundle alone if it finds no event  *)
(*   waits_for_go   WorkLoop polls only while go_time_                     *)
(*   bounded        WorkLoop drops the oldest event above max_queue_size_  *)
(*   dumps_first    LoadConfig leaves it unarmed, which its status register *)
(*                  shows as an event, and WorkLoop means to dump that one *)
(*   runs_for       acquisition runs: "always", until WorkLoop returns     *)
(*                  ("loop_end") or only while it runs ("loop")            *)
Common == [depth |-> 1, taken_at_poll |-> FALSE, shares_memory |-> FALSE,
           static_status |-> FALSE, skips_no_data |-> FALSE,
           waits_for_go |-> TRUE, bounded |-> FALSE, dumps_first |-> FALSE,
           runs_for |-> "always"]

Sis3302 == [Common EXCEPT !.taken_at_poll = TRUE, !.shares_memory = TRUE,
                          !.static_status = TRUE, !.dumps_first = TRUE]
Sis3350 == [Common EXCEPT !.taken_at_poll = TRUE, !.shares_memory = TRUE,
                          !.static_status = TRUE, !.waits_for_go = FALSE,
                          !.bounded = TRUE]
Sis3316 == [Common EXCEPT !.taken_at_poll = TRUE, !.static_status = TRUE,
                          !.skips_no_data = TRUE]
Caen1785 == [Common EXCEPT !.depth = BufferDepth, !.static_status = TRUE,
                           !.skips_no_data = TRUE]
Caen6742 == [Common EXCEPT !.depth = BufferDepth, !.taken_at_poll = TRUE,
                           !.runs_for = "loop"]
Caen1742 == [Common EXCEPT !.depth = BufferDepth, !.skips_no_data = TRUE,
                           !.runs_for = "loop_end"]
Drs4 == Common

DeviceClass == [sis_3350 |-> Sis3350, sis_3302 |-> Sis3302,
                caen_1785 |-> Caen1785, caen_6742 |-> Caen6742, drs4 |-> Drs4,
                caen_1742 |-> Caen1742, sis_3316 |-> Sis3316]

Device(w) == DeviceClass[Kind[w]]

Kinds == DOMAIN DeviceClass

ASSUME WorkersAssumption ==
    /\ NWorkers \in Nat \ {0}
    /\ Kind \in [Worker -> Kinds]
    /\ MaxTriggers \in Nat
    /\ BufferDepth \in Nat \ {0}
    /\ MaxQueueSize \in Nat \ {0}

VARIABLES
    triggers,       \* triggers fired so far
    captured,       \* device: the triggers it holds and has not handed over
    memory,         \* device: the trigger whose samples the readout would see
    acquiring,      \* device: acquisition is running
    worker_live,    \* WorkerBase::thread_live_
    worker_go,      \* WorkerBase::go_time_
    work,           \* where the worker's thread is in WorkLoop
    static_bundle,  \* static_bundle[k]: the static bundle of kind k's WorkLoop
    data_queue,     \* WorkerBase::data_queue_
    has_event       \* WorkerBase::has_event_

deviceVars == <<triggers, captured, memory, acquiring>>
controlVars == <<worker_live, worker_go>>
queueVars == <<data_queue, has_event>>
workerVars == <<triggers, captured, memory, acquiring, worker_live, worker_go,
                work, static_bundle, data_queue, has_event>>

-----------------------------------------------------------------------------
(* Events.                                                                 *)

Part == Worker \X Nat
Event == SUBSET Part

(* The struct PopEvent declares and returns without filling it in.         *)
Uninitialised == {<<0, 0>>}

(* What a worker's event for trigger n ought to be.                        *)
Whole(w, n) == {<<w, n>>}

-----------------------------------------------------------------------------
(* WorkLoop's condition for polling the device: all but sis_3350 wait for  *)
(* go_time_, and look at thread_live_ only once it is false.               *)
Polling(w) == IF Device(w).waits_for_go THEN worker_go[w] ELSE worker_live[w]

Leaving(w) == ~worker_live[w] /\ ~Polling(w)

-----------------------------------------------------------------------------
(* The constructed workers: LoadConfig has armed the device, except that   *)
(* WorkerSis3302 leaves it unarmed, which its status register shows as an  *)
(* event, the "corrupted" first one.                                       *)
NewCaptured == [w \in Worker |-> IF Device(w).dumps_first THEN <<0>> ELSE <<>>]
NewAcquiring == [w \in Worker |-> Device(w).runs_for # "loop"]
OnEach(value) == [w \in Worker |-> value]

WorkersInit ==
    /\ triggers = 0
    /\ captured = NewCaptured /\ memory = OnEach(0) /\ acquiring = NewAcquiring
    /\ worker_live = OnEach(TRUE) /\ worker_go = OnEach(FALSE)
    /\ work = OnEach("none")
    /\ static_bundle = [k \in Kinds |-> <<{}, {}>>]
    /\ data_queue = OnEach(<<>>) /\ has_event = OnEach(FALSE)

(* New workers in place of deleted ones; the statics outlive them.         *)
Construct ==
    /\ captured' = NewCaptured /\ memory' = OnEach(0) /\ acquiring' = NewAcquiring
    /\ worker_live' = OnEach(TRUE) /\ worker_go' = OnEach(FALSE)
    /\ work' = OnEach("none")
    /\ data_queue' = OnEach(<<>>) /\ has_event' = OnEach(FALSE)
    /\ UNCHANGED <<triggers, static_bundle>>

(* A trigger reaches the digitizers in S, of those able to take one; the   *)
(* others miss it.                                                         *)
Ready(w) == acquiring[w] /\ Len(captured[w]) < Device(w).depth

Trigger(S) ==
    /\ triggers < MaxTriggers
    /\ S # {}
    /\ \A w \in S : Ready(w)
    /\ triggers' = triggers + 1
    /\ captured' = [w \in Worker |->
          IF w \in S THEN Append(captured[w], triggers + 1) ELSE captured[w]]
    /\ memory' = [w \in Worker |->
          IF w \in S /\ Device(w).shares_memory THEN triggers + 1 ELSE memory[w]]
    /\ UNCHANGED <<acquiring, controlVars, work, static_bundle, queueVars>>

-----------------------------------------------------------------------------
(* Control of a worker, called by other threads.                           *)

(* StartThread joins a previous thread, then spawns WorkLoop.              *)
StartThread(w) ==
    /\ work[w] = "none"
    /\ worker_live' = [worker_live EXCEPT ![w] = TRUE]
    /\ work' = [work EXCEPT ![w] = IF Device(w).dumps_first THEN "dump" ELSE "poll"]
    /\ acquiring' = [acquiring EXCEPT ![w] = @ \/ Device(w).runs_for = "loop"]
    /\ UNCHANGED <<triggers, captured, memory, worker_go, static_bundle, queueVars>>

(* StopThread is two steps: it clears thread_live_, then joins.            *)
AskToStop(w) ==
    /\ worker_live' = [worker_live EXCEPT ![w] = FALSE]
    /\ UNCHANGED <<deviceVars, worker_go, work, static_bundle, queueVars>>

Joined(w) == work[w] = "none"

SetGoTime(w, go) ==
    /\ worker_go' = [worker_go EXCEPT ![w] = go]
    /\ UNCHANGED <<deviceVars, worker_live, work, static_bundle, queueVars>>

-----------------------------------------------------------------------------
(* The worker's own thread.                                                *)

(* The status EventAvailable may act on: its own, or, through the statics, *)
(* the one another worker of the class is polling at the moment.           *)
Statuses(w) ==
    {captured[v] # <<>> : v \in {w} \cup
        {u \in Worker : /\ Device(w).static_status /\ Kind[u] = Kind[w]
                        /\ work[u] = "poll" /\ Polling(u)}}

(* The event leaves the device's care: re-armed, bank switched or copied.  *)
HandOver(w) == IF captured[w] = <<>> THEN <<>> ELSE Tail(captured[w])

(* The samples GetEvent will find.  A re-armed SIS 3302 or 3350 shows what *)
(* its memory holds; of the others, a device without an event shows none.  *)
Exposed(w) == IF captured[w] # <<>> THEN Head(captured[w])
              ELSE IF Device(w).shares_memory THEN memory[w] ELSE 0

(* "Dump first event (they are corrupted)", before WorkLoop's loops.       *)
Dump(w) ==
    /\ work[w] = "dump"
    /\ work' = [work EXCEPT ![w] = "poll"]
    /\ captured' = [captured EXCEPT ![w] = IF worker_go[w] THEN HandOver(w) ELSE @]
    /\ UNCHANGED <<triggers, memory, acquiring, controlVars, static_bundle, queueVars>>

(* EventAvailable.  "seen" is the status it branches on and "returned" the *)
(* value of the same static when it returns it.                            *)
Poll(w) ==
    /\ work[w] = "poll" /\ Polling(w)
    /\ \E seen, returned \in Statuses(w) :
         /\ seen
         /\ memory' = [memory EXCEPT ![w] = Exposed(w)]
         /\ captured' = [captured EXCEPT ![w] =
                IF Device(w).taken_at_poll THEN HandOver(w) ELSE @]
         /\ work' = [work EXCEPT ![w] = IF returned THEN "read" ELSE "poll"]
    /\ UNCHANGED <<triggers, acquiring, controlVars, static_bundle, queueVars>>

(* GetEvent writes one half of the shared bundle from the device.          *)
ReadHalf(w, half) ==
    static_bundle' = IF Device(w).skips_no_data /\ memory[w] = 0 THEN static_bundle
                     ELSE [static_bundle EXCEPT ![Kind[w]][half] = {<<w, memory[w]>>}]

Read(w) ==
    /\ work[w] = "read"
    /\ ReadHalf(w, 1)
    /\ work' = [work EXCEPT ![w] = "finish"]
    /\ UNCHANGED <<deviceVars, controlVars, queueVars>>

(* The devices not released by EventAvailable are released here.           *)
Finish(w) ==
    /\ work[w] = "finish"
    /\ ReadHalf(w, 2)
    /\ captured' = [captured EXCEPT ![w] =
          IF Device(w).taken_at_poll THEN @ ELSE HandOver(w)]
    /\ work' = [work EXCEPT ![w] = "push"]
    /\ UNCHANGED <<triggers, memory, acquiring, controlVars, queueVars>>

(* Only WorkerSis3350 bounds its queue, by dropping the oldest event.      *)
DropOld(w, queue) ==
    IF Device(w).bounded /\ Len(queue) > MaxQueueSize THEN Tail(queue) ELSE queue

Push(w) ==
    /\ work[w] = "push"
    /\ LET event == static_bundle[Kind[w]][1] \cup static_bundle[Kind[w]][2]
       IN  data_queue' = [data_queue EXCEPT ![w] = DropOld(w, Append(@, event))]
    /\ has_event' = [has_event EXCEPT ![w] = TRUE]
    /\ work' = [work EXCEPT ![w] = "poll"]
    /\ UNCHANGED <<deviceVars, controlVars, static_bundle>>

(* WorkLoop returns; the CAEN 1742 and 6742 stop acquiring.                *)
Exit(w) ==
    /\ work[w] = "poll" /\ Leaving(w)
    /\ work' = [work EXCEPT ![w] = "none"]
    /\ acquiring' = [acquiring EXCEPT ![w] =
          @ /\ Device(w).runs_for = "always"]
    /\ UNCHANGED <<triggers, captured, memory, controlVars, static_bundle, queueVars>>

(* The worker is not reading anything out, nor about to.                   *)
Settled(w) == work[w] \in {"none", "poll"} /\ (captured[w] = <<>> \/ ~Polling(w))

WorkLoop(w) ==
    Dump(w) \/ Poll(w) \/ Read(w) \/ Finish(w) \/ Push(w) \/ Exit(w)

-----------------------------------------------------------------------------
(* Access to a worker's queue by other threads.                            *)

(* PopEvent: the oldest event, or a struct nobody filled in.               *)
Popped(w) == IF data_queue[w] = <<>> THEN Uninitialised ELSE Head(data_queue[w])

(* Mutant: the front is copied but not popped.                             *)
PopEventNoPop(w) ==
    /\ has_event' = [has_event EXCEPT ![w] = @ /\ Len(data_queue[w]) # 1]
    /\ UNCHANGED <<deviceVars, controlVars, work, static_bundle, data_queue>>

PopEvent(w) ==
    /\ data_queue' = [data_queue EXCEPT ![w] = IF @ = <<>> THEN @ ELSE Tail(@)]
    /\ has_event' = [has_event EXCEPT ![w] = @ /\ Len(data_queue[w]) # 1]
    /\ UNCHANGED <<deviceVars, controlVars, work, static_bundle>>

(* FlushEvents clears the queue under the lock ...                         *)
ClearQueue(w) ==
    /\ data_queue' = [data_queue EXCEPT ![w] = <<>>]
    /\ UNCHANGED <<deviceVars, controlVars, work, static_bundle, has_event>>

(* Mutant: the flag is left up.                                            *)
ClearFlagForgotten(w) ==
    UNCHANGED <<deviceVars, controlVars, work, static_bundle, queueVars>>

(* ... and the flag after unlocking, so that an event pushed in between is *)
(* left in the queue with the flag down.                                   *)
ClearFlag(w) ==
    /\ has_event' = [has_event EXCEPT ![w] = FALSE]
    /\ UNCHANGED <<deviceVars, controlVars, work, static_bundle, data_queue>>

-----------------------------------------------------------------------------
(* Types: every event is a set of parts, every queue a sequence of events. *)
WorkersTypeOK ==
    /\ triggers \in Nat
    /\ captured \in [Worker -> Seq(Nat)]
    /\ memory \in [Worker -> Nat]
    /\ acquiring \in [Worker -> BOOLEAN]
    /\ worker_live \in [Worker -> BOOLEAN]
    /\ worker_go \in [Worker -> BOOLEAN]
    /\ work \in [Worker -> {"none", "dump", "poll", "read", "finish", "push"}]
    /\ static_bundle \in [Kinds -> [1..2 -> Event]]
    /\ data_queue \in [Worker -> Seq(Event)]
    /\ has_event \in [Worker -> BOOLEAN]
=============================================================================
