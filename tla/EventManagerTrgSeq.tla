-------------------------- MODULE EventManagerTrgSeq --------------------------
(***************************************************************************)
(* EventManagerTrgSeq: a start trigger begins a sequence of rounds.  In    *)
(* each, TriggerLoop sets the multiplexers and fires the NMR pulser,       *)
(* RunLoop queues what the digitizers saw, and BuilderLoop copies the      *)
(* round's probes into the event it packs when the sequence is over.       *)
(* StarterLoop receives start triggers.  The loops share flags only.       *)
(*                                                                         *)
(* A round reads one probe.  The frontend is not in the repository.        *)
(***************************************************************************)
EXTENDS WorkerList

CONSTANTS
    NRounds,        \* rounds of trg_seq_
    Wfd,            \* Wfd[r]: the worker whose digitizer sees round r's probe
    KMaxQueueSize,  \* kMaxQueueSize
    MaxRuns,        \* bound: runs in a behaviour
    MaxStarts,      \* bound: start triggers in a behaviour
    Paced,          \* the usleeps are longer than what they wait for
    Steady,         \* triggers come while a run goes on, and it is not paused
                    \* or ended in the middle of a sequence
    Raised          \* bound: the flags without an initial value that may
                    \* begin TRUE

(* The flags no constructor initialises: those of the triggers, of a       *)
(* round's data and has_event_.                                            *)
Unset == {"software_trg", "start_trg", "round_data", "has_event"}

ASSUME EventManagerTrgSeqAssumption ==
    /\ NRounds \in Nat \ {0} /\ Wfd \in [1..NRounds -> Worker]
    /\ KMaxQueueSize \in Nat /\ MaxRuns \in Nat /\ MaxStarts \in Nat
    /\ Paced \in BOOLEAN /\ Steady \in BOOLEAN /\ Raised \subseteq Unset

VARIABLES
    go_time, thread_live, event_flag,   \* go_time_, thread_live_, has_event_
    data,                   \* EventManagerBase::data_queue_
    got_software_trg, got_start_trg, got_round_data,
    builder_has_finished, sequence_in_progress, mux_round_configured,
    round,                  \* TriggerLoop's round
    mux,                    \* the round the multiplexers are set for
    seq_index,              \* BuilderLoop's seq_index
    probes,                 \* BuilderLoop's static bundle, by round
    run_queue,              \* run_queue_
    runs, starts,           \* runs begun, start triggers sent
    sequences,              \* history: sequences begun
    aim,                    \* history: aim[n], the sequence and round of trigger n
    packed,                 \* history: events pushed on run_queue_
    spoilt                  \* history: a sequence was spoilt at its beginning

runVars == <<go_time, thread_live, runs>>
startVars == <<got_software_trg, got_start_trg, starts>>
flagVars == <<got_round_data, builder_has_finished, sequence_in_progress,
              mux_round_configured>>
roundVars == <<round, mux, sequences, aim>>
packVars == <<seq_index, probes>>
outVars == <<event_flag, run_queue, packed>>
managerVars == <<runVars, data, startVars, flagVars, roundVars, packVars, outVars>>
vars == <<listVars, managerVars, spoilt>>

Thread == {"run", "trigger", "builder", "starter", "main"}
Loops == Thread \ {"main"}
Round == 1..NRounds

Initially(flag) == {b \in BOOLEAN : b => flag \in Raised}

Init ==
    /\ WorkersInit
    /\ pc = [t \in Thread |-> IF t = "main" THEN "idle" ELSE "done"]
    /\ idx = [t \in Thread |-> 1] /\ bundle = <<>>
    /\ go_time = FALSE /\ thread_live = FALSE /\ runs = 0
    /\ data = <<>>
    /\ got_software_trg \in Initially("software_trg") /\ got_start_trg \in Initially("start_trg")
    /\ got_round_data \in Initially("round_data") /\ event_flag \in Initially("has_event")
    /\ builder_has_finished = TRUE
    /\ sequence_in_progress = FALSE /\ mux_round_configured = FALSE
    /\ round = 1 /\ mux = 1 /\ seq_index = 0
    /\ probes = [r \in Round |-> {}]
    /\ run_queue = <<>> /\ packed = <<>>
    /\ starts = 0 /\ sequences = 0 /\ aim = <<>> /\ spoilt = FALSE

-----------------------------------------------------------------------------
Test(t, here, condition, yes, no) ==
    /\ At(t, here)
    /\ Goto(t, IF condition THEN yes ELSE no)
    /\ UNCHANGED <<workerVars, bundle, managerVars>>

(* A while loop that sleeps until the condition holds.                     *)
Await(t, here, condition, after) == condition /\ Test(t, here, TRUE, after, after)

OnList(op) == op /\ UNCHANGED managerVars

(* A step of thread t that leaves the workers alone.                       *)
Step(t, here, after) ==
    /\ At(t, here) /\ Goto(t, after)
    /\ UNCHANGED <<workerVars, bundle>>

-----------------------------------------------------------------------------
(* RunLoop: as EventManagerBasic's, but it leaves has_event_ alone.        *)

RunWait ==
    /\ Paced => \A w \in Worker : Settled(w)
    /\ Test("run", "wait", TRUE, "all", "all")

RunPush ==
    /\ At("run", "push") /\ Goto("run", "flush")
    /\ data' = IF Len(data) <= KMaxQueueSize THEN Append(data, bundle) ELSE data
    /\ bundle' = <<>>
    /\ UNCHANGED <<workerVars, runVars, startVars, flagVars, roundVars, packVars, outVars>>

RunLoop ==
    \/ Test("run", "outer", thread_live, "flush", "done")
    \/ Test("run", "check", go_time, "any", "outer")
    \/ OnList(AnyWorkersHaveEvent("run", "any", "wait", "check"))
    \/ RunWait
    \/ OnList(AllWorkersHaveEvent("run", "all", "multi", "flush"))
    \/ OnList(AnyWorkersHaveMultiEvent("run", "multi", "flush", "get"))
    \/ OnList(GetEventData("run", "get", "push"))
    \/ RunPush
    \/ OnList(FlushEventData("run", "flush", "flag", "check"))

-----------------------------------------------------------------------------
(* TriggerLoop.                                                            *)

SetFlag(here, after, progress, finished, configured, got) ==
    /\ Step("trigger", here, after)
    /\ sequence_in_progress' = progress
    /\ builder_has_finished' = finished
    /\ mux_round_configured' = configured
    /\ got_round_data' = got
    /\ UNCHANGED <<runVars, data, startVars, packVars, outVars>>

(* The three flags that begin a sequence.                                  *)
BeginSequence ==
    \/ /\ SetFlag("begin", "unfinish", TRUE, builder_has_finished,
                  mux_round_configured, got_round_data)
       /\ sequences' = sequences + 1 /\ round' = 1
       /\ UNCHANGED <<mux, aim>>
    \/ /\ SetFlag("unfinish", "unconfigure", sequence_in_progress, FALSE,
                  mux_round_configured, got_round_data)
       /\ UNCHANGED roundVars
    \/ /\ SetFlag("unconfigure", "round", sequence_in_progress,
                  builder_has_finished, FALSE, got_round_data)
       /\ UNCHANGED roundVars

(* A round sets the multiplexers, unless the run is over, and goes on.     *)
BeginRound ==
    \/ Test("trigger", "round", round \in Round /\ go_time, "reset", "end")
    \/ /\ SetFlag("reset", "set_mux", sequence_in_progress, builder_has_finished,
                  mux_round_configured, FALSE)
       /\ UNCHANGED roundVars
    \/ /\ Step("trigger", "set_mux", "fire")
       /\ mux' = IF go_time THEN round ELSE mux
       /\ UNCHANGED <<runVars, data, startVars, flagVars, round, sequences, aim,
                      packVars, outVars>>

(* After mux_switch_time_, the pulser reaches the digitizers that are able *)
(* to take a trigger.  With Paced, all is at rest by then, the workers too. *)
FireTriggers ==
    /\ At("trigger", "fire") /\ Goto("trigger", "configured")
    /\ Paced /\ go_time =>
          /\ pc["run"] \in {"check", "any"}
          /\ pc["builder"] \notin {"round_data", "round_taken"}
          /\ \A w \in Worker : Settled(w) /\ ~has_event[w]
    /\ LET S == {w \in Worker : Ready(w)}
       IN  IF S = {} THEN UNCHANGED <<workerVars, aim>>
           ELSE Trigger(S) /\ aim' = Append(aim, <<sequences, mux>>)
    /\ UNCHANGED <<bundle, runVars, data, startVars, flagVars, round, mux, sequences,
                   packVars, outVars>>

EndRound ==
    \/ /\ SetFlag("configured", "await", sequence_in_progress, builder_has_finished,
                  TRUE, got_round_data)
       /\ UNCHANGED roundVars
    \/ /\ got_round_data \/ ~go_time
       /\ Step("trigger", "await", "round")
       /\ round' = round + 1
       /\ UNCHANGED <<runVars, data, startVars, flagVars, mux, sequences, aim,
                      packVars, outVars>>

(* Mutant: the start trigger is not forgotten.                             *)
EndSequenceRemembering ==
    \/ /\ SetFlag("end", "await_builder", FALSE, builder_has_finished,
                  mux_round_configured, got_round_data)
       /\ UNCHANGED roundVars
    \/ Await("trigger", "await_builder", builder_has_finished \/ ~go_time, "check")

EndSequence ==
    \/ /\ SetFlag("end", "forget", FALSE, builder_has_finished,
                  mux_round_configured, got_round_data)
       /\ UNCHANGED roundVars
    \/ /\ Step("trigger", "forget", "await_builder")
       /\ got_start_trg' = FALSE
       /\ UNCHANGED <<runVars, data, got_software_trg, starts, flagVars,
                      roundVars, packVars, outVars>>
    \/ Await("trigger", "await_builder", builder_has_finished \/ ~go_time, "check")

TriggerLoop ==
    \/ Test("trigger", "outer", thread_live, "check", "done")
    \/ Test("trigger", "check", go_time, "start", "outer")
    \/ Test("trigger", "start", got_start_trg, "begin", "check")
    \/ BeginSequence
    \/ BeginRound \/ FireTriggers \/ EndRound
    \/ EndSequence

-----------------------------------------------------------------------------
(* BuilderLoop.                                                            *)

(* A new turn, with its own seq_index and the old, static bundle.          *)
NewTurn ==
    /\ Step("builder", "turn", "progress")
    /\ seq_index' = 0
    /\ UNCHANGED <<runVars, data, startVars, flagVars, roundVars, probes, outVars>>

(* Mutant: seq_index is not advanced.                                      *)
TakeRoundSameIndex ==
    /\ Step("builder", "take", IF data = <<>> THEN "progress" ELSE "round_data")
    /\ IF data = <<>> THEN UNCHANGED <<data, packVars>>
       ELSE /\ data' = Tail(data)
            /\ probes' = [probes EXCEPT ![seq_index + 1] = Head(data)[Wfd[seq_index + 1]]]
            /\ UNCHANGED seq_index
    /\ UNCHANGED <<runVars, startVars, flagVars, roundVars, outVars>>

(* The round's event, if there is one, and its probe.  A seq_index past    *)
(* trg_seq_ is undefined; here it finds no probe.                          *)
TakeRound ==
    /\ Step("builder", "take", IF data = <<>> THEN "progress" ELSE "round_data")
    /\ IF data = <<>> THEN UNCHANGED <<data, packVars>>
       ELSE /\ data' = Tail(data)
            /\ probes' = [r \in Round |->
                  IF r = seq_index + 1 THEN Head(data)[Wfd[r]] ELSE probes[r]]
            /\ seq_index' = seq_index + 1
    /\ UNCHANGED <<runVars, startVars, flagVars, roundVars, outVars>>

(* Mutant: the trigger loop is not told.                                   *)
RoundTakenSilently ==
    /\ \/ Step("builder", "round_data", "round_taken") /\ UNCHANGED mux_round_configured
       \/ Step("builder", "round_taken", "progress") /\ mux_round_configured' = FALSE
    /\ UNCHANGED <<runVars, data, startVars, got_round_data, builder_has_finished,
                   sequence_in_progress, roundVars, packVars, outVars>>

(* "Let the data collection begin for next round."                         *)
RoundTaken ==
    /\ \/ /\ Step("builder", "round_data", "round_taken")
          /\ got_round_data' = TRUE /\ UNCHANGED mux_round_configured
       \/ /\ Step("builder", "round_taken", "progress")
          /\ mux_round_configured' = FALSE /\ UNCHANGED got_round_data
    /\ UNCHANGED <<runVars, data, startVars, builder_has_finished, sequence_in_progress,
                   roundVars, packVars, outVars>>

PushEvent ==
    /\ Step("builder", "push", "check")
    /\ run_queue' = Append(run_queue, probes)
    /\ packed' = Append(packed, probes)
    /\ event_flag' = TRUE
    /\ seq_index' = 0 /\ builder_has_finished' = TRUE
    /\ UNCHANGED <<runVars, data, startVars, got_round_data, sequence_in_progress,
                   mux_round_configured, roundVars, probes>>

BuilderLoop ==
    \/ Test("builder", "outer", thread_live, "check", "done")
    \/ Test("builder", "check", go_time, "turn", "outer")
    \/ NewTurn
    \/ Test("builder", "progress", sequence_in_progress, "going", "over")
    \/ Test("builder", "going", go_time, "is_configured", "over")
    \/ Test("builder", "is_configured", mux_round_configured, "take", "progress")
    \/ TakeRound \/ RoundTaken
    \/ Test("builder", "over", ~sequence_in_progress, "finished", "check")
    \/ Test("builder", "finished", ~builder_has_finished, "push", "check")
    \/ PushEvent

-----------------------------------------------------------------------------
(* StarterLoop: start triggers come over ZeroMQ or from IssueTrigger.      *)

(* A start signal.                                                         *)
Ask == /\ starts < MaxStarts
       /\ Steady => go_time /\ pc["main"] \in {"running", "get_current", "pop_current"}
       /\ starts' = starts + 1

Start(here, after) ==
    /\ Step("starter", here, after)
    /\ got_start_trg' = TRUE
    /\ UNCHANGED <<got_software_trg, runVars, data, flagVars, roundVars, packVars, outVars>>

StarterLoop ==
    \/ Test("starter", "outer", thread_live, "check", "done")
    \/ Test("starter", "check", go_time /\ thread_live, "receive", "outer")
    \/ Start("receive", "software") /\ Ask
    \/ Test("starter", "receive", TRUE, "software", "software")
    \/ Test("starter", "software", got_software_trg, "start", "check")
    \/ Start("start", "clear") /\ UNCHANGED starts
    \/ /\ Step("starter", "clear", "check")
       /\ got_software_trg' = FALSE
       /\ UNCHANGED <<got_start_trg, starts, runVars, data, flagVars, roundVars,
                      packVars, outVars>>

-----------------------------------------------------------------------------
(* The frontend.                                                           *)

MainStep(here, after) ==
    /\ At("main", here) /\ Goto("main", after)
    /\ UNCHANGED <<bundle, startVars, flagVars, roundVars, packVars, packed>>

(* BeginOfRun, as EventManagerBasic's but for the four threads.            *)
BeginOfRun ==
    \/ /\ At("main", "idle") /\ runs < MaxRuns
       /\ Construct
       /\ pc' = [t \in Thread |-> IF t = "main" THEN "begin" ELSE "outer"]
       /\ thread_live' = TRUE /\ runs' = runs + 1
       /\ UNCHANGED <<idx, bundle, go_time, data, startVars, flagVars, roundVars,
                      packVars, outVars>>
    \/ /\ MainStep("begin", "threads")
       /\ go_time' = TRUE
       /\ UNCHANGED <<workerVars, thread_live, runs, data, event_flag, run_queue>>
    \/ OnList(StartThreads("main", "threads", "workers"))
    \/ OnList(StartWorkers("main", "workers", "stale"))
    \/ OnList(AnyWorkersHaveEvent("main", "stale", "stale_flush", "running"))
    \/ OnList(FlushEventData("main", "stale_flush", "stale_flag", "stale"))

(* No sequence is going on or about to.                                    *)
BetweenSequences ==
    /\ ~got_start_trg /\ ~got_software_trg
    /\ pc["starter"] \notin {"start", "clear"}
    /\ pc["trigger"] \in {"outer", "check", "start"} /\ builder_has_finished

(* EndOfRun waits a while for the sequence, then stops everything and      *)
(* empties the queues, but neither has_event_ nor the other flags.         *)
EndOfRun ==
    \/ /\ Steady => BetweenSequences
       /\ MainStep("running", "end")
       /\ go_time' = FALSE
       /\ UNCHANGED <<workerVars, thread_live, runs, data, event_flag, run_queue>>
    \/ /\ MainStep("end", "stop_workers")
       /\ thread_live' = FALSE
       /\ UNCHANGED <<workerVars, go_time, runs, data, event_flag, run_queue>>
    \/ OnList(StopWorkers("main", "stop_workers", "stop_threads"))
    \/ OnList(StopThreads("main", "stop_threads", "join_thread", "join"))
    \/ /\ \A t \in Loops : At(t, "done")
       /\ MainStep("join", "idle")
       /\ data' = <<>> /\ run_queue' = <<>>
       /\ UNCHANGED <<workerVars, go_time, thread_live, runs, event_flag>>

PauseResume ==
    /\ Steady => BetweenSequences
    /\ MainStep("running", "running")
    /\ go_time' = ~go_time
    /\ UNCHANGED <<workerVars, thread_live, runs, data, event_flag, run_queue>>

IssueTrigger ==
    /\ Step("main", "running", "running")
    /\ Ask
    /\ got_software_trg' = TRUE
    /\ UNCHANGED <<got_start_trg, runVars, data, flagVars, roundVars, packVars, outVars>>

(* HasEvent, then GetCurrentEvent and PopCurrentEvent under the lock.  An  *)
(* empty queue gives an empty event.                                       *)
TakeEvent ==
    \/ event_flag /\ Test("main", "running", TRUE, "get_current", "get_current")
    \/ Test("main", "get_current", TRUE, "pop_current", "pop_current")
    \/ /\ MainStep("pop_current", "running")
       /\ run_queue' = IF run_queue = <<>> THEN <<>> ELSE Tail(run_queue)
       /\ event_flag' = (event_flag /\ Len(run_queue) > 1)
       /\ UNCHANGED <<workerVars, runVars, data>>

Frontend == BeginOfRun \/ EndOfRun \/ PauseResume \/ IssueTrigger \/ TakeEvent

WorkerThreads == \E w \in Worker : WorkerStep(w) /\ UNCHANGED managerVars

(* A sequence is spoilt that begins while BeginOfRun still starts and      *)
(* flushes the workers, or when BuilderLoop has read sequence_in_progress_ *)
(* before it was raised and builder_has_finished_ after it was lowered: it *)
(* then packs what the bundle had.                                         *)
Spoils ==
    \/ /\ At("trigger", "begin") /\ pc'["trigger"] # "begin"
       /\ pc["main"] \notin {"running", "get_current", "pop_current"}
    \/ At("builder", "finished") /\ pc'["builder"] = "push" /\ sequence_in_progress

History == spoilt' = (spoilt \/ Spoils)

Next ==
    /\ RunLoop \/ TriggerLoop \/ BuilderLoop \/ StarterLoop \/ Frontend \/ WorkerThreads
    /\ History

Spec == Init /\ [][Next]_vars

(* The threads are scheduled, and the frontend goes on with what it began; *)
(* triggers need not come, nor runs begin or end.                          *)
FairSpec ==
    /\ Spec
    /\ WF_vars(RunLoop /\ History) /\ WF_vars(TriggerLoop /\ History)
    /\ WF_vars(BuilderLoop /\ History) /\ WF_vars(StarterLoop /\ History)
    /\ WF_vars(Frontend /\ pc["main"] \notin {"idle", "running"} /\ History)
    /\ \A w \in Worker : WF_vars(WorkerStep(w) /\ UNCHANGED managerVars /\ History)

-----------------------------------------------------------------------------
(* Types of everything the manager adds to the workers.                    *)
Label == {"outer", "check", "any", "wait", "all", "multi", "get", "push", "flush",
          "flag", "done", "start", "begin", "unfinish", "unconfigure", "round",
          "reset", "set_mux", "fire", "configured", "await", "end", "forget",
          "await_builder", "turn", "progress", "going", "is_configured", "take",
          "round_data", "round_taken", "over", "finished", "receive", "software",
          "clear", "idle", "threads", "workers", "stale", "stale_flush",
          "stale_flag", "running", "stop_workers", "stop_threads", "join_thread",
          "join", "get_current", "pop_current"}

Bundle == Seq(Event \cup {Uninitialised})
Packed == [Round -> Event \cup {Uninitialised}]

StateOK ==
    /\ WorkersTypeOK
    /\ pc \in [Thread -> Label] /\ idx \in [Thread -> Worker]
    /\ bundle \in Bundle /\ data \in Seq(Bundle)
    /\ \A flag \in {go_time, thread_live, event_flag, got_software_trg, got_start_trg,
                    got_round_data, builder_has_finished, sequence_in_progress,
                    mux_round_configured} : flag \in BOOLEAN
    /\ round \in 1..(NRounds + 1) /\ mux \in Round
    /\ seq_index \in Nat
    /\ probes \in Packed /\ run_queue \in Seq(Packed) /\ packed \in Seq(Packed)
    /\ {runs, starts, sequences} \subseteq Nat
    /\ aim \in Seq(Nat \X Round)

TypeOK == StateOK /\ spoilt \in BOOLEAN

(* "Builds the event by selecting the proper data from each round": the    *)
(* i-th event packed is that of the i-th sequence, and its r-th probe is   *)
(* what the digitizer saw of the pulse fired in the r-th round.            *)
EventsProper ==
    \A i \in DOMAIN packed : \A r \in Round : \E n \in DOMAIN aim :
        aim[n] = <<i, r>> /\ packed[i][r] = Whole(Wfd[r], n)

(* Two things only can go wrong with that, if rounds are far apart and no  *)
(* sequence is cut short: BuilderLoop's test of two flags is split by a    *)
(* sequence that begins, or a sequence begins before BeginOfRun is over.   *)
(* As long as neither has happened, every event packed is proper.          *)
EventsUnspoilt == ~spoilt => EventsProper

(* "Listens for sequence start signals": no more sequences begin than      *)
(* start signals came, but for the one that each of the two flags brings   *)
(* that is TRUE before anything assigned it.                               *)
Early(flag) == IF flag \in Raised THEN 1 ELSE 0
SequencesAsked == sequences <= starts + Early("software_trg") + Early("start_trg")

(* "interacting with the BuilderLoop to ensure data capture": the four     *)
(* loops never wait for each other for ever.  Again and again there are as *)
(* many events packed as sequences begun, spoilt ones included, or the run *)
(* is paused or over; and no call of EndOfRun is still joining them.       *)
Ending == pc["main"] \in {"end", "stop_workers", "stop_threads", "join_thread", "join"}
ComesToRest == []<>(~Ending /\ (sequences = Len(packed) \/ ~go_time))
=============================================================================
