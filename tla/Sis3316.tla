------------------------------- MODULE Sis3316 -------------------------------
(***************************************************************************)
(* The readout of a SIS 3316 (worker_sis3316.cxx) over the VME bus, call by *)
(* call: WorkLoop polls the status register (EventAvailable), swaps the    *)
(* board's two memory banks, and GetEvent reads one channel after another  *)
(* from the bank that was armed.  Other threads use the bus meanwhile, and *)
(* transfers fail.                                                         *)
(*                                                                         *)
(* WorkLoop pushes its static bundle whether or not GetEvent filled it, so *)
(* a readout that gives up pushes an old event again.  What the code owes  *)
(* its reader is then the log: an event that is not the one the board      *)
(* recorded is announced by an error, in its own readout or, if the banks  *)
(* could not be swapped, in the one before.                                *)
(*                                                                         *)
(* An event is abstracted to its number, 0 standing for no event's data,   *)
(* and a bundle to the number each channel's trace came from.  There is    *)
(* one SIS 3316, as in every configuration in config/: Workers has the     *)
(* races of two of them over the static variables.                         *)
(***************************************************************************)
EXTENDS VmeBus

CONSTANTS
    Digitizer,      \* the thread of the WorkerSis3316
    NumCh,          \* SIS_3316_CH: channels, of one ADC group
    MaxPoll,        \* WorkerSis3316::kMaxPoll
    MaxEvents,      \* bound: events the board records
    MaxFaults,      \* bound: calls of the digitizer that fail
    Faulty          \* the positions whose transfers may fail

Bank == 1..2
Other(bank) == 3 - bank
Channel == 1..NumCh

(* Where the thread is: at "poll", or in one of the calls below.           *)
Calls == {"acq", "arm", "address", "start", "trace", "reset"}

ASSUME Sis3316Assumption ==
    /\ Digitizer \in Thread
    /\ NumCh \in Nat \ {0}
    /\ MaxPoll \in Nat /\ MaxEvents \in Nat /\ MaxFaults \in Nat
    /\ Faulty \subseteq Calls

VARIABLES
    board,      \* the SIS 3316: see BoardType
    taken,      \* events recorded
    faults,     \* failures so far
    go_time_,   \* WorkerBase::go_time_
    at,         \* where the worker's thread is
    bank2_armed_flag,
    status,     \* EventAvailable: the event flag in its static msg
    count,      \* the attempts counted by the loop the thread is in
    ch,         \* GetEvent: the channel it is at
    msg,        \* GetEvent: its msg, see Word
    data,       \* GetEvent: the static buffers of the channels
    bundle,     \* WorkLoop: its static bundle
    readout,    \* history: the event being read, whether an error was logged since
                \* its banks were to be swapped, whether they were, and whether the
                \* readout before logged that its own were not
    pushed      \* the last event pushed on data_queue_, with its readout

boardVars == <<board, taken>>
threadVars == <<at, bank2_armed_flag, status, count, ch, msg, data, bundle,
                readout, pushed>>
vars == <<busVars, boardVars, faults, go_time_, threadVars>>

(* What msg holds: the bank bit of the word, and whether any of its low 24 *)
(* bits is set.                                                            *)
Word == [bank : Bank, some : BOOLEAN]

Idle == [bank |-> 0, channel |-> 0]

BoardType ==
    [armed : Bank,                               \* the bank sampled into
     full : BOOLEAN,                             \* memory threshold flag
     memory : [Bank -> [Channel -> Nat]],        \* the event in each bank
     previous : Word,                            \* previous sample address
     fsm : {Idle} \cup [bank : Bank, channel : Channel]]  \* its transfer

Event(n) == [c \in Channel |-> n]

(* The constructor: LoadConfig armed bank 1.                               *)
Init ==
    /\ BusInit
    /\ board = [armed |-> 1, full |-> FALSE, memory |-> [k \in Bank |-> Event(0)],
                previous |-> [bank |-> 2, some |-> FALSE], fsm |-> Idle]
    /\ taken = 0 /\ faults = 0
    /\ go_time_ = FALSE
    /\ at = "poll" /\ bank2_armed_flag = FALSE
    /\ status = FALSE /\ count = 0 /\ ch = 1 /\ msg \in Word
    /\ data = Event(0) /\ bundle = Event(0)
    /\ readout = [event |-> 0, logged |-> FALSE, swapped |-> TRUE, before |-> FALSE]
    /\ pushed = [bundle |-> Event(0), event |-> 0, logged |-> FALSE, before |-> FALSE]

-----------------------------------------------------------------------------
(* The board.                                                              *)

(* It records an event in the armed bank; once that is full it misses      *)
(* triggers until the banks are swapped.                                   *)
Trigger ==
    /\ taken < MaxEvents
    /\ ~board.full
    /\ taken' = taken + 1
    /\ board' = [board EXCEPT !.full = TRUE, !.memory[board.armed] = Event(taken + 1)]
    /\ UNCHANGED <<busVars, faults, go_time_, threadVars>>

(* Some time after a swap the address register shows the bank now free.    *)
Latch ==
    /\ board.previous.bank = board.armed
    /\ board' = [board EXCEPT !.previous =
          [bank |-> Other(board.armed),
           some |-> board.memory[Other(board.armed)] # Event(0)]]
    /\ UNCHANGED <<busVars, taken, faults, go_time_, threadVars>>

(* KEY_DISARM_AND_ARM_BANK1 and 2.                                         *)
Armed(bank) ==
    [board EXCEPT !.armed = bank, !.full = FALSE, !.memory[bank] = Event(0)]

-----------------------------------------------------------------------------
(* The worker's calls.                                                     *)

(* The bank being read is the one bank2_armed_flag says is not armed.      *)
FreeBank == IF bank2_armed_flag THEN 1 ELSE 2

(* The bank EventAvailable arms next.                                      *)
NextBank == FreeBank

(* Mutant: the bank 2 offset is left out of the transfer command.          *)
CommandBank1 == [bank |-> 1, some |-> FALSE]

(* The word that starts a transfer: only bits above the low 24 are set.    *)
Command == [bank |-> FreeBank, some |-> FALSE]

Log == readout' = [readout EXCEPT !.logged = TRUE]
LogIf(error) == IF error THEN Log ELSE UNCHANGED readout

(* The calls that say so when their transfer fails, Write and ReadTraceFifo *)
(* but not Read; polls are no part of a readout.                           *)
Telling == {"arm", "start", "trace", "reset"}

Fail == faults < MaxFaults /\ faults' = faults + 1

(* A transfer that succeeds, by what the thread called for.                *)
TransferOk ==
    /\ Transfer(Digitizer, Ok)
    /\ board' = CASE at = "arm" -> Armed(NextBank)
                  [] at = "start" ->
                       [board EXCEPT !.fsm = [bank |-> msg.bank, channel |-> ch]]
                  [] at = "reset" -> [board EXCEPT !.fsm = Idle]
                  [] OTHER -> board
    /\ status' = IF at = "acq" THEN board.full ELSE status
    /\ msg' = IF at = "address" THEN board.previous ELSE msg
    /\ at = "trace" => board.fsm # Idle
    /\ data' = IF at # "trace" THEN data
               ELSE [data EXCEPT ![ch] = board.memory[board.fsm.bank][board.fsm.channel]]
    /\ UNCHANGED <<faults, readout>>

(* A transfer that fails changes neither the board nor, except that a      *)
(* trace may be half read, what it was to read.  One from a fifo no        *)
(* transfer was started for always fails, or gives meaningless words.      *)
TransferFails ==
    /\ \E rc \in Answer :
          /\ Transfer(Digitizer, rc)
          /\ \/ at \in Faulty /\ Fail /\ rc = Failed
             \/ at = "trace" /\ board.fsm = Idle /\ UNCHANGED faults
          /\ LogIf(rc = Failed /\ at \in Telling)
    /\ \/ UNCHANGED data
       \/ at = "trace" /\ data' = [data EXCEPT ![ch] = 0]
    /\ UNCHANGED <<board, status, msg>>

(* The digitizer's side of a call, up to its return.  Every call says that *)
(* it found no device.                                                     *)
BusCall ==
    /\ \/ /\ \/ Lock(Digitizer) \/ Open(Digitizer) \/ OpenAgain(Digitizer)
             \/ Return(Digitizer)
          /\ UNCHANGED <<board, status, msg, data, faults, readout>>
       \/ /\ NoDevice(Digitizer) /\ Fail /\ LogIf(at # "acq")
          /\ UNCHANGED <<board, status, msg, data>>
       \/ TransferOk
       \/ TransferFails
    /\ UNCHANGED <<taken, go_time_, at, bank2_armed_flag, count, ch, bundle, pushed>>

Rc == call[Digitizer].rc

Answered(step) == at = step /\ Finished(Digitizer)

(* The next call, or the same again.                                       *)
Call(step) == at' = step /\ Begin(Digitizer)

-----------------------------------------------------------------------------
(* EventAvailable, called while go_time_.                                  *)
Poll ==
    /\ at = "poll" /\ go_time_
    /\ status' = FALSE /\ count' = 0
    /\ Call("acq")
    /\ UNCHANGED <<boardVars, faults, go_time_, bank2_armed_flag, ch, msg, data,
                   bundle, readout, pushed>>

(* (rc != 0) && (count++ < kMaxPoll)                                       *)
Retry == Rc # Ok /\ count < MaxPoll

AcqAgain ==
    /\ Answered("acq") /\ Retry
    /\ count' = count + 1
    /\ Call("acq")
    /\ UNCHANGED <<boardVars, faults, go_time_, bank2_armed_flag, status, ch, msg,
                   data, bundle, readout, pushed>>

(* Read the flag; swap the banks if there is an event.                     *)
Available ==
    /\ Answered("acq") /\ ~Retry
    /\ IF status /\ go_time_
       THEN /\ Call("arm") /\ count' = 0
            /\ readout' = [event |-> board.memory[board.armed][1], logged |-> FALSE,
                           swapped |-> TRUE,
                           before |-> readout.logged /\ ~readout.swapped]
       ELSE at' = "poll" /\ Forget(Digitizer) /\ UNCHANGED <<count, readout>>
    /\ UNCHANGED <<boardVars, faults, go_time_, bank2_armed_flag, status, ch, msg,
                   data, bundle, pushed>>

(* Every attempt sets bank2_armed_flag, to the same value and whether or   *)
(* not it succeeded; nobody reads it before the last, where Swapped sets it. *)
ArmAgain ==
    /\ Answered("arm") /\ Retry
    /\ count' = count + 1
    /\ Call("arm")
    /\ UNCHANGED <<boardVars, faults, go_time_, bank2_armed_flag, status, ch, msg,
                   data, bundle, readout, pushed>>

(* GetEvent's first call.  Its msg is not initialised.  Besides Write, only *)
(* the branch that arms bank 2 says that it failed.                        *)
Swapped ==
    /\ Answered("arm") /\ ~Retry
    /\ bank2_armed_flag' = ~bank2_armed_flag
    /\ readout' = [readout EXCEPT !.swapped = (Rc = Ok),
          !.logged = @ \/ (~bank2_armed_flag /\ (Rc # Ok \/ count >= MaxPoll))]
    /\ ch' = 1 /\ count' = 0
    /\ msg' \in Word
    /\ Call("address")
    /\ UNCHANGED <<boardVars, faults, go_time_, status, data, bundle, pushed>>

-----------------------------------------------------------------------------
(* GetEvent.                                                               *)

(* GetEvent returns early; WorkLoop will push what the bundle held before. *)
GiveUp ==
    /\ at' = "push" /\ Forget(Digitizer)
    /\ Log
    /\ UNCHANGED <<count, msg>>

TimedOut == count > MaxPoll

(* Mutant: the attempts are not limited.                                   *)
AddressAnsweredNoLimit ==
    /\ Answered("address")
    /\ IF msg.bank # FreeBank
       THEN Call("address") /\ count' = count + 1 /\ LogIf(Rc # Ok) /\ UNCHANGED msg
       ELSE IF ~msg.some THEN GiveUp
       ELSE Call("start") /\ msg' = Command /\ LogIf(Rc # Ok) /\ UNCHANGED count
    /\ UNCHANGED <<boardVars, faults, go_time_, bank2_armed_flag, status, ch, data,
                   bundle, pushed>>

(* The address is read until it shows the free bank.  A read that fails    *)
(* leaves msg as it was, and that word is examined all the same.           *)
AddressAnswered ==
    /\ Answered("address")
    /\ IF TimedOut THEN GiveUp
       ELSE IF msg.bank # FreeBank
       THEN Call("address") /\ count' = count + 1 /\ LogIf(Rc # Ok) /\ UNCHANGED msg
       ELSE IF ~msg.some THEN GiveUp
       ELSE Call("start") /\ msg' = Command /\ LogIf(Rc # Ok) /\ UNCHANGED count
    /\ UNCHANGED <<boardVars, faults, go_time_, bank2_armed_flag, status, ch, data,
                   bundle, pushed>>

StartAnswered ==
    /\ Answered("start")
    /\ LogIf(Rc # Ok)
    /\ count' = 0
    /\ Call("trace")
    /\ UNCHANGED <<boardVars, faults, go_time_, bank2_armed_flag, status, ch, msg,
                   data, bundle, pushed>>

(* The trace is read again while that fails, then the fifo is reset.       *)
TraceAnswered ==
    /\ Answered("trace")
    /\ LogIf(Rc # Ok \/ count >= MaxPoll)
    /\ IF Retry THEN Call("trace") /\ count' = count + 1
       ELSE Call("reset") /\ UNCHANGED count
    /\ UNCHANGED <<boardVars, faults, go_time_, bank2_armed_flag, status, ch, msg,
                   data, bundle, pushed>>

(* The next channel, or the bundle is filled from the buffers.             *)
ResetAnswered ==
    /\ Answered("reset")
    /\ LogIf(Rc # Ok)
    /\ IF ch < NumCh
       THEN ch' = ch + 1 /\ count' = 0 /\ Call("address") /\ UNCHANGED bundle
       ELSE at' = "push" /\ Forget(Digitizer) /\ bundle' = data /\ UNCHANGED <<ch, count>>
    /\ UNCHANGED <<boardVars, faults, go_time_, bank2_armed_flag, status, msg, data,
                   pushed>>

(* WorkLoop: data_queue_.push(bundle).                                     *)
Push ==
    /\ at = "push"
    /\ pushed' = [bundle |-> bundle, event |-> readout.event,
                  logged |-> readout.logged, before |-> readout.before]
    /\ at' = "poll"
    /\ UNCHANGED <<busVars, boardVars, faults, go_time_, bank2_armed_flag, status,
                   count, ch, msg, data, bundle, readout>>

WorkLoop ==
    \/ Poll \/ AcqAgain \/ Available \/ ArmAgain \/ Swapped \/ AddressAnswered
    \/ StartAnswered \/ TraceAnswered \/ ResetAnswered \/ Push

-----------------------------------------------------------------------------
(* Other threads: StartWorker and StopWorker, and workers of another class *)
(* on the bus, whose calls may fail at any time.                           *)
SetGoTime ==
    /\ go_time_' = ~go_time_
    /\ UNCHANGED <<busVars, boardVars, faults, threadVars>>

OtherCall(t) ==
    /\ \/ At(t, "none") /\ Begin(t)
       \/ Lock(t) \/ Open(t) \/ OpenAgain(t) \/ NoDevice(t)
       \/ \E rc \in Answer : Transfer(t, rc)
       \/ Return(t)
       \/ Finished(t) /\ Forget(t)
    /\ UNCHANGED <<boardVars, faults, go_time_, threadVars>>

Others == Thread \ {Digitizer}

Next ==
    \/ Trigger \/ Latch \/ SetGoTime
    \/ BusCall \/ WorkLoop
    \/ \E t \in Others : OtherCall(t)

Spec == Init /\ [][Next]_vars

(* Every thread runs, the board latches, and a thread that waits for the   *)
(* mutex gets it in the end, others though may take it first.              *)
Fairness ==
    /\ WF_vars(Latch) /\ WF_vars(WorkLoop) /\ WF_vars(BusCall)
    /\ SF_vars(Lock(Digitizer) /\ BusCall)
    /\ \A t \in Others : WF_vars(OtherCall(t) /\ ~At(t, "none"))

FairSpec == Spec /\ Fairness

-----------------------------------------------------------------------------
(* Types.  A poll of the address is repeated at most kMaxPoll + 1 times.   *)
TypeOK ==
    /\ BusTypeOK
    /\ board \in BoardType
    /\ taken \in 0..MaxEvents /\ faults \in 0..MaxFaults
    /\ go_time_ \in BOOLEAN
    /\ at \in Calls \cup {"poll", "push"}
    /\ bank2_armed_flag \in BOOLEAN /\ status \in BOOLEAN
    /\ count \in 0..(MaxPoll + 1) /\ ch \in Channel /\ msg \in Word
    /\ data \in [Channel -> Nat] /\ bundle \in [Channel -> Nat]
    /\ readout \in [event : Nat, logged : BOOLEAN, swapped : BOOLEAN, before : BOOLEAN]
    /\ pushed \in [bundle : [Channel -> Nat], event : Nat, logged : BOOLEAN,
                   before : BOOLEAN]

(* The event pushed is the one the board had recorded when its flag was    *)
(* seen, in every channel, or an error was logged while it was read, or    *)
(* the readout before logged that the banks could not be swapped: no old,  *)
(* mixed or half read event goes out in silence, and a swap that failed in *)
(* every attempt spoils no more than its own event and the next.           *)
BadEventsLogged ==
    \/ pushed.logged \/ pushed.before
    \/ pushed.bundle = Event(pushed.event)

(* Every event the board records is read out, and its readout ends in a    *)
(* push, unless the run is stopped.                                        *)
ReadOut == \A n \in 1..MaxEvents : taken = n ~> (pushed.event >= n \/ ~go_time_)
=============================================================================
