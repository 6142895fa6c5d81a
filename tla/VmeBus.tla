------------------------------- MODULE VmeBus -------------------------------
(***************************************************************************)
(* The calls of WorkerVme<T>: Read, Write, Read16, Write16 and the block   *)
(* reads ReadTrace*.  They all do the same: under daq::vme_mutex they open *)
(* the device, making up to maxcount_ + 1 attempts, make one call of the   *)
(* sis3100 library, close the device and return what that call returned.   *)
(*                                                                         *)
(* The result passes through "retval" and the attempts are counted in      *)
(* "count", both static in a template: the threads of one device class     *)
(* share them, and the mutex alone keeps one call's answer from another's. *)
(*                                                                         *)
(* What a transfer does to a board is in the module of the board; it takes *)
(* place in the step Transfer.                                             *)
(***************************************************************************)
EXTENDS Integers

CONSTANTS
    Thread,     \* the threads that use the bus
    Class,      \* Class[t]: the T of the WorkerVme<T> thread t calls
    MaxCount,   \* WorkerVme::maxcount_
    Nobody      \* holds the mutex when no thread does

ASSUME VmeBusAssumption ==
    /\ Class \in [Thread -> STRING]
    /\ MaxCount \in Nat
    /\ Nobody \notin Thread

VARIABLES
    vme_mutex,  \* the thread that holds daq::vme_mutex
    call,       \* call[t]: where t is in its call, the call's result rc, and
                \* "own", what its own transfer answered
    statics     \* statics[c]: the static variables of WorkerVme<c>'s calls

busVars == <<vme_mutex, call, statics>>

(* A call's answer: 0, or an error, -1 standing for all of them.           *)
Ok == 0
Failed == -1
Answer == {Ok, Failed}

Classes == {Class[t] : t \in Thread}

NoCall == [step |-> "none", rc |-> Ok, own |-> Ok]

BusInit ==
    /\ vme_mutex = Nobody
    /\ call = [t \in Thread |-> NoCall]
    /\ statics = [c \in Classes |-> [retval |-> Ok, count |-> 0]]

At(t, step) == call[t].step = step

Finished(t) == At(t, "done")

(* t makes a call: for use in t's own step, once its last call is over.    *)
Begin(t) ==
    /\ call' = [call EXCEPT ![t] = [NoCall EXCEPT !.step = "lock"]]
    /\ UNCHANGED <<vme_mutex, statics>>

(* t has used the answer of its last call.                                 *)
Forget(t) ==
    /\ call' = [call EXCEPT ![t] = NoCall]
    /\ UNCHANGED <<vme_mutex, statics>>

(* Mutant: the mutex is not taken.                                         *)
LockNot(t) ==
    /\ At(t, "lock")
    /\ statics' = [statics EXCEPT ![Class[t]].count = 0]
    /\ call' = [call EXCEPT ![t].step = "open"]
    /\ UNCHANGED vme_mutex

(* std::lock_guard, and count = 0.                                         *)
Lock(t) ==
    /\ At(t, "lock")
    /\ vme_mutex = Nobody
    /\ vme_mutex' = t
    /\ statics' = [statics EXCEPT ![Class[t]].count = 0]
    /\ call' = [call EXCEPT ![t].step = "open"]

Open(t) ==
    /\ At(t, "open")
    /\ call' = [call EXCEPT ![t].step = "transfer"]
    /\ UNCHANGED <<vme_mutex, statics>>

(* open() fails: another attempt, or the end of the call.                  *)
OpenAgain(t) ==
    /\ At(t, "open")
    /\ statics[Class[t]].count < MaxCount
    /\ statics' = [statics EXCEPT ![Class[t]].count = @ + 1]
    /\ UNCHANGED <<vme_mutex, call>>

(* Mutant: the early return leaves the mutex locked.                       *)
NoDeviceLocked(t) ==
    /\ At(t, "open")
    /\ statics[Class[t]].count >= MaxCount
    /\ call' = [call EXCEPT ![t] = [step |-> "done", rc |-> Failed, own |-> Failed]]
    /\ UNCHANGED <<vme_mutex, statics>>

(* "failure to find vme device": device_ is the result.                    *)
NoDevice(t) ==
    /\ At(t, "open")
    /\ statics[Class[t]].count >= MaxCount
    /\ vme_mutex' = Nobody
    /\ call' = [call EXCEPT ![t] = [step |-> "done", rc |-> Failed, own |-> Failed]]
    /\ UNCHANGED statics

(* The sis3100 call answers rc: -1 if the ioctl fails, the request's error *)
(* if the cycle does, else 0.                                              *)
Transfer(t, rc) ==
    /\ At(t, "transfer")
    /\ statics' = [statics EXCEPT ![Class[t]].retval = rc]
    /\ call' = [call EXCEPT ![t].step = "close", ![t].own = rc]
    /\ UNCHANGED vme_mutex

(* close(device_), return retval, and the guard releases the mutex.        *)
Return(t) ==
    /\ At(t, "close")
    /\ vme_mutex' = Nobody
    /\ call' = [call EXCEPT ![t].step = "done", ![t].rc = statics[Class[t]].retval]
    /\ UNCHANGED statics

BusTypeOK ==
    /\ vme_mutex \in Thread \cup {Nobody}
    /\ call \in [Thread ->
          [step : {"none", "lock", "open", "transfer", "close", "done"},
           rc : Answer, own : Answer]]
    /\ statics \in [Classes -> [retval : Answer, count : 0..MaxCount]]

(* A call returns what its own transfer answered, however the calls of the *)
(* threads that share the static variables interleave.                     *)
OwnAnswer == \A t \in Thread : Finished(t) => call[t].rc = call[t].own
=============================================================================
