----------------------------- MODULE SyncSystem -----------------------------
(***************************************************************************)
(* One SyncTrigger and its SyncClients: the two servers' loops, every      *)
(* client's threads, their frontends and the sockets between them, with    *)
(* clients that crash and come back, frontends that give up a wait, and    *)
(* waits that time out.                                                    *)
(*                                                                         *)
(* The code's times are 240 s for a wait (trigger_timeout_), 120 s for a   *)
(* silent client (client_timeout_) and a heartbeat every 0.1 s.  Of these  *)
(* the model keeps two facts: a client that waited long enough to time out *)
(* was heard (and its subscription is in effect), and a client is dropped  *)
(* only while it beats no more, unless a fault holds its heartbeats up.    *)
(***************************************************************************)
EXTENDS SyncTrigger, SyncClient

CONSTANT MaxFaults      \* bound on crashes, given up waits and early timeouts

ASSUME FaultsAssumption == MaxFaults \in Nat

VARIABLES
    faults,     \* faults so far
    miscounted, \* history: the last count of the clients left out one that runs
    disturbed   \* history: the clients were once miscounted, or a READY was
                \* taken back that is or will be counted

faultVars == <<faults, miscounted, disturbed>>
vars == <<serverVars, clientVars, networkVars, faultVars>>

N == Cardinality(Client)

Init ==
    /\ ServerInitWith(FALSE, 0) /\ ClientsInit /\ NetworkInit
    /\ faults = 0 /\ miscounted = FALSE /\ disturbed = FALSE

(* FixNumClients was called before the first client came.                  *)
FixedInit ==
    /\ ServerInitWith(TRUE, N) /\ ClientsInit /\ NetworkInit
    /\ faults = 0 /\ miscounted = FALSE /\ disturbed = FALSE

-----------------------------------------------------------------------------
(* The server, while the clients do nothing.                               *)

Owner ==
    /\ \/ (\E on \in BOOLEAN : SetTriggering(on)) /\ UNCHANGED miscounted
       \/ FixNumClients(N) /\ miscounted' = FALSE
    /\ UNCHANGED <<clientVars, faults, disturbed>>

TriggerThread == TriggerLoop /\ UNCHANGED <<clientVars, faultVars>>

RegisterThread(c) == Register(c) /\ UNCHANGED <<clientVars, faultVars>>

(* HeartbeatLoop of c, and its message read by ClientLoop.                 *)
Heartbeat(c) == Up(c) /\ Hear(c) /\ UNCHANGED <<clientVars, faultVars>>

(* A drop counts the clients anew: those whose heartbeats are remembered.  *)
LeftOut ==
    ~fix_num_clients /\ \E c \in Client : (Up(c) \/ c \in confirmations) /\ c \notin Known'

CountAnew ==
    /\ DropClient
    /\ miscounted' = LeftOut
    /\ disturbed' = (disturbed \/ LeftOut)

DropSilent ==
    /\ client_time # <<>> /\ ~Up(Head(client_time))
    /\ CountAnew
    /\ UNCHANGED <<clientVars, faults>>

-----------------------------------------------------------------------------
(* A client, while the server does nothing.                                *)

serverElse == <<triggering, fix_num_clients, num_clients, clients_good,
                trigger_loop, clients_ready, client_time>>

Joining(c) ==
    /\ Launch(c) \/ RequestRegistration(c) \/ Connect(c) \/ Subscribe(c)
    /\ UNCHANGED <<serverVars, faultVars>>

StatusThread(c) ==
    \/ StatusLoop(c) /\ UNCHANGED <<serverVars, faultVars>>
    \/ ReceiveTrigger(c) /\ ForsakeCount(c) /\ UNCHANGED <<serverElse, faultVars>>

Frontend(c) == (SetReady(c) \/ HasTrigger(c)) /\ UNCHANGED <<serverVars, faultVars>>

(* Nothing on its way ends the wait of c: its READY was forgotten by       *)
(* StopTriggers, or the trigger was sent before c was subscribed.          *)
Hopeless(c) == c \notin requests \cup replies \cup counted /\ inbox[c] = 0

TimeOutAtLast(c) ==
    /\ Hopeless(c) /\ c \in Known \cap subscribed
    /\ TimeOut(c)
    /\ UNCHANGED <<serverVars, faultVars>>

Fault == faults < MaxFaults /\ faults' = faults + 1

(* The heartbeats of a client that runs are held up for client_timeout_.   *)
DropLate ==
    /\ Fault
    /\ client_time # <<>> /\ Up(Head(client_time))
    /\ CountAnew
    /\ UNCHANGED clientVars

Claims(c) == c \in requests \cup counted

TimeOutEarly(c) ==
    /\ Fault /\ ~Hopeless(c) /\ c \in Known
    /\ TimeOut(c)
    /\ UNCHANGED <<serverVars, miscounted, disturbed>>

RestartThread(c) ==
    /\ Restart(c)
    /\ ForsakeCount(c)
    /\ disturbed' = (disturbed \/ Claims(c))
    /\ UNCHANGED <<serverElse, faults, miscounted>>

(* The READY is out, or StatusLoop is about to send it.                    *)
GiveUp(c) ==
    /\ Fault
    /\ UnsetReady(c)
    /\ IF c \in sent_ready THEN ForsakeCount(c) ELSE UNCHANGED <<counted, stale>>
    /\ disturbed' = (disturbed \/ c \in ready)
    /\ UNCHANGED <<serverElse, miscounted>>

Die(c) ==
    /\ Fault
    /\ Crash(c)
    /\ ForsakeCount(c)
    /\ disturbed' = (disturbed \/ Claims(c))
    /\ UNCHANGED <<serverElse, miscounted>>

-----------------------------------------------------------------------------
Next ==
    \/ Owner \/ TriggerThread \/ DropSilent \/ DropLate
    \/ \E c \in Client :
          \/ RegisterThread(c) \/ Heartbeat(c) \/ Joining(c) \/ StatusThread(c) \/ Frontend(c)
          \/ TimeOutAtLast(c) \/ TimeOutEarly(c) \/ RestartThread(c)
          \/ GiveUp(c) \/ Die(c)

(* Threads run and messages arrive; the frontend calls SetReady and polls. *)
(* A subscription may come into effect after the READY, but not each time: *)
(* a client that is always late loses every trigger and restarts for ever. *)
Fairness ==
    /\ WF_vars(TriggerThread)
    /\ \A c \in Client :
          /\ WF_vars(RegisterThread(c)) /\ WF_vars(c \notin Known /\ Heartbeat(c))
          /\ WF_vars(RequestRegistration(c) /\ UNCHANGED <<serverVars, faultVars>>)
          /\ WF_vars(Connect(c) /\ Joining(c))
          /\ WF_vars(Subscribe(c) /\ Joining(c))
          /\ SF_vars(Subscribe(c) /\ Joining(c) /\ Status(c, "loop") /\ c \notin sent_ready)
          /\ WF_vars(StatusThread(c)) /\ WF_vars(Frontend(c))
          /\ WF_vars(TimeOutAtLast(c)) /\ WF_vars(RestartThread(c))

Spec == Init /\ [][Next]_vars

FixedSpec == FixedInit /\ [][Next]_vars /\ Fairness

-----------------------------------------------------------------------------
(* Every variable has its type.                                            *)
TypeOK == ServerTypeOK /\ ClientsTypeOK /\ NetworkTypeOK
          /\ faults \in 0..MaxFaults
          /\ miscounted \in BOOLEAN /\ disturbed \in BOOLEAN

(* No client is a trigger ahead: at most one waits in its socket, and only *)
(* while it waits for it ("trigger loop": all are ready, then all are      *)
(* triggered).  The code keeps this until a READY is taken back that is or *)
(* will be counted, by UnsetReady, a restart or a crash, or a recount      *)
(* leaves out a client that runs; from then on it may be lost for good,    *)
(* for every client, as a trigger too many is never taken back.            *)
InStep ==
    ~disturbed => \A c \in Client :
        inbox[c] > 0 => inbox[c] = 1 /\ c \in ready

(* A trigger goes out only when every client that is up was counted for    *)
(* it, unless one of the READYs counted for this very trigger was taken    *)
(* back (stale), or the clients' number last left out one that runs.       *)
(* Whatever was taken back or miscounted before, the next trigger is       *)
(* waited for by all again.                                                *)
AllWereReady ==
    [][trigger_loop = "poll" /\ trigger_loop' = "while" /\ clients_ready # 0
          /\ clients_ready' = 0 /\ stale = 0 /\ ~miscounted
       => \A c \in Client : Up(c) => c \in counted]_vars

(* Once the number is fixed and right and the run goes on, every client is *)
(* triggered again and again, whatever crashed, gave up or timed out       *)
(* before: TimeOut, RestartLoop and the registration mend it.              *)
Recovers ==
    <>[](/\ triggering /\ fix_num_clients
         /\ \A c \in Client : phase[c] # "off")
    => \A c \in Client : []<>(c \in got_trigger)
=============================================================================
