----------------------------- MODULE SyncTrigger -----------------------------
(***************************************************************************)
(* SyncTrigger: a server that sends a trigger to all clients when all of   *)
(* them are ready for one.  TriggerLoop counts READY messages; ClientLoop  *)
(* registers clients, listens to their heartbeats and drops the silent     *)
(* ones.  The two threads share num_clients_ and clients_good_.            *)
(*                                                                         *)
(* client_time_ maps a client to the time of its last heartbeat; only the  *)
(* order of those times matters, so it is the sequence of its clients from *)
(* the one heard longest ago to the one heard last.  ClientLoop polls in   *)
(* turn for registrations, heartbeats and silence, and keeps nothing from  *)
(* one to the next, so the model lets it do any of them at any time.       *)
(***************************************************************************)
EXTENDS SyncNetwork, Integers, SequencesExt

VARIABLES
    triggering,         \* triggering_
    fix_num_clients,    \* fix_num_clients_
    num_clients,        \* num_clients_
    clients_good,       \* clients_good_
    trigger_loop,       \* where TriggerLoop is
    clients_ready,      \* TriggerLoop: clients_ready
    client_time,        \* ClientLoop: client_time
    counted,            \* history: the clients counted that still wait
    stale               \* history: number of those counted that do not

controlVars == <<triggering, fix_num_clients>>
loopVars == <<trigger_loop, clients_ready, counted, stale>>
serverVars == <<triggering, fix_num_clients, num_clients, clients_good,
                trigger_loop, clients_ready, client_time, counted, stale>>

(* DefaultInit and LaunchThreads, with a number perhaps fixed at once.     *)
ServerInitWith(fixed, number) ==
    /\ triggering = FALSE /\ fix_num_clients = fixed
    /\ num_clients = number /\ clients_good = TRUE
    /\ trigger_loop = "idle" /\ clients_ready = 0 /\ client_time = <<>>
    /\ counted = {} /\ stale = 0

-----------------------------------------------------------------------------
(* The owner's calls.  FixNumClients() keeps the number at hand, which it  *)
(* must not do before a client has registered: ClientLoop would erase from *)
(* an empty map.                                                           *)
SetTriggering(on) ==
    /\ triggering = ~on /\ triggering' = on
    /\ UNCHANGED <<fix_num_clients, num_clients, clients_good, loopVars,
                   client_time, networkVars>>

FixNumClients(number) ==
    /\ ~fix_num_clients /\ number > 0
    /\ fix_num_clients' = TRUE /\ num_clients' = number
    /\ UNCHANGED <<triggering, clients_good, loopVars, client_time, networkVars>>

-----------------------------------------------------------------------------
(* TriggerLoop.                                                            *)

Forget == clients_ready' = 0 /\ counted' = {} /\ stale' = 0

(* "while (triggering_)": the inner loop is entered, gone on with or left. *)
BeginRun ==
    /\ trigger_loop = "idle" /\ triggering
    /\ trigger_loop' = "poll"
    /\ Forget
    /\ UNCHANGED <<controlVars, num_clients, clients_good, client_time,
                   networkVars>>

Continue ==
    /\ trigger_loop = "while" /\ triggering
    /\ trigger_loop' = "poll"
    /\ UNCHANGED <<controlVars, num_clients, clients_good, clients_ready,
                   counted, stale, client_time, networkVars>>

EndRun ==
    /\ trigger_loop = "while" /\ ~triggering
    /\ trigger_loop' = "idle"
    /\ Forget
    /\ clients_good' = TRUE
    /\ UNCHANGED <<controlVars, num_clients, client_time, networkVars>>

Waiting == trigger_loop = "poll" /\ num_clients # 0 /\ clients_ready < num_clients

(* Mutant: the READY is not counted.                                       *)
ReceiveReadyUncounted ==
    /\ Waiting
    /\ \/ \E c \in requests :
             /\ requests' = requests \ {c}
             /\ replies' = replies \cup {c}
             /\ counted' = counted \cup {c}
             /\ UNCHANGED <<stale_requests, stale>>
       \/ /\ stale_requests > 0 /\ stale_requests' = stale_requests - 1
          /\ stale' = stale + 1
          /\ UNCHANGED <<requests, replies, counted>>
    /\ trigger_loop' = "while"
    /\ UNCHANGED <<controlVars, num_clients, clients_good, clients_ready,
                   client_time, registerVars, triggerVars>>

(* A READY is read, answered, and counted; a reply to a client that has    *)
(* gone is sent all the same.                                              *)
ReceiveReady ==
    /\ Waiting
    /\ \/ \E c \in requests :
             /\ requests' = requests \ {c}
             /\ replies' = replies \cup {c}
             /\ counted' = counted \cup {c}
             /\ UNCHANGED <<stale_requests, stale>>
       \/ /\ stale_requests > 0 /\ stale_requests' = stale_requests - 1
          /\ stale' = stale + 1
          /\ UNCHANGED <<requests, replies, counted>>
    /\ clients_ready' = clients_ready + 1
    /\ trigger_loop' = "while"
    /\ UNCHANGED <<controlVars, num_clients, clients_good, client_time,
                   registerVars, triggerVars>>

(* Mutant: the count is kept.                                              *)
SendTriggerKeepCount ==
    /\ trigger_loop = "poll" /\ num_clients # 0 /\ clients_ready >= num_clients
    /\ inbox' = Published
    /\ clients_good' = TRUE
    /\ trigger_loop' = "while"
    /\ UNCHANGED <<controlVars, num_clients, clients_ready, counted, stale,
                   client_time, registerVars, statusVars, subscribed>>

(* Mutant: one client is not waited for.                                   *)
SendTriggerEarly ==
    /\ trigger_loop = "poll" /\ num_clients # 0 /\ clients_ready > 0
    /\ clients_ready + 1 >= num_clients
    /\ inbox' = Published
    /\ Forget
    /\ clients_good' = TRUE
    /\ trigger_loop' = "while"
    /\ UNCHANGED <<controlVars, num_clients, client_time, registerVars,
                   statusVars, subscribed>>

(* All are ready: a trigger is sent.  (A client that registers between the *)
(* comparison and the send subscribes much later: it sleeps in between.)   *)
SendTrigger ==
    /\ trigger_loop = "poll" /\ num_clients # 0 /\ clients_ready >= num_clients
    /\ inbox' = Published
    /\ Forget
    /\ clients_good' = TRUE
    /\ trigger_loop' = "while"
    /\ UNCHANGED <<controlVars, num_clients, client_time, registerVars,
                   statusVars, subscribed>>

Idle ==
    /\ \/ trigger_loop = "poll" /\ num_clients = 0
       \/ Waiting /\ requests = {} /\ stale_requests = 0
    /\ trigger_loop' = "while"
    /\ UNCHANGED <<controlVars, num_clients, clients_good, clients_ready,
                   counted, stale, client_time, networkVars>>

TriggerLoop ==
    BeginRun \/ Continue \/ EndRun \/ ReceiveReady \/ SendTrigger \/ Idle

-----------------------------------------------------------------------------
(* ClientLoop.                                                             *)

Known == {client_time[i] : i \in DOMAIN client_time}

(* A client not heard of before is counted; one too many replaces the one  *)
(* that was silent longest.                                                *)
CountClient(c) ==
    IF ~fix_num_clients /\ c \notin Known
    THEN num_clients' = num_clients + 1 /\ UNCHANGED client_time
    ELSE /\ client_time' = IF Len(client_time) + 1 > num_clients
                           THEN Tail(client_time) ELSE client_time
         /\ UNCHANGED num_clients

(* A request is read and answered with the addresses of the other sockets. *)
Register(c) ==
    /\ c \in registrations
    /\ registrations' = registrations \ {c}
    /\ confirmations' = confirmations \cup {c}
    /\ CountClient(c)
    /\ UNCHANGED <<controlVars, clients_good, loopVars, statusVars, triggerVars>>

(* Client c's heartbeat is received: c becomes the one heard last.         *)
Hear(c) ==
    /\ \/ c \notin Known /\ client_time' = Append(client_time, c)
       \/ \E i \in DOMAIN client_time :
             client_time[i] = c /\ client_time' = Append(RemoveAt(client_time, i), c)
    /\ UNCHANGED <<controlVars, num_clients, clients_good, loopVars, networkVars>>

(* Mutant: the clients are counted down, not counted.                      *)
DropClientCountDown ==
    /\ client_time # <<>>
    /\ client_time' = Tail(client_time)
    /\ IF fix_num_clients
       THEN /\ clients_good' = (num_clients = Len(client_time'))
            /\ UNCHANGED num_clients
       ELSE num_clients' = num_clients - 1 /\ UNCHANGED clients_good
    /\ UNCHANGED <<controlVars, loopVars, networkVars>>

(* "Dropping unresponsive client": the one not heard of for too long.       *)
DropClient ==
    /\ client_time # <<>>
    /\ client_time' = Tail(client_time)
    /\ IF fix_num_clients
       THEN /\ clients_good' = (num_clients = Len(client_time'))
            /\ UNCHANGED num_clients
       ELSE num_clients' = Len(client_time') /\ UNCHANGED clients_good
    /\ UNCHANGED <<controlVars, loopVars, networkVars>>

-----------------------------------------------------------------------------
(* The READY of client c is no longer what c waits on.                     *)
ForsakeCount(c) ==
    /\ counted' = counted \ {c}
    /\ stale' = IF c \in counted THEN stale + 1 ELSE stale

ServerTypeOK ==
    /\ triggering \in BOOLEAN /\ fix_num_clients \in BOOLEAN
    /\ num_clients \in Nat /\ clients_good \in BOOLEAN
    /\ trigger_loop \in {"idle", "while", "poll"}
    /\ clients_ready \in Nat
    /\ client_time \in Seq(Client)
    /\ counted \subseteq Client /\ stale \in Nat
=============================================================================
