------------------------------ MODULE SyncClient ------------------------------
(***************************************************************************)
(* SyncClient: what links a frontend to the SyncTrigger.  The constructor  *)
(* registers it and connects its sockets; StatusLoop says that it is ready *)
(* and waits for the trigger; HeartbeatLoop beats; RestartLoop registers   *)
(* anew when the trigger was silent too long.  The frontend calls SetReady *)
(* and then polls HasTrigger, or gives up with UnsetReady.                 *)
(*                                                                         *)
(* Time is left out: a client may time out whenever it waits.              *)
(* trigger_counter_, which only counts, is left out too.                   *)
(***************************************************************************)
EXTENDS SyncNetwork

VARIABLES
    phase,          \* phase[c]: the life of client c
    status_loop,    \* status_loop[c]: where StatusLoop is
    ready,          \* the clients whose ready_ is up
    sent_ready,     \* the clients whose sent_ready_ is up
    got_trigger,    \* the clients whose got_trigger_ is up
    frontend        \* frontend[c]: what the frontend does next

flagVars == <<ready, sent_ready, got_trigger>>
clientVars == <<phase, status_loop, ready, sent_ready, got_trigger, frontend>>

ClientsInit ==
    /\ phase = [c \in Client |-> "register"]
    /\ status_loop = [c \in Client |-> "none"]
    /\ ready = {} /\ sent_ready = {} /\ got_trigger = {}
    /\ frontend = [c \in Client |-> "none"]

Up(c) == phase[c] = "up"
Status(c, place) == Up(c) /\ status_loop[c] = place
StatusGoto(c, place) == status_loop' = [status_loop EXCEPT ![c] = place]
Enter(c, new) == phase' = [phase EXCEPT ![c] = new]

-----------------------------------------------------------------------------
(* Construction: DefaultInit, then InitSockets.                            *)

Launch(c) ==
    /\ phase[c] = "off"
    /\ Enter(c, "register")
    /\ UNCHANGED <<status_loop, flagVars, frontend, networkVars>>

RequestRegistration(c) ==
    /\ phase[c] = "register"
    /\ registrations' = registrations \cup {c}
    /\ Enter(c, "confirm")
    /\ UNCHANGED <<status_loop, flagVars, frontend, confirmations, statusVars,
                   triggerVars>>

(* The addresses have come: the sockets are connected and the threads run. *)
Connect(c) ==
    /\ phase[c] = "confirm" /\ c \in confirmations
    /\ confirmations' = confirmations \ {c}
    /\ Enter(c, "up") /\ StatusGoto(c, "loop")
    /\ frontend' = [frontend EXCEPT ![c] = IF @ = "none" THEN "set" ELSE @]
    /\ UNCHANGED <<flagVars, registrations, statusVars, triggerVars>>

(* The publisher learns of the subscription some time after the connect.   *)
Subscribe(c) ==
    /\ Up(c) /\ c \notin subscribed
    /\ subscribed' = subscribed \cup {c}
    /\ UNCHANGED <<clientVars, registerVars, statusVars, inbox>>

-----------------------------------------------------------------------------
(* StatusLoop.                                                             *)

RequestTrigger(c) ==
    /\ Status(c, "loop") /\ c \in ready \ sent_ready
    /\ requests' = requests \cup {c}
    /\ StatusGoto(c, "reply")
    /\ UNCHANGED <<phase, flagVars, frontend, registerVars, stale_requests,
                   replies, triggerVars>>

FlagReady(c) ==
    /\ Status(c, "reply") /\ c \in replies
    /\ replies' = replies \ {c}
    /\ sent_ready' = sent_ready \cup {c}
    /\ StatusGoto(c, "loop")
    /\ UNCHANGED <<phase, ready, got_trigger, frontend, registerVars, requests,
                   stale_requests, triggerVars>>

AwaitTrigger(c) ==
    /\ Status(c, "loop") /\ c \in ready \cap sent_ready
    /\ StatusGoto(c, "trigger")
    /\ UNCHANGED <<phase, flagVars, frontend, networkVars>>

(* A trigger is taken from the socket and answers the client's READY ...   *)
ReceiveTrigger(c) ==
    /\ Status(c, "trigger") /\ inbox[c] > 0
    /\ inbox' = [inbox EXCEPT ![c] = @ - 1]
    /\ ready' = ready \ {c} /\ sent_ready' = sent_ready \ {c}
    /\ StatusGoto(c, "flag")
    /\ UNCHANGED <<phase, got_trigger, frontend, registerVars, statusVars, subscribed>>

(* ... of which the frontend is told last.                                 *)
FlagTrigger(c) ==
    /\ Status(c, "flag")
    /\ got_trigger' = got_trigger \cup {c}
    /\ StatusGoto(c, "loop")
    /\ UNCHANGED <<phase, ready, sent_ready, frontend, networkVars>>

(* UnsetReady ends the wait.                                               *)
StopWaiting(c) ==
    /\ Status(c, "trigger") /\ inbox[c] = 0 /\ c \notin sent_ready
    /\ StatusGoto(c, "loop")
    /\ UNCHANGED <<phase, flagVars, frontend, networkVars>>

StatusLoop(c) ==
    \/ RequestTrigger(c) \/ FlagReady(c) \/ AwaitTrigger(c)
    \/ FlagTrigger(c) \/ StopWaiting(c)

(* connected_ is cleared: trigger_timeout_ has passed in a wait.           *)
TimeOut(c) ==
    /\ Status(c, "reply") \/ Status(c, "trigger")
    /\ StatusGoto(c, "lost")
    /\ UNCHANGED <<phase, flagVars, frontend, networkVars>>

(* RestartLoop joins the other threads, disconnects and begins anew with   *)
(* InitSockets.  ready_ stays as it was.                                   *)
Restart(c) ==
    /\ Status(c, "lost")
    /\ Enter(c, "register") /\ StatusGoto(c, "none")
    /\ got_trigger' = got_trigger \ {c} /\ sent_ready' = sent_ready \ {c}
    /\ Disconnect(c)
    /\ UNCHANGED <<ready, frontend>>

-----------------------------------------------------------------------------
(* The frontend, and the end of its process.                               *)

SetReady(c) ==
    /\ frontend[c] = "set"
    /\ ready' = ready \cup {c}
    /\ frontend' = [frontend EXCEPT ![c] = "poll"]
    /\ UNCHANGED <<phase, status_loop, sent_ready, got_trigger, networkVars>>

HasTrigger(c) ==
    /\ frontend[c] = "poll" /\ c \in got_trigger
    /\ got_trigger' = got_trigger \ {c}
    /\ frontend' = [frontend EXCEPT ![c] = "set"]
    /\ UNCHANGED <<phase, status_loop, ready, sent_ready, networkVars>>

UnsetReady(c) ==
    /\ frontend[c] = "poll"
    /\ ready' = ready \ {c} /\ sent_ready' = sent_ready \ {c}
    /\ got_trigger' = got_trigger \ {c}
    /\ frontend' = [frontend EXCEPT ![c] = "set"]
    /\ UNCHANGED <<phase, status_loop, networkVars>>

Crash(c) ==
    /\ Up(c)
    /\ Enter(c, "off") /\ StatusGoto(c, "none")
    /\ ready' = ready \ {c} /\ sent_ready' = sent_ready \ {c}
    /\ got_trigger' = got_trigger \ {c}
    /\ frontend' = [frontend EXCEPT ![c] = "none"]
    /\ Disconnect(c)

ClientsTypeOK ==
    /\ phase \in [Client -> {"off", "register", "confirm", "up"}]
    /\ status_loop \in [Client -> {"none", "loop", "reply", "trigger", "flag", "lost"}]
    /\ ready \subseteq Client /\ sent_ready \subseteq Client
    /\ got_trigger \subseteq Client
    /\ frontend \in [Client -> {"none", "set", "poll"}]
=============================================================================
