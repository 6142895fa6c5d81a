----------------------------- MODULE SyncNetwork -----------------------------
(***************************************************************************)
(* The ZeroMQ sockets between one SyncTrigger and its SyncClients, as the  *)
(* code uses them: a REQ/REP pair to register, another on which a client   *)
(* says it is ready, and a PUB/SUB pair for the triggers.  A REP socket    *)
(* keeps a request whose sender has gone; its reply is dropped.  A SUB     *)
(* socket misses what is published before its subscription is in effect,   *)
(* holds no more than its high water mark, and loses what it holds when it *)
(* is disconnected.  (Heartbeats are in SyncTrigger, as what it hears.)    *)
(***************************************************************************)
EXTENDS Naturals, Sequences, FiniteSets

CONSTANTS
    Client,         \* the clients, named apart
    HighWaterMark   \* triggers a client's SUB socket holds

ASSUME NetworkAssumption ==
    /\ Client # {} /\ IsFiniteSet(Client)
    /\ HighWaterMark \in Nat \ {0}

VARIABLES
    registrations,  \* clients whose registration nobody has read
    confirmations,  \* clients that have an unread reply to theirs
    requests,       \* clients whose READY nobody has read
    stale_requests, \* number of unread READYs whose sender waits no longer
    replies,        \* clients that have an unread reply to their READY
    subscribed,     \* clients whose subscription is in effect
    inbox           \* inbox[c]: triggers c's SUB socket holds

registerVars == <<registrations, confirmations>>
statusVars == <<requests, stale_requests, replies>>
triggerVars == <<subscribed, inbox>>
networkVars == <<registrations, confirmations, requests, stale_requests,
                 replies, subscribed, inbox>>

NetworkInit ==
    /\ registrations = {} /\ confirmations = {}
    /\ requests = {} /\ stale_requests = 0 /\ replies = {}
    /\ subscribed = {} /\ inbox = [c \in Client |-> 0]

(* A message to every subscriber; a full socket drops it.                  *)
Published == [c \in Client |->
    IF c \in subscribed /\ inbox[c] < HighWaterMark THEN inbox[c] + 1 ELSE inbox[c]]

(* Client c no longer waits for what its READY asked for.  An unread READY *)
(* stays in the trigger's socket, or was not sent yet and is lost.         *)
ForsakeRequest(c) ==
    /\ requests' = requests \ {c}
    /\ IF c \in requests THEN stale_requests' \in {stale_requests, stale_requests + 1}
                         ELSE stale_requests' = stale_requests

(* Client c's sockets are disconnected, or die with its process.           *)
Disconnect(c) ==
    /\ ForsakeRequest(c)
    /\ confirmations' = confirmations \ {c}
    /\ replies' = replies \ {c}
    /\ subscribed' = subscribed \ {c}
    /\ inbox' = [inbox EXCEPT ![c] = 0]
    /\ UNCHANGED registrations

NetworkTypeOK ==
    /\ registrations \subseteq Client /\ confirmations \subseteq Client
    /\ requests \subseteq Client /\ stale_requests \in Nat
    /\ replies \subseteq Client
    /\ subscribed \subseteq Client
    /\ inbox \in [Client -> 0..HighWaterMark]
=============================================================================
