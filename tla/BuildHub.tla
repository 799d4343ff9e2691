------------------------------- MODULE BuildHub -------------------------------
(***************************************************************************)
(* The hub of the build server (backend/internal/services/hub.go): build   *)
(* logs fan out to WebSocket clients.                                      *)
(*                                                                         *)
(* Run never waits for a client, so a rendezvous on one of its unbuffered  *)
(* channels is one step with its handling.  A message stands in `buffer`   *)
(* until it is written to the connection: the one writePump holds while it *)
(* writes counts as buffered.                                              *)
(***************************************************************************)
EXTENDS Naturals, Sequences

CONSTANTS
    Client,   \* connections, each made once
    SendCap   \* capacity of a client's send channel (256)

ASSUME HubAssumption == SendCap \in Nat \ {0}

VARIABLES
    log,      \* the messages the hub has taken from its broadcast channel
    clients,  \* h.clients
    buffer,   \* client.send, as positions of the log
    closed,   \* clients whose send channel is closed
    conn,     \* the connection
    reading,  \* readPump
    writing,  \* writePump
    panic,    \* TRUE: a goroutine closed or sent on a closed channel
    first,    \* history: length of the log when the client registered
    got       \* history: positions written to the connection

hub == <<log, clients, buffer, closed, conn, reading, writing, panic, first, got>>

\* "stalled": the peer has stopped reading and writes block.
Conn == {"none", "open", "stalled", "broken", "closed"}

HubInit ==
    /\ log = <<>> /\ clients = {} /\ closed = {} /\ panic = FALSE
    /\ buffer = [c \in Client |-> <<>>]
    /\ conn = [c \in Client |-> "none"]
    /\ reading = {} /\ writing = {}
    /\ first = [c \in Client |-> 0]
    /\ got = [c \in Client |-> <<>>]

\* HandleWebSocket, the register arm of Run, and the start of both pumps.
Register(c) ==
    /\ conn[c] = "none"
    /\ conn' = [conn EXCEPT ![c] = "open"]
    /\ clients' = clients \cup {c}
    /\ reading' = reading \cup {c} /\ writing' = writing \cup {c}
    /\ first' = [first EXCEPT ![c] = Len(log)]
    /\ UNCHANGED <<log, buffer, closed, panic, got>>

Full == {c \in clients : Len(buffer[c]) = SendCap}

\* Mutant of Publish: a message for which there is no room is skipped.
PublishOrSkip(m) ==
    /\ log' = Append(log, m)
    /\ buffer' = [c \in Client |->
          IF c \in clients \ Full THEN Append(buffer[c], Len(log')) ELSE buffer[c]]
    /\ UNCHANGED <<clients, closed, conn, reading, writing, panic, first, got>>

\* Mutant of Publish: a client that is cut off stays in the map.
PublishKeepingClosed(m) ==
    /\ log' = Append(log, m)
    /\ panic' = (panic \/ clients \cap closed # {})
    /\ closed' = closed \cup Full
    /\ buffer' = [c \in Client |->
          IF c \in clients \ Full THEN Append(buffer[c], Len(log')) ELSE buffer[c]]
    /\ UNCHANGED <<clients, conn, reading, writing, first, got>>

\* Broadcast and the broadcast arm of Run: a client whose channel is full is
\* cut off.
Publish(m) ==
    /\ log' = Append(log, m)
    /\ panic' = (panic \/ clients \cap closed # {})
    /\ closed' = closed \cup Full
    /\ clients' = clients \ Full
    /\ buffer' = [c \in Client |->
          IF c \in clients' THEN Append(buffer[c], Len(log')) ELSE buffer[c]]
    /\ UNCHANGED <<conn, reading, writing, first, got>>

\* Mutant of Leave: readPump closes its connection and forgets to unregister.
LeaveSilently(c) ==
    /\ c \in reading /\ conn[c] \in {"broken", "closed"}
    /\ reading' = reading \ {c}
    /\ conn' = [conn EXCEPT ![c] = "closed"]
    /\ UNCHANGED <<log, clients, buffer, closed, writing, panic, first, got>>

\* readPump: reading fails, the client unregisters and closes its connection.
Leave(c) ==
    /\ c \in reading /\ conn[c] \in {"broken", "closed"}
    /\ reading' = reading \ {c}
    /\ conn' = [conn EXCEPT ![c] = "closed"]
    /\ IF c \in clients
       THEN /\ clients' = clients \ {c} /\ closed' = closed \cup {c}
            /\ panic' = (panic \/ c \in closed)
       ELSE UNCHANGED <<clients, closed, panic>>
    /\ UNCHANGED <<log, buffer, writing, first, got>>

\* writePump: one message of the channel, closed or not, as long as it holds any.
Write(c) ==
    /\ c \in writing /\ buffer[c] # <<>>
    /\ \/ /\ conn[c] = "open"
          /\ got' = [got EXCEPT ![c] = Append(@, Head(buffer[c]))]
          /\ buffer' = [buffer EXCEPT ![c] = Tail(@)]
          /\ UNCHANGED <<conn, writing>>
       \/ /\ conn[c] \in {"broken", "closed"}
          /\ conn' = [conn EXCEPT ![c] = "closed"]
          /\ writing' = writing \ {c}
          /\ UNCHANGED <<buffer, got>>
    /\ UNCHANGED <<log, clients, closed, reading, panic, first>>

\* writePump: the channel is closed and drained.
WriteClose(c) ==
    /\ c \in writing /\ buffer[c] = <<>> /\ c \in closed /\ conn[c] # "stalled"
    /\ writing' = writing \ {c}
    /\ conn' = [conn EXCEPT ![c] = "closed"]
    /\ UNCHANGED <<log, clients, buffer, closed, reading, panic, first, got>>

\* The other end of the connection.
Peer(c) ==
    /\ \E to \in {"open", "stalled", "broken"} :
          /\ conn[c] \in {"open", "stalled"} /\ to # conn[c]
          /\ conn' = [conn EXCEPT ![c] = to]
    /\ UNCHANGED <<log, clients, buffer, closed, reading, writing, panic, first, got>>

Pump(c) == Leave(c) \/ Write(c) \/ WriteClose(c)
ClientStep(c) == Register(c) \/ Pump(c) \/ Peer(c)

-----------------------------------------------------------------------------
\* The hub never closes a channel twice and never sends on a closed one: the
\* process would die (Run, the default branch and the unregister arm).
NeverPanics == ~panic

\* A client whose connection is gone leaves the hub and ends both its pumps,
\* whichever of them notices first (readPump, writePump).
GoneIsForgotten ==
    \A c \in Client :
        conn[c] \in {"broken", "closed"} ~> c \notin clients \cup reading \cup writing
================================================================================
