------------------------------- MODULE LogStream -------------------------------
(***************************************************************************)
(* What the hub of the build server promises its log clients: a client     *)
(* receives, in order and without a gap, the messages published from the   *)
(* moment it registers until it is let go.  A client that is let go may    *)
(* still receive what it was owed at that moment and nothing later.        *)
(***************************************************************************)
EXTENDS Naturals, Sequences

CONSTANTS Client, Message

VARIABLES
    log,    \* the messages published so far
    live,   \* the clients that are owed every new message
    first,  \* length of the log when the client registered
    upto,   \* the last position of the log the client is owed
    got     \* positions of the log delivered to the client

vars == <<log, live, first, upto, got>>

Init ==
    /\ log = <<>> /\ live = {}
    /\ first = [c \in Client |-> 0]
    /\ upto = [c \in Client |-> 0]
    /\ got = [c \in Client |-> <<>>]

\* Clients that cannot keep up are let go when a message is published.
Publish(m) ==
    /\ log' = Append(log, m)
    /\ \E slow \in SUBSET live : live' = live \ slow
    /\ upto' = [c \in Client |-> IF c \in live' THEN Len(log') ELSE upto[c]]
    /\ UNCHANGED <<first, got>>

Register(c) ==
    /\ c \notin live
    /\ live' = live \cup {c}
    /\ first' = [first EXCEPT ![c] = Len(log)]
    /\ upto' = [upto EXCEPT ![c] = Len(log)]
    /\ got' = [got EXCEPT ![c] = <<>>]
    /\ UNCHANGED log

Deliver(c) ==
    LET next == first[c] + Len(got[c]) + 1 IN
    /\ next <= upto[c]
    /\ got' = [got EXCEPT ![c] = Append(@, next)]
    /\ UNCHANGED <<log, live, first, upto>>

LetGo(c) == live' = live \ {c} /\ UNCHANGED <<log, first, upto, got>>

Next ==
    \/ \E m \in Message : Publish(m)
    \/ \E c \in Client : Register(c) \/ Deliver(c) \/ LetGo(c)

Spec == Init /\ [][Next]_vars
================================================================================
