--------------------------- MODULE BuildServer_proofs ---------------------------
(***************************************************************************)
(* Proofs about BuildServer, for any number of clients, requests, builds   *)
(* and instances: the hub serves a log stream and never panics, builds run *)
(* one at a time, and an edit is kept unless it came beside a build's copy *)
(* of the spec or beside an edit that read before it.                      *)
(***************************************************************************)
EXTENDS BuildServer, SequenceTheorems, FiniteSetTheorems, TLAPS

USE HubAssumption, ServerAssumption

\* The last position of the log a client has been given or will be.
Owed(c) == first[c] + Len(got[c]) + Len(buffer[c])

HubTypes ==
    /\ log \in Seq(Message)
    /\ clients \subseteq Client /\ closed \subseteq Client
    /\ buffer \in [Client -> Seq(Nat)] /\ got \in [Client -> Seq(Nat)]
    /\ first \in [Client -> Nat]
    /\ conn \in [Client -> Conn]

\* A connection that was never made has no trace in the hub.
Unconnected ==
    \A c \in Client : conn[c] = "none" =>
        /\ c \notin clients /\ c \notin closed
        /\ buffer[c] = <<>> /\ got[c] = <<>>

\* The buffer continues the log where the connection stands, and reaches its
\* end as long as the client is in the map.
NoGap ==
    \A c \in Client :
        /\ c \in clients => Owed(c) = Len(log)
        /\ \A i \in 1 .. Len(buffer[c]) : buffer[c][i] = first[c] + Len(got[c]) + i

HubInv ==
    HubTypes /\ Unconnected /\ NoGap /\ clients \cap closed = {} /\ panic = FALSE

-----------------------------------------------------------------------------
\* The server starts with no connection.
LEMMA HubInitially == Init => HubInv
BY DEF Init, HubInit, HubInv, HubTypes, Unconnected, NoGap, Owed, Conn

\* A step of the server is a step of the hub or leaves the hub alone.
LEMMA HubSteps ==
    ASSUME [Next]_vars
    PROVE  \/ UNCHANGED hub
           \/ \E m \in Message : Publish(m)
           \/ \E c \in Client : ClientStep(c)
<1>1. CASE UNCHANGED vars
  BY <1>1 DEF vars
<1>2. ASSUME NEW q \in Request,
             \/ \E drop, add \in Few : BeginUpdate(q, drop, add)
             \/ UpdateStep(q) \/ CheckSpec(q) \/ \E b \in Build : RunBuild(q, b)
      PROVE  UNCHANGED hub
  BY <1>2 DEF BeginUpdate, UpdateStep, TruncateUpdate, WriteUpdate, CheckSpec, RunBuild
<1>3. ASSUME NEW b \in Build, BuildStep(b) \/ Exit(b)
      PROVE  UNCHANGED hub \/ \E m \in Message : Publish(m)
  <2>1. CASE Announce(b)
    BY <2>1 DEF Announce, Message
  <2>2. CASE Conclude(b)
    BY <2>2 DEF Conclude, Message
  <2> QED
    BY <1>3, <2>1, <2>2 DEF BuildStep, ReadSpec, TruncateSpec, WriteSpec, StartBuilder, WaitReturns,
       Finish, Abandon, Exit
<1>4. ASSUME NEW b \in Build, NEW s \in Stream, StreamStep(b, s) \/ PrintLine(b, s)
      PROVE  UNCHANGED hub \/ \E m \in Message : Publish(m)
  <2>1. CASE BroadcastLine(b, s)
    BY <2>1 DEF BroadcastLine, Message
  <2> QED
    BY <1>4, <2>1 DEF StreamStep, Scan, PrintLine
<1> QED
  BY <1>1, <1>2, <1>3, <1>4 DEF Next

-----------------------------------------------------------------------------
(***************************************************************************)
(* The steps of the hub keep its invariant and keep its promise.           *)
(***************************************************************************)

\* One step of the promise, or none of its business.
Kept == [Promise!Next]_(Promise!vars)

\* Broadcasting (the broadcast arm of Run): every client that stays gets the
\* new position, those that are full are let go.
LEMMA PublishHub ==
    ASSUME HubInv, NEW m \in Message, Publish(m)
    PROVE  HubInv' /\ Kept
<1>1. /\ log' \in Seq(Message) /\ Len(log') = Len(log) + 1 /\ Len(log) \in Nat
  BY AppendProperties, LenProperties DEF Publish, HubInv, HubTypes
<1>2. ASSUME NEW c \in Client
      PROVE  /\ buffer'[c] \in Seq(Nat)
             /\ c \in clients' => /\ Len(buffer'[c]) = Len(buffer[c]) + 1
                                  /\ buffer'[c][Len(buffer[c]) + 1] = Len(log')
                                  /\ \A i \in 1 .. Len(buffer[c]) : buffer'[c][i] = buffer[c][i]
             /\ c \notin clients' => buffer'[c] = buffer[c]
             /\ Len(buffer[c]) \in Nat /\ Len(got[c]) \in Nat /\ first[c] \in Nat
  BY <1>1, AppendProperties, LenProperties DEF Publish, HubInv, HubTypes
<1>3. clients' \subseteq clients /\ panic' = FALSE /\ clients' \cap closed' = {}
  BY DEF Publish, HubInv, Full, HubTypes
<1>4. HubTypes'
  BY <1>1, <1>2, <1>3 DEF Publish, HubInv, HubTypes, Full
<1>5. Unconnected'
  BY <1>2, <1>3 DEF Publish, HubInv, HubTypes, Unconnected, Full
<1>6. ASSUME NEW c \in Client
      PROVE  /\ c \in clients' => Owed(c)' = Len(log')
             /\ c \notin clients' => Owed(c)' = Owed(c)
             /\ \A i \in 1 .. Len(buffer'[c]) :
                   buffer'[c][i] = first[c]' + Len(got[c])' + i
  <2>1. first' = first /\ got' = got
    BY DEF Publish
  <2>2. CASE c \in clients'
    <3>1. Owed(c) = Len(log)
      BY <1>3, <2>2 DEF HubInv, NoGap
    <3>2. Owed(c)' = Len(log')
      <4>1. Owed(c)' = first[c] + Len(got[c]) + Len(buffer'[c])
        BY <2>1 DEF Owed
      <4>2. Len(buffer'[c]) = Len(buffer[c]) + 1 /\ Len(log') = Len(log) + 1
        BY <1>1, <1>2, <2>2
      <4>3. Len(log) = first[c] + Len(got[c]) + Len(buffer[c])
        BY <3>1 DEF Owed
      <4>4. Owed(c)' = first[c] + Len(got[c]) + (Len(buffer[c]) + 1)
        BY <4>1, <4>2
      <4>5. first[c] \in Nat /\ Len(got[c]) \in Nat /\ Len(buffer[c]) \in Nat
        BY <1>2
      <4>6. Owed(c)' = first[c] + Len(got[c]) + Len(buffer[c]) + 1
        <5>1. \A x, y, z \in Nat : x + y + (z + 1) = x + y + z + 1
          OBVIOUS
        <5> QED
          BY ONLY <4>4, <4>5, <5>1, Zenon
      <4> QED
        BY <4>2, <4>3, <4>6
    <3>3. ASSUME NEW i \in 1 .. Len(buffer'[c])
          PROVE  buffer'[c][i] = first[c]' + Len(got[c])' + i
      <4>1. CASE i \in 1 .. Len(buffer[c])
        BY <1>2, <2>1, <2>2, <4>1 DEF HubInv, NoGap
      <4>2. CASE i = Len(buffer[c]) + 1
        <5>1. buffer'[c][i] = Len(log) + 1
          BY <1>1, <1>2, <2>2, <4>2
        <5>2. Len(log) = first[c] + Len(got[c]) + Len(buffer[c])
          BY <3>1 DEF Owed
        <5>3. first[c]' = first[c] /\ Len(got[c])' = Len(got[c])
          BY <2>1
        <5> QED
          BY <1>2, <4>2, <5>1, <5>2, <5>3
      <4> QED
        BY <1>2, <2>2, <4>1, <4>2
    <3> QED
      BY <2>2, <3>2, <3>3
  <2>3. CASE c \notin clients'
    BY <1>2, <2>1, <2>3 DEF Owed, HubInv, NoGap
  <2> QED
    BY <2>2, <2>3
<1>7. NoGap'
  BY <1>6 DEF NoGap
<1>8. Promise!Publish(m)
  <2>1. clients' = clients \ Full /\ Full \in SUBSET clients
    BY DEF Publish, Full
  <2>2. [c \in Client |-> Owed(c)]' = [c \in Client |-> IF c \in clients' THEN Len(log') ELSE Owed(c)]
    BY <1>6
  <2>3. log' = Append(log, m) /\ UNCHANGED <<first, got>>
    BY DEF Publish
  <2> QED
    BY <2>1, <2>2, <2>3 DEF Promise!Publish, Owed
<1> QED
  BY <1>3, <1>4, <1>5, <1>7, <1>8 DEF HubInv, Kept, Promise!Next

\* A new connection is owed what is published from now on.
LEMMA RegisterHub ==
    ASSUME HubInv, NEW c \in Client, Register(c)
    PROVE  HubInv' /\ Kept
<1>1. /\ conn[c] = "none" /\ c \notin clients /\ c \notin closed
      /\ buffer[c] = <<>> /\ got[c] = <<>> /\ Len(log) \in Nat
  BY LenProperties DEF Register, HubInv, HubTypes, Unconnected
<1>2. /\ first' = [first EXCEPT ![c] = Len(log)] /\ conn' = [conn EXCEPT ![c] = "open"]
      /\ clients' = clients \cup {c}
      /\ UNCHANGED <<log, buffer, closed, panic, got>>
  BY DEF Register
<1>3. HubTypes' /\ Unconnected' /\ clients' \cap closed' = {} /\ panic' = FALSE
  BY <1>1, <1>2 DEF HubInv, HubTypes, Unconnected, Conn
<1>4. Owed(c)' = Len(log) /\ \A d \in Client \ {c} : Owed(d)' = Owed(d)
  BY <1>1, <1>2, EmptySeq DEF Owed, HubInv, HubTypes
<1>5. NoGap'
  BY <1>1, <1>2, <1>4, EmptySeq DEF NoGap, HubInv, HubTypes
<1>6. Promise!Register(c)
  <2>1. [d \in Client |-> Owed(d)]' = [[d \in Client |-> Owed(d)] EXCEPT ![c] = Len(log)]
    BY <1>4
  <2>2. got' = [got EXCEPT ![c] = <<>>]
    BY <1>1, <1>2 DEF HubInv, HubTypes
  <2> QED
    BY <1>1, <1>2, <2>1, <2>2 DEF Promise!Register, Owed
<1> QED
  BY <1>3, <1>5, <1>6 DEF HubInv, Kept, Promise!Next

\* readPump ends: the hub lets the client go.
LEMMA LeaveHub ==
    ASSUME HubInv, NEW c \in Client, Leave(c)
    PROVE  HubInv' /\ Kept
<1>1. clients' = clients \ {c} /\ UNCHANGED <<log, first, got, buffer>>
  BY DEF Leave
<1>2. panic' = FALSE /\ clients' \cap closed' = {} /\ closed' \subseteq closed \cup {c}
  BY DEF Leave, HubInv
<1>3. HubTypes' /\ Unconnected'
  BY <1>1, <1>2 DEF Leave, HubInv, HubTypes, Unconnected, Conn
<1>4. \A d \in Client : Owed(d)' = Owed(d)
  BY <1>1 DEF Owed
<1>5. NoGap'
  BY <1>1, <1>4 DEF NoGap, HubInv
<1>6. Promise!LetGo(c)
  BY <1>1 DEF Promise!LetGo
<1> QED
  BY <1>2, <1>3, <1>5, <1>6 DEF HubInv, Kept, Promise!Next

\* writePump writes the next message of the log, or gives up.
LEMMA WriteHub ==
    ASSUME HubInv, NEW c \in Client, Write(c)
    PROVE  HubInv' /\ Kept
<1>1. CASE conn[c] \in {"broken", "closed"}
  <2>1. UNCHANGED <<log, clients, closed, panic, first, got, buffer>>
        /\ conn' = [conn EXCEPT ![c] = "closed"]
    BY <1>1 DEF Write
  <2>2. HubInv'
    BY <1>1, <2>1 DEF HubInv, HubTypes, Unconnected, NoGap, Owed, Conn
  <2> QED
    BY <2>1, <2>2 DEF Kept, Promise!vars
<1>2. CASE conn[c] = "open"
  <2>1. /\ buffer[c] # <<>>
        /\ got' = [got EXCEPT ![c] = Append(@, Head(buffer[c]))]
        /\ buffer' = [buffer EXCEPT ![c] = Tail(@)]
        /\ UNCHANGED <<log, clients, closed, panic, first, conn>>
    BY <1>2 DEF Write
  <2>2. /\ buffer[c] \in Seq(Nat) /\ got[c] \in Seq(Nat) /\ first[c] \in Nat
        /\ Len(buffer[c]) \in Nat /\ Len(got[c]) \in Nat /\ Len(buffer[c]) > 0
    BY <2>1, LenProperties, EmptySeq DEF HubInv, HubTypes
  <2>nat. first[c] \in Nat /\ Len(buffer[c]) \in Nat /\ Len(got[c]) \in Nat
    BY <2>2
  <2>shift. \A j \in Nat : first[c] + (Len(got[c]) + 1) + j = first[c] + Len(got[c]) + (j + 1)
    BY <2>nat
  <2>3. /\ Head(buffer[c]) = buffer[c][1] /\ Head(buffer[c]) \in Nat
        /\ Tail(buffer[c]) \in Seq(Nat) /\ Len(Tail(buffer[c])) = Len(buffer[c]) - 1
        /\ \A i \in 1 .. Len(Tail(buffer[c])) : Tail(buffer[c])[i] = buffer[c][i + 1]
    BY <2>1, <2>2, HeadTailProperties
  <2>4. /\ Append(got[c], Head(buffer[c])) \in Seq(Nat)
        /\ Len(Append(got[c], Head(buffer[c]))) = Len(got[c]) + 1
    BY <2>2, <2>3, AppendProperties
  <2>5. HubTypes' /\ Unconnected'
    BY <1>2, <2>1, <2>3, <2>4 DEF HubInv, HubTypes, Unconnected
  <2>6. /\ Len(got'[c]) = Len(got[c]) + 1 /\ Len(buffer'[c]) = Len(buffer[c]) - 1
        /\ \A d \in Client \ {c} : got'[d] = got[d] /\ buffer'[d] = buffer[d]
    BY <2>1, <2>3, <2>4 DEF HubInv, HubTypes
  <2>7. ASSUME NEW d \in Client
        PROVE  Owed(d)' = Owed(d)
    <3>1. Owed(d)' = first[d] + Len(got'[d]) + Len(buffer'[d])
      BY <2>1 DEF Owed
    <3>2. CASE d = c
      <4>1. Len(got'[d]) = Len(got[c]) + 1 /\ Len(buffer'[d]) = Len(buffer[c]) - 1
        BY <2>6, <3>2
      <4>2. Owed(d)' = first[c] + (Len(got[c]) + 1) + (Len(buffer[c]) - 1)
        BY <3>1, <3>2, <4>1
      <4>3. Owed(d)' = first[c] + Len(got[c]) + Len(buffer[c])
        <5>1. \A x, y, z \in Nat : x + (y + 1) + (z - 1) = x + y + z
          OBVIOUS
        <5> QED
          BY ONLY <2>nat, <4>2, <5>1, Zenon
      <4> QED
        BY <3>2, <4>3 DEF Owed
    <3>3. CASE d # c
      BY <2>6, <3>1, <3>3 DEF Owed
    <3> QED
      BY <3>2, <3>3
  <2>8. NoGap'
    <3>1. ASSUME NEW d \in Client, NEW i \in 1 .. Len(buffer'[d])
          PROVE  buffer'[d][i] = first[d]' + Len(got[d])' + i
      <4>1. CASE d = c
        <5>1. i + 1 \in 1 .. Len(buffer[c]) /\ buffer'[c][i] = buffer[c][i + 1]
          BY <2>1, <2>2, <2>3, <2>6, <4>1 DEF HubInv, HubTypes
        <5>2. buffer[c][i + 1] = first[c] + Len(got[c]) + (i + 1)
          BY <5>1 DEF HubInv, NoGap
        <5>3. first[d]' = first[c] /\ Len(got[d])' = Len(got[c]) + 1
          BY <2>1, <2>6, <4>1
        <5>4. first[c] + (Len(got[c]) + 1) + i = first[c] + Len(got[c]) + (i + 1)
          <6>1. i \in Nat
            BY <2>2, <2>6, <4>1
          <6> QED
            BY ONLY <2>shift, <6>1, Zenon
        <5>5. first[d]' + Len(got[d])' + i = first[c] + (Len(got[c]) + 1) + i
          BY <5>3
        <5> QED
          BY <4>1, <5>1, <5>2, <5>4, <5>5
      <4>2. CASE d # c
        BY <2>1, <2>6, <4>2 DEF HubInv, NoGap
      <4> QED
        BY <4>1, <4>2
    <3> QED
      BY <2>1, <2>7, <3>1 DEF HubInv, NoGap
  <2>9. Promise!Deliver(c)
    <3>1. Head(buffer[c]) = first[c] + Len(got[c]) + 1
      BY <2>2, <2>3 DEF HubInv, NoGap
    <3>2. first[c] + Len(got[c]) + 1 <= Owed(c)
      BY <2>2 DEF Owed
    <3>3. [d \in Client |-> Owed(d)]' = [d \in Client |-> Owed(d)]
      BY <2>7
    <3> QED
      BY <2>1, <3>1, <3>2, <3>3 DEF Promise!Deliver, Owed
  <2> QED
    BY <2>1, <2>5, <2>8, <2>9 DEF HubInv, Kept, Promise!Next
<1> QED
  BY <1>1, <1>2 DEF Write

\* The rest only changes connections that exist.
LEMMA ConnectionHub ==
    ASSUME HubInv, NEW c \in Client, WriteClose(c) \/ Peer(c)
    PROVE  HubInv' /\ Kept
<1>1. UNCHANGED <<log, clients, closed, panic, first, got, buffer>>
  BY DEF WriteClose, Peer
<1>2. \E to \in Conn \ {"none"} : conn' = [conn EXCEPT ![c] = to]
  BY DEF WriteClose, Peer, Conn
<1>3. HubInv'
  BY <1>1, <1>2 DEF HubInv, HubTypes, Unconnected, NoGap, Owed
<1> QED
  BY <1>1, <1>3 DEF Kept, Promise!vars

\* Every step of the server keeps the invariant of the hub and its promise.
LEMMA HubNext == HubInv /\ [Next]_vars => HubInv' /\ Kept
<1> SUFFICES ASSUME HubInv, [Next]_vars PROVE HubInv' /\ Kept
  OBVIOUS
<1>1. CASE UNCHANGED hub
  <2>1. HubInv'
    BY <1>1 DEF hub, HubInv, HubTypes, Unconnected, NoGap, Owed
  <2> QED
    BY <1>1, <2>1 DEF hub, Kept, Promise!vars
<1> QED
  BY <1>1, HubSteps, PublishHub, RegisterHub, LeaveHub, WriteHub, ConnectionHub
     DEF ClientStep, Pump

\* Whatever clients do, each receives the log from its registration on, in
\* order and without a gap, until it is let go (hub.go).
THEOREM HubServesLogStream == Spec => ServesLogStream
<1>1. Init => Promise!Init
  BY EmptySeq DEF Init, HubInit, Promise!Init
<1> QED
  BY <1>1, HubInitially, HubNext, PTL DEF Spec, ServesLogStream, Promise!Spec, Kept

\* No goroutine closes a channel twice or sends on a closed one (Run).
THEOREM ServerNeverPanics == Spec => []NeverPanics
<1>1. HubInv => NeverPanics
  BY DEF HubInv, NeverPanics
<1> QED
  BY <1>1, HubInitially, HubNext, PTL DEF Spec

-----------------------------------------------------------------------------
(***************************************************************************)
(* Builds.                                                                 *)
(***************************************************************************)
BuildInv == build \in [Build -> Phase] /\ running \in BOOLEAN /\ OneBuild

\* No build is under way at the start.
LEMMA BuildInitially == Init => BuildInv
BY DEF Init, BuildInv, OneBuild, Active, Phase

\* A build under way moves on and stays the only one, or ends; a build starts
\* when none is under way.
LEMMA BuildNext == BuildInv /\ [Next]_vars => BuildInv'
<1> SUFFICES ASSUME BuildInv, [Next]_vars PROVE BuildInv'
  OBVIOUS
<1> USE DEF BuildInv, OneBuild, Active, Phase, Enter
<1>1. CASE UNCHANGED <<build, running>>
  BY <1>1
<1>2. ASSUME NEW b \in Build, b \in Active, NEW to \in Phase \ {"none", "ending", "done"},
             Enter(b, to), UNCHANGED running
      PROVE  BuildInv'
  BY <1>2
<1>3. ASSUME NEW b \in Build, b \in Active, Enter(b, "ending"), running' = FALSE
      PROVE  BuildInv'
  BY <1>3
<1>4. ASSUME NEW b \in Build, build[b] = "none", ~running, Enter(b, "begun"), running' = TRUE
      PROVE  BuildInv'
  BY <1>4
<1>5. ASSUME NEW b \in Build, build[b] = "ending", Enter(b, "done"), UNCHANGED running
      PROVE  BuildInv'
  BY <1>5
<1>6. ASSUME NEW q \in Request,
             \/ \E drop, add \in Few : BeginUpdate(q, drop, add)
             \/ UpdateStep(q) \/ CheckSpec(q) \/ \E b \in Build : RunBuild(q, b)
      PROVE  BuildInv'
  BY <1>1, <1>4, <1>6 DEF BeginUpdate, UpdateStep, TruncateUpdate, WriteUpdate, CheckSpec, RunBuild
<1>7. ASSUME NEW b \in Build, BuildStep(b) \/ Exit(b) PROVE BuildInv'
  <2>1. CASE Announce(b)
    BY <1>2, <2>1 DEF Announce
  <2>2. CASE ReadSpec(b)
    BY <1>2, <1>3, <2>2 DEF ReadSpec, Abandon
  <2>3. CASE TruncateSpec(b)
    BY <1>2, <1>3, <2>3 DEF TruncateSpec, Abandon
  <2>4. CASE WriteSpec(b)
    BY <1>2, <2>4 DEF WriteSpec
  <2>5. CASE StartBuilder(b)
    BY <1>2, <1>3, <2>5 DEF StartBuilder, Abandon
  <2>6. CASE WaitReturns(b)
    BY <1>2, <2>6 DEF WaitReturns
  <2>7. CASE Finish(b)
    BY <1>3, <2>7 DEF Finish
  <2>8. CASE Conclude(b)
    BY <1>5, <2>8 DEF Conclude
  <2> QED
    BY <1>1, <1>7, <2>1, <2>2, <2>3, <2>4, <2>5, <2>6, <2>7, <2>8 DEF BuildStep, Exit
<1>8. ASSUME NEW b \in Build, NEW s \in Stream, StreamStep(b, s) \/ PrintLine(b, s)
      PROVE  BuildInv'
  BY <1>1, <1>8 DEF StreamStep, Scan, BroadcastLine, PrintLine
<1> QED
  BY <1>1, <1>6, <1>7, <1>8 DEF Next, vars

\* Builds run one at a time and the status is running exactly when one is
\* under way (RunBuild, finish).
THEOREM BuildsAreExclusive == Spec => []OneBuild
<1>1. BuildInv => OneBuild
  BY DEF BuildInv
<1> QED
  BY <1>1, BuildInitially, BuildNext, PTL DEF Spec

-----------------------------------------------------------------------------
(***************************************************************************)
(* The log of a build.                                                     *)
(***************************************************************************)

\* Nothing is logged of a build before it is announced, and its end last; lines that
\* are still to be logged are those of a builder that execute waits for.
LogInv ==
    /\ build \in [Build -> Phase] /\ scanned \in [Build -> [Stream -> Nat]]
    /\ pipe \in [Build -> [Stream -> Nat]]
    /\ log \in Seq(Message)
    /\ \A i \in 1 .. Len(log) :
          /\ build[log[i].build] \notin {"none", "begun"}
          /\ log[i].text = "end" => build[log[i].build] = "done"
    /\ \A b \in Build, s \in Stream : scanned[b][s] > 0 => build[b] \in {"run", "waited"}
    /\ LogInOrder

\* The log starts empty.
LEMMA LogInitially == Init => LogInv
BY DEF Init, HubInit, LogInv, LogInOrder, Zero, Phase, Stream

\* Every message is about a build.
LEMMA LogNamesBuilds == LogInv => \A i \in 1 .. Len(log) : log[i] \in Message /\ log[i].build \in Build
<1>1. ASSUME LogInv, NEW i \in 1 .. Len(log) PROVE log[i] \in Message
  BY <1>1 DEF LogInv
<1>2. ASSUME NEW m \in Message PROVE m.build \in Build
  BY <1>2 DEF Message
<1> QED
  BY <1>1, <1>2

\* A message that fits the phase of its build continues the log.
LEMMA LogGrows ==
    ASSUME LogInv, NEW m \in Message, Publish(m),
           m.text = "start" => build[m.build] = "begun",
           build[m.build] # "done",
           build' \in [Build -> Phase], build'[m.build] \notin {"none", "begun"},
           m.text = "end" => build'[m.build] = "done",
           \A b \in Build : b # m.build => build'[b] = build[b]
    PROVE  /\ log' \in Seq(Message)
           /\ \A i \in 1 .. Len(log)' :
                 /\ build'[log'[i].build] \notin {"none", "begun"}
                 /\ log'[i].text = "end" => build'[log'[i].build] = "done"
           /\ LogInOrder'
<1>1. /\ log' = Append(log, m) /\ log' \in Seq(Message)
      /\ Len(log') = Len(log) + 1 /\ Len(log) \in Nat
      /\ log'[Len(log) + 1] = m /\ \A i \in 1 .. Len(log) : log'[i] = log[i]
  BY AppendProperties, LenProperties DEF Publish, LogInv
<1>2. \A i \in 1 .. Len(log) : log[i] \in Message
  BY LogNamesBuilds
<1>3. ASSUME NEW i \in 1 .. Len(log)
      PROVE  /\ build'[log'[i].build] \notin {"none", "begun"}
             /\ log'[i].text = "end" => build'[log'[i].build] = "done"
             /\ log[i].build = m.build => log[i].text # "end" /\ m.text # "start"
  BY <1>1, <1>2, <1>3 DEF LogInv, Message
<1>4. ASSUME NEW i \in 1 .. Len(log'), i \notin 1 .. Len(log)
      PROVE  i = Len(log) + 1 /\ log'[i] = m
  BY <1>1, <1>4
<1>5. \A i \in 1 .. Len(log') :
        /\ build'[log'[i].build] \notin {"none", "begun"}
        /\ log'[i].text = "end" => build'[log'[i].build] = "done"
  BY <1>3, <1>4
<1>6. ASSUME NEW i \in 1 .. Len(log'), NEW j \in 1 .. Len(log'), i < j,
             log'[i].build = log'[j].build
      PROVE  log'[i].text # "end" /\ log'[j].text # "start"
  <2>1. i \in 1 .. Len(log)
    BY <1>1, <1>6
  <2>2. CASE j \in 1 .. Len(log)
    BY <1>1, <1>6, <2>1, <2>2 DEF LogInv, LogInOrder
  <2>3. CASE j \notin 1 .. Len(log)
    BY <1>1, <1>3, <1>4, <1>6, <2>1, <2>3
  <2> QED
    BY <2>2, <2>3
<1> QED
  BY <1>1, <1>5, <1>6 DEF LogInOrder

\* Every step continues the log in order: the announcement first, the lines while
\* execute waits for the streams, the result last (execute, finish).
LEMMA LogNext == LogInv /\ [Next]_vars => LogInv'
<1> SUFFICES ASSUME LogInv, [Next]_vars PROVE LogInv'
  OBVIOUS
<1>1. CASE UNCHANGED <<log, build, scanned, pipe>>
  BY <1>1 DEF LogInv, LogInOrder
\* A build moves on and nothing is logged.
<1>2. ASSUME NEW b \in Build, NEW to \in Phase \ {"none", "begun"}, Enter(b, to), build[b] # "done",
             UNCHANGED <<log, scanned, pipe>>,
             build[b] \in {"run", "waited"} => to = "waited" \/ \A s \in Stream : scanned[b][s] = 0
      PROVE  LogInv'
  <2>1. build' = [build EXCEPT ![b] = to] /\ build' \in [Build -> Phase]
    BY <1>2 DEF Enter, LogInv
  <2>2. \A i \in 1 .. Len(log) : log[i].build \in Build
    BY LogNamesBuilds
  <2>3. \A i \in 1 .. Len(log) :
          /\ build'[log[i].build] \notin {"none", "begun"}
          /\ log[i].text = "end" => build'[log[i].build] = "done"
    BY <1>2, <2>1, <2>2 DEF LogInv
  <2>4. \A d \in Build, s \in Stream : scanned[d][s] > 0 => build'[d] \in {"run", "waited"}
    BY <1>2, <2>1 DEF LogInv
  <2> QED
    BY <1>2, <2>1, <2>3, <2>4 DEF LogInv, LogInOrder
<1>3. ASSUME NEW q \in Request,
             \/ \E drop, add \in Few : BeginUpdate(q, drop, add)
             \/ UpdateStep(q) \/ CheckSpec(q)
      PROVE  LogInv'
  BY <1>1, <1>3 DEF BeginUpdate, UpdateStep, TruncateUpdate, WriteUpdate, CheckSpec, hub, output
<1>4. ASSUME NEW q \in Request, NEW b \in Build, RunBuild(q, b) PROVE LogInv'
  <2>1. build' = [build EXCEPT ![b] = "begun"] /\ build[b] = "none" /\ UNCHANGED <<log, scanned, pipe>>
    BY <1>4 DEF RunBuild, Enter, hub, output
  <2>2. \A i \in 1 .. Len(log) : log[i].build \in Build /\ log[i].build # b
    BY <2>1, LogNamesBuilds DEF LogInv
  <2> QED
    BY <2>1, <2>2 DEF LogInv, LogInOrder, Phase
<1>5. ASSUME NEW b \in Build, BuildStep(b) \/ Exit(b) PROVE LogInv'
  <2>1. CASE Announce(b)
    <3> DEFINE m == [build |-> b, text |-> "start"]
    <3>1. /\ m \in Message /\ Publish(m) /\ build[b] = "begun" /\ UNCHANGED <<scanned, pipe>>
          /\ build' = [build EXCEPT ![b] = "prepare"] /\ build' \in [Build -> Phase]
      BY <2>1 DEF Announce, Enter, output, Message, LogInv, Phase
    <3> QED
      BY <3>1, LogGrows DEF LogInv
  <2>2. CASE Conclude(b)
    <3> DEFINE m == [build |-> b, text |-> "end"]
    <3>1. /\ m \in Message /\ Publish(m) /\ build[b] = "ending" /\ UNCHANGED <<scanned, pipe>>
          /\ build' = [build EXCEPT ![b] = "done"] /\ build' \in [Build -> Phase]
      BY <2>2 DEF Conclude, Enter, output, Message, LogInv, Phase
    <3> QED
      BY <3>1, LogGrows DEF LogInv
  <2>3. CASE ReadSpec(b) \/ TruncateSpec(b) \/ WriteSpec(b) \/ StartBuilder(b)
    BY <1>2, <2>3 DEF ReadSpec, TruncateSpec, WriteSpec, StartBuilder, Abandon, Phase, hub, output
  <2>4. CASE WaitReturns(b)
    <3>1. /\ build[b] = "run" /\ build' = [build EXCEPT ![b] = "waited"] /\ UNCHANGED <<log, scanned>>
          /\ pipe' = [pipe EXCEPT ![b] = [s \in Stream |-> 0]]
      BY <2>4 DEF WaitReturns, Enter, hub
    <3>2. \A i \in 1 .. Len(log) : log[i].build \in Build
      BY LogNamesBuilds
    <3> QED
      BY <3>1, <3>2 DEF LogInv, LogInOrder, Phase
  <2>5. CASE Finish(b)
    BY <1>2, <2>5 DEF Finish, Phase, hub, output
  <2>6. CASE Exit(b)
    BY <1>1, <2>6 DEF Exit, hub
  <2> QED
    BY <1>5, <2>1, <2>2, <2>3, <2>4, <2>5, <2>6 DEF BuildStep
<1>6. ASSUME NEW b \in Build, NEW s \in Stream, StreamStep(b, s) \/ PrintLine(b, s)
      PROVE  LogInv'
  <2>1. CASE Scan(b, s)
    <3>1. build[b] = "run" /\ UNCHANGED <<log, build>>
      BY <2>1 DEF Scan, hub
    <3>2. /\ scanned' \in [Build -> [Stream -> Nat]] /\ pipe' \in [Build -> [Stream -> Nat]]
          /\ \A d \in Build \ {b} : scanned'[d] = scanned[d]
      BY <2>1 DEF Scan, LogInv
    <3> QED
      BY <3>1, <3>2 DEF LogInv, LogInOrder
  <2>2. CASE BroadcastLine(b, s)
    <3> DEFINE m == [build |-> b, text |-> "line"]
    <3>1. m \in Message /\ Publish(m) /\ scanned[b][s] > 0 /\ UNCHANGED <<build, pipe>>
      BY <2>2 DEF BroadcastLine, Message
    <3>2. build[b] \in {"run", "waited"}
      BY <3>1 DEF LogInv
    <3>3. /\ scanned' \in [Build -> [Stream -> Nat]]
          /\ \A d \in Build, r \in Stream : scanned'[d][r] > 0 => scanned[d][r] > 0
      BY <2>2, <3>1 DEF BroadcastLine, LogInv
    <3> QED
      BY <3>1, <3>2, <3>3, LogGrows DEF LogInv
  <2>3. CASE PrintLine(b, s)
    <3>1. UNCHANGED <<log, build, scanned>> /\ pipe' \in [Build -> [Stream -> Nat]]
      BY <2>3 DEF PrintLine, LogInv, hub
    <3> QED
      BY <3>1 DEF LogInv, LogInOrder
  <2> QED
    BY <1>6, <2>1, <2>2, <2>3 DEF StreamStep
<1>7. ASSUME NEW c \in Client, ClientStep(c) /\ UNCHANGED <<editing, running, build, draft, output>>
      PROVE  LogInv'
  BY <1>1, <1>7 DEF ClientStep, Pump, Register, Leave, Write, WriteClose, Peer, output
<1> QED
  BY <1>1, <1>3, <1>4, <1>5, <1>6, <1>7 DEF Next, vars, hub, output

\* The log of a build starts with its announcement and ends with its result, whatever
\* other builds log in between (wg.Wait in execute).
THEOREM LogsAreInOrder == Spec => []LogInOrder
<1>1. LogInv => LogInOrder
  BY DEF LogInv
<1> QED
  BY <1>1, LogInitially, LogNext, PTL DEF Spec

-----------------------------------------------------------------------------
(***************************************************************************)
(* The spec file.                                                          *)
(***************************************************************************)

\* The spec file, and who has the store's lock.
Requests ==
    [pc : {"new", "locked", "truncated", "checked", "done"},
     drop : SUBSET Instance, add : SUBSET Instance, spec : SUBSET Instance]

Filed ==
    /\ file.is \in {"spec", "empty", "torn"} /\ file.has \subseteq Instance
    /\ request \in [Request -> Requests]
    /\ acked \subseteq Instance /\ draft \in [Build -> SUBSET Instance]
    /\ since \in [Build -> SUBSET Instance]
    /\ clashed \subseteq Request /\ doubted \subseteq Instance
    /\ \A p, q \in Request : Holds(p) /\ Holds(q) => p = q

\* The lock is taken when nobody has it (Update).
LEMMA FiledNext == Filed /\ [Next]_vars => Filed'
<1> SUFFICES ASSUME Filed, [Next]_vars PROVE Filed'
  OBVIOUS
<1>1. CASE UNCHANGED <<file, request, edits, draft>>
  BY <1>1 DEF Filed, Holds, edits
<1>2. ASSUME NEW q \in Request, NEW drop \in Few, NEW add \in Few, BeginUpdate(q, drop, add)
      PROVE  Filed'
  <2>1. /\ ~Locked /\ UNCHANGED <<file, acked, since, doubted, draft>> /\ clashed' \subseteq Request
        /\ request' = [request EXCEPT ![q] = [pc |-> "locked", drop |-> drop, add |-> add,
                                             spec |-> (file.has \ drop) \cup add]]
    BY <1>2 DEF BeginUpdate, Clash, Filed
  <2>2. request' \in [Request -> Requests]
    BY <2>1 DEF Filed, Requests, Few
  <2>3. \A p \in Request : Holds(p)' => p = q
    BY <2>1 DEF Filed, Locked, Holds
  <2> QED
    BY <2>1, <2>2, <2>3 DEF Filed
<1>3. ASSUME NEW q \in Request, TruncateUpdate(q) \/ WriteUpdate(q) PROVE Filed'
  <2>1. /\ request[q].spec \subseteq Instance /\ request[q].drop \subseteq Instance
        /\ request[q].add \subseteq Instance
    BY DEF Filed, Requests
  <2>2. /\ file'.is \in {"spec", "empty", "torn"} /\ file'.has \subseteq Instance
        /\ acked' \subseteq Instance /\ UNCHANGED draft
        /\ clashed' \subseteq Request /\ doubted' \subseteq Instance
        /\ since' \in [Build -> SUBSET Instance]
    BY <1>3, <2>1 DEF TruncateUpdate, WriteUpdate, Truncate, Overwrite, Filed, Clash, Edited
  <2>3. /\ Holds(q)
        /\ \E to \in {"truncated", "done"} : request' = [request EXCEPT ![q].pc = to]
    BY <1>3 DEF TruncateUpdate, WriteUpdate, Holds
  <2>4. request' \in [Request -> Requests]
    BY <2>3 DEF Filed, Requests
  <2>5. \A p \in Request : Holds(p)' => Holds(p)
    BY <2>3 DEF Filed, Holds
  <2> QED
    BY <2>2, <2>4, <2>5 DEF Filed
<1>4. ASSUME NEW q \in Request, CheckSpec(q) \/ \E b \in Build : RunBuild(q, b) PROVE Filed'
  <2>1. /\ \E to \in {"checked", "done"} : request' = [request EXCEPT ![q].pc = to]
        /\ UNCHANGED <<file, edits, draft>>
    BY <1>4 DEF CheckSpec, RunBuild
  <2>2. request' \in [Request -> Requests]
    BY <2>1 DEF Filed, Requests
  <2>3. \A p \in Request : Holds(p)' => Holds(p)
    BY <2>1 DEF Filed, Holds
  <2> QED
    BY <2>1, <2>2, <2>3 DEF Filed, edits
<1>5. ASSUME NEW b \in Build, ReadSpec(b) \/ TruncateSpec(b) \/ WriteSpec(b) PROVE Filed'
  <2>1. /\ UNCHANGED <<request, acked, since>>
        /\ clashed' \subseteq Request /\ doubted' \subseteq Instance
        /\ file'.is \in {"spec", "empty", "torn"} /\ file'.has \subseteq Instance
        /\ draft' \in [Build -> SUBSET Instance]
    BY <1>5 DEF ReadSpec, TruncateSpec, WriteSpec, Truncate, Overwrite, Abandon, editing, edits, Updating,
       Filed
  <2> QED
    BY <2>1 DEF Filed, Holds
<1>6. ASSUME NEW b \in Build, BuildStep(b) \/ Exit(b) PROVE Filed'
  BY <1>1, <1>5, <1>6 DEF BuildStep, Exit, Announce, WaitReturns, Finish, Conclude, StartBuilder,
     Abandon, editing
<1>7. ASSUME NEW b \in Build, NEW s \in Stream, StreamStep(b, s) \/ PrintLine(b, s)
      PROVE  Filed'
  BY <1>1, <1>7 DEF StreamStep, Scan, BroadcastLine, PrintLine, editing
<1> QED
  BY <1>1, <1>2, <1>3, <1>4, <1>6, <1>7 DEF Next, vars, editing, UpdateStep

\* They agree about an instance.
Agree(i, has, said) == i \in has <=> i \in said

\* What the request will have been answered.
Answered(q) == (acked \ request[q].drop) \cup request[q].add

\* But for clashes, the one who holds the lock knows all edits, and a build those up to
\* its reading; what a clash leaves is doubted.
SpecInv ==
    /\ BuildInv /\ Filed /\ EditsKept
    /\ \A b \in Preparing : \A i \in Instance \ (doubted \cup since[b]) : Agree(i, draft[b], acked)
    /\ \A q \in Request \ clashed : Holds(q) =>
          \A i \in Instance \ (doubted \ Edited(q)) : Agree(i, request[q].spec, Answered(q))
    /\ Updating \ clashed # {} => file.is = "empty"
    /\ Rewriting # {} => Updating \subseteq clashed
    /\ (Rewriting # {} /\ file.is # "empty") \/ file.is = "torn" =>
          doubted = Instance /\ \A q \in Request : Holds(q) => q \in clashed

\* A server starts with what its file says.
LEMMA SpecInitially == Init => SpecInv
<1>1. Init => Filed
  BY DEF Init, Filed, Requests, NoRequest, Holds
<1>2. ASSUME Init
      PROVE  Preparing = {} /\ Rewriting = {} /\ Updating = {} /\ \A q \in Request : ~Holds(q)
  BY <1>2 DEF Init, Holds, Preparing, Rewriting, Updating, NoRequest
<1>3. ASSUME Init
      PROVE  file.is = "spec" /\ file.has = acked
  BY <1>3 DEF Init
<1>4. Init => EditsKept
  BY <1>3 DEF EditsKept
<1> QED
  BY <1>1, <1>2, <1>3, <1>4, BuildInitially DEF SpecInv

\* A step that is not about the file: locks and builds stay in the phases that matter.
LEMMA SpecUntouched ==
    ASSUME SpecInv, BuildInv', Filed', UNCHANGED <<file, edits, draft>>,
           \A q \in Request : request'[q] = request[q] \/ (~Holds(q) /\ ~Holds(q)'),
           Rewriting' = Rewriting, Preparing' \subseteq Preparing
    PROVE  SpecInv'
<1>1. \A q \in Request : (Holds(q)' <=> Holds(q)) /\ (Holds(q) => request'[q] = request[q])
  BY DEF Holds
<1>2. Updating' = Updating
  BY <1>1 DEF Updating, Holds
<1>3. EditsKept'
  BY <1>2 DEF SpecInv, EditsKept, edits
<1>4. \A b \in Preparing' : \A i \in Instance \ (doubted' \cup since'[b]) : Agree(i, draft'[b], acked')
  BY DEF SpecInv, edits
<1>5. \A q \in Request \ clashed : Holds(q) => (Edited(q)' = Edited(q) /\ Answered(q)' = Answered(q))
  BY <1>1 DEF Edited, Answered, edits
<1>6. \A q \in Request \ clashed' : Holds(q)' =>
          \A i \in Instance \ (doubted' \ Edited(q)') : Agree(i, request'[q].spec, Answered(q)')
  BY <1>1, <1>5 DEF SpecInv, edits
<1>7. /\ Updating' \ clashed' # {} => file'.is = "empty"
      /\ Rewriting' # {} => Updating' \subseteq clashed'
  BY <1>2 DEF SpecInv, edits
<1>8. (Rewriting' # {} /\ file'.is # "empty") \/ file'.is = "torn" =>
          doubted' = Instance /\ \A q \in Request : Holds(q)' => q \in clashed'
  BY <1>1 DEF SpecInv, edits
<1> QED
  BY <1>3, <1>4, <1>6, <1>7, <1>8 DEF SpecInv

\* An edit begins.
LEMMA BeginUpdateSpec ==
    ASSUME SpecInv, Filed', BuildInv', NEW q \in Request, NEW drop \in Few, NEW add \in Few,
           BeginUpdate(q, drop, add)
    PROVE  SpecInv'
<1>1. /\ ~Locked /\ Readable /\ clashed' = Clash({q})
      /\ request' = [request EXCEPT ![q] = [pc |-> "locked", drop |-> drop, add |-> add,
                                           spec |-> (file.has \ drop) \cup add]]
      /\ UNCHANGED <<file, acked, since, doubted, build, draft>>
  BY DEF BeginUpdate
<1>2. /\ \A p \in Request : ~Holds(p) /\ (Holds(p)' <=> p = q)
      /\ request'[q].drop = drop /\ request'[q].add = add
      /\ request'[q].spec = (file.has \ drop) \cup add
  BY <1>1 DEF SpecInv, Filed, Locked, Holds
<1>3. Updating = {} /\ Updating' = {} /\ Rewriting' = Rewriting /\ Preparing' = Preparing
  BY <1>1, <1>2 DEF Updating, Rewriting, Preparing, Holds, SpecInv, Filed
<1>4. EditsKept'
  BY <1>1, <1>3 DEF SpecInv, EditsKept
<1>5. ASSUME q \notin clashed', NEW i \in Instance \ (doubted \ Edited(q)')
      PROVE  Agree(i, request'[q].spec, Answered(q)')
  <2>1. Rewriting = {}
    BY <1>1, <1>5 DEF Clash
  <2>2. i \notin drop \cup add => i \notin doubted
    BY <1>2, <1>5 DEF Edited
  <2>3. i \notin drop \cup add => Agree(i, file.has, acked)
    BY <1>3, <2>1, <2>2 DEF SpecInv, EditsKept, Agree
  <2> QED
    BY <1>1, <1>2, <2>3 DEF Agree, Answered
<1>6. (Rewriting # {} /\ file.is # "empty") \/ file.is = "torn" =>
          doubted = Instance /\ q \in clashed'
  BY <1>1 DEF SpecInv, Clash, Readable
<1> QED
  BY <1>1, <1>2, <1>3, <1>4, <1>5, <1>6 DEF SpecInv

\* The file is emptied.
LEMMA TruncateUpdateSpec ==
    ASSUME SpecInv, Filed', BuildInv', NEW q \in Request, TruncateUpdate(q)
    PROVE  SpecInv'
<1>1. /\ request[q].pc = "locked" /\ file'.is = "empty" /\ clashed' = Clash({q})
      /\ request' = [request EXCEPT ![q].pc = "truncated"]
      /\ UNCHANGED <<acked, since, doubted, build, draft>>
  BY DEF TruncateUpdate, Truncate
<1>2. /\ \A p \in Request : /\ Holds(p)' <=> Holds(p)
                            /\ request'[p].spec = request[p].spec
                            /\ request'[p].drop = request[p].drop /\ request'[p].add = request[p].add
      /\ Updating' = {q} /\ Rewriting' = Rewriting /\ Preparing' = Preparing
  BY <1>1 DEF SpecInv, Filed, Requests, Holds, Updating, Rewriting, Preparing
<1>3. \A p \in Request : Edited(p)' = Edited(p) /\ Answered(p)' = Answered(p)
  BY <1>1, <1>2 DEF Edited, Answered
<1>4. EditsKept'
  BY <1>2 DEF EditsKept
<1>5. clashed \subseteq clashed' /\ (Rewriting # {} => q \in clashed')
  BY <1>1 DEF Clash
<1>6. \A p \in Request \ clashed' : Holds(p)' =>
          \A i \in Instance \ (doubted' \ Edited(p)') : Agree(i, request'[p].spec, Answered(p)')
  <2> SUFFICES ASSUME NEW p \in Request \ clashed', Holds(p)',
                      NEW i \in Instance \ (doubted' \ Edited(p)')
               PROVE  Agree(i, request'[p].spec, Answered(p)')
    OBVIOUS
  <2>1. p \in Request \ clashed /\ Holds(p) /\ request'[p].spec = request[p].spec
    BY <1>2, <1>5
  <2>2. i \in Instance \ (doubted \ Edited(p)) /\ Answered(p)' = Answered(p)
    BY <1>1, <1>3
  <2>3. Agree(i, request[p].spec, Answered(p))
    BY <2>1, <2>2 DEF SpecInv
  <2> QED
    BY <2>1, <2>2, <2>3
<1> QED
  BY <1>1, <1>2, <1>4, <1>5, <1>6 DEF SpecInv

\* The edit is written and answered.
LEMMA WriteUpdateSpec ==
    ASSUME SpecInv, Filed', BuildInv', NEW q \in Request, WriteUpdate(q)
    PROVE  SpecInv'
<1>1. /\ request[q].pc = "truncated" /\ Overwrite(request[q].spec)
      /\ request' = [request EXCEPT ![q].pc = "done"]
      /\ acked' = Answered(q)
      /\ since' = [b \in Build |-> IF b \in Preparing THEN since[b] \cup Edited(q) ELSE since[b]]
      /\ doubted' = IF q \in clashed THEN Instance ELSE doubted \ Edited(q)
      /\ UNCHANGED <<clashed, build, draft>>
  BY DEF WriteUpdate, Answered
<1>2. Holds(q) /\ q \in Updating /\ \A p \in Request : ~Holds(p)'
  BY <1>1 DEF SpecInv, Filed, Requests, Holds, Updating
<1>3. Updating' = {} /\ Rewriting' = Rewriting /\ Preparing' = Preparing
  BY <1>1, <1>2 DEF Updating, Rewriting, Preparing, Holds
<1>4. CASE q \in clashed
  <2>1. doubted' = Instance
    BY <1>1, <1>4
  <2> QED
    BY <1>2, <1>3, <2>1 DEF SpecInv, EditsKept
<1>5. CASE q \notin clashed
  <2>1. file.is = "empty" /\ Rewriting = {} /\ doubted' = doubted \ Edited(q)
    BY <1>1, <1>2, <1>5 DEF SpecInv
  <2>2. file' = [is |-> "spec", has |-> request[q].spec]
    BY <1>1, <2>1 DEF Overwrite
  <2>3. EditsKept'
    BY <1>1, <1>2, <1>5, <2>1, <2>2 DEF SpecInv, EditsKept, Agree
  <2>4. ASSUME NEW b \in Preparing, NEW i \in Instance \ (doubted' \cup since'[b])
        PROVE  Agree(i, draft'[b], acked')
    <3>1. b \in Build /\ i \notin Edited(q) /\ i \notin since[b] /\ i \notin doubted
      BY <1>1, <2>1 DEF Preparing
    <3>2. Agree(i, draft[b], acked)
      BY <3>1 DEF SpecInv
    <3> QED
      BY <1>1, <3>1, <3>2 DEF Agree, Answered, Edited
  <2> QED
    BY <1>2, <1>3, <2>1, <2>2, <2>3, <2>4 DEF SpecInv
<1> QED
  BY <1>4, <1>5

\* A build reads the spec.
LEMMA ReadSpecSpec ==
    ASSUME SpecInv, Filed', BuildInv', NEW b \in Build, ~Locked, build[b] = "prepare",
           build' = [build EXCEPT ![b] = "read"], draft' = [draft EXCEPT ![b] = file.has],
           UNCHANGED <<file, request, edits>>
    PROVE  SpecInv'
<1>1. Rewriting = {} /\ Rewriting' = {} /\ Preparing' = {b}
  BY DEF SpecInv, BuildInv, OneBuild, Active, Rewriting, Preparing
<1>2. Updating = {} /\ Updating' = {} /\ \A q \in Request : ~Holds(q) /\ ~Holds(q)'
  BY DEF Locked, Holds, Updating
<1>3. draft'[b] = file.has
  BY DEF SpecInv, Filed
<1>4. EditsKept'
  BY <1>1, <1>2 DEF SpecInv, EditsKept, edits
<1>5. \A i \in Instance \ doubted : Agree(i, file.has, acked)
  BY <1>1, <1>2 DEF SpecInv, EditsKept, Agree
<1>6. file.is = "torn" => doubted = Instance
  BY DEF SpecInv
<1> QED
  BY <1>1, <1>2, <1>3, <1>4, <1>5, <1>6 DEF SpecInv, edits

\* And empties the file.
LEMMA TruncateSpecSpec ==
    ASSUME SpecInv, Filed', BuildInv', NEW b \in Build, build[b] = "read",
           build' = [build EXCEPT ![b] = "truncated"], Truncate, clashed' = clashed \cup Updating,
           UNCHANGED <<request, acked, since, doubted, draft>>
    PROVE  SpecInv'
<1>1. b \in Rewriting' /\ Preparing' = Preparing /\ file'.is = "empty"
  BY DEF SpecInv, BuildInv, Rewriting, Preparing, Truncate
<1>2. Updating' = Updating /\ \A q \in Request : /\ Holds(q)' <=> Holds(q)
                                               /\ Edited(q)' = Edited(q) /\ Answered(q)' = Answered(q)
  BY DEF Holds, Updating, Edited, Answered
<1>3. EditsKept'
  BY <1>1 DEF EditsKept
<1> QED
  BY <1>1, <1>2, <1>3 DEF SpecInv

\* And writes back what it had read.
LEMMA WriteSpecSpec ==
    ASSUME SpecInv, Filed', BuildInv', NEW b \in Build, WriteSpec(b)
    PROVE  SpecInv'
<1>1. /\ build[b] = "truncated" /\ build' = [build EXCEPT ![b] = "written"]
      /\ Overwrite(draft[b])
      /\ doubted' = IF Updating # {} THEN Instance ELSE doubted \cup since[b]
      /\ UNCHANGED <<request, acked, since, clashed, draft>>
  BY DEF WriteSpec, Enter
<1>2. b \in Rewriting /\ b \in Preparing /\ Rewriting' = {} /\ Preparing' = {}
  BY <1>1 DEF SpecInv, BuildInv, OneBuild, Active, Rewriting, Preparing
<1>3. /\ Updating' = Updating /\ Updating \subseteq clashed
      /\ \A q \in Request : /\ Holds(q)' <=> Holds(q)
                            /\ Edited(q)' = Edited(q) /\ Answered(q)' = Answered(q)
  BY <1>1, <1>2 DEF Holds, Updating, Edited, Answered, SpecInv
<1>4. doubted \subseteq doubted' /\ doubted' \subseteq Instance
  BY <1>1 DEF SpecInv, Filed
<1>5. \A q \in Request \ clashed' : Holds(q)' =>
          \A i \in Instance \ (doubted' \ Edited(q)') : Agree(i, request'[q].spec, Answered(q)')
  BY <1>1, <1>3, <1>4 DEF SpecInv
<1>6. CASE Updating # {}
  <2>1. \A q \in Request : Holds(q) => q \in clashed
    <3>1. PICK p \in Updating : p \in Request /\ Holds(p) /\ p \in clashed
      BY <1>3, <1>6 DEF Updating, Holds
    <3> QED
      BY <3>1 DEF SpecInv, Filed
  <2> QED
    BY <1>1, <1>2, <1>3, <1>5, <1>6, <2>1 DEF SpecInv, EditsKept
<1>7. CASE Updating = {} /\ file.is = "empty"
  <2>1. file' = [is |-> "spec", has |-> draft[b]] /\ doubted' = doubted \cup since[b]
    BY <1>1, <1>7 DEF Overwrite
  <2>2. EditsKept'
    BY <1>1, <1>2, <2>1 DEF SpecInv, EditsKept, Agree
  <2> QED
    BY <1>2, <1>3, <1>5, <1>7, <2>1, <2>2 DEF SpecInv
<1>8. CASE Updating = {} /\ file.is # "empty"
  <2>1. doubted' = Instance /\ \A q \in Request : Holds(q) => q \in clashed
    BY <1>2, <1>4, <1>8 DEF SpecInv
  <2> QED
    BY <1>1, <1>2, <1>3, <1>5, <1>8, <2>1 DEF SpecInv, EditsKept
<1> QED
  BY <1>6, <1>7, <1>8

\* Whoever has the file in hand knows what it should say, or is in doubt (Update,
\* prepareSpecFile).
LEMMA SpecNext == SpecInv /\ [Next]_vars => SpecInv'
<1> SUFFICES ASSUME SpecInv, [Next]_vars PROVE SpecInv'
  OBVIOUS
<1>1. BuildInv' /\ Filed'
  BY BuildNext, FiledNext DEF SpecInv
<1>2. CASE UNCHANGED <<file, request, edits, build, draft>>
  <2>1. Rewriting' = Rewriting /\ Preparing' = Preparing
    BY <1>2 DEF Rewriting, Preparing
  <2> QED
    BY <1>1, <1>2, <2>1, SpecUntouched
<1>3. ASSUME NEW q \in Request, NEW drop \in Few, NEW add \in Few, BeginUpdate(q, drop, add)
      PROVE  SpecInv'
  BY <1>1, <1>3, BeginUpdateSpec
<1>4. ASSUME NEW q \in Request, TruncateUpdate(q) PROVE SpecInv'
  BY <1>1, <1>4, TruncateUpdateSpec
<1>5. ASSUME NEW q \in Request, WriteUpdate(q) PROVE SpecInv'
  BY <1>1, <1>5, WriteUpdateSpec
<1>6. ASSUME NEW q \in Request, CheckSpec(q) \/ \E b \in Build : RunBuild(q, b) PROVE SpecInv'
  <2>1. /\ UNCHANGED <<file, edits, draft>>
        /\ \E to \in {"checked", "done"} : request' = [request EXCEPT ![q].pc = to]
        /\ request[q].pc \in {"new", "checked"}
        /\ \/ UNCHANGED build
           \/ \E b \in Build : build[b] = "none" /\ build' = [build EXCEPT ![b] = "begun"]
    BY <1>6 DEF CheckSpec, RunBuild, Enter
  <2>2. \A p \in Request : request'[p] = request[p] \/ (~Holds(p) /\ ~Holds(p)')
    BY <2>1 DEF SpecInv, Filed, Requests, Holds
  <2>3. Rewriting' = Rewriting /\ Preparing' = Preparing
    BY <2>1 DEF SpecInv, BuildInv, Rewriting, Preparing
  <2> QED
    BY <1>1, <2>1, <2>2, <2>3, SpecUntouched
\* A build that does not touch the file.
<1>7. ASSUME NEW b \in Build, NEW to, to \notin {"read", "truncated"}, build[b] # "truncated", Enter(b, to),
             UNCHANGED <<file, request, edits, draft>>
      PROVE  SpecInv'
  <2>1. Rewriting' = Rewriting /\ Preparing' \subseteq Preparing
    BY <1>7 DEF Enter, SpecInv, BuildInv, Rewriting, Preparing
  <2> QED
    BY <1>1, <1>7, <2>1, SpecUntouched
<1>8. ASSUME NEW b \in Build, ReadSpec(b) PROVE SpecInv'
  <2>1. CASE Abandon(b)
    BY <1>7, <1>8, <2>1 DEF ReadSpec, Abandon, editing
  <2>2. CASE ~Abandon(b)
    <3>1. /\ ~Locked /\ build[b] = "prepare" /\ build' = [build EXCEPT ![b] = "read"]
          /\ draft' = [draft EXCEPT ![b] = file.has] /\ UNCHANGED <<file, request, edits>>
      BY <1>8, <2>2 DEF ReadSpec, Enter, editing
    <3> QED
      BY <1>1, <3>1, ReadSpecSpec
  <2> QED
    BY <2>1, <2>2
<1>9. ASSUME NEW b \in Build, TruncateSpec(b) PROVE SpecInv'
  <2>1. CASE Abandon(b)
    BY <1>7, <1>9, <2>1 DEF TruncateSpec, Abandon, editing
  <2>2. CASE ~Abandon(b)
    <3>1. /\ build[b] = "read" /\ build' = [build EXCEPT ![b] = "truncated"]
          /\ Truncate /\ clashed' = clashed \cup Updating
          /\ UNCHANGED <<request, acked, since, doubted, draft>>
      BY <1>9, <2>2 DEF TruncateSpec, Enter
    <3> QED
      BY <1>1, <3>1, TruncateSpecSpec
  <2> QED
    BY <2>1, <2>2
<1>10. ASSUME NEW b \in Build, WriteSpec(b) PROVE SpecInv'
  BY <1>1, <1>10, WriteSpecSpec
<1>11. ASSUME NEW b \in Build, BuildStep(b) \/ Exit(b) PROVE SpecInv'
  <2>1. CASE Announce(b) \/ WaitReturns(b) \/ Finish(b) \/ Conclude(b) \/ StartBuilder(b)
    BY <1>7, <2>1 DEF Announce, WaitReturns, Finish, Conclude, StartBuilder, Abandon, editing
  <2>2. CASE Exit(b)
    BY <1>2, <2>2 DEF Exit, editing
  <2> QED
    BY <1>8, <1>9, <1>10, <1>11, <2>1, <2>2 DEF BuildStep
<1>12. ASSUME NEW b \in Build, NEW s \in Stream, StreamStep(b, s) \/ PrintLine(b, s)
       PROVE  SpecInv'
  BY <1>2, <1>12 DEF StreamStep, Scan, BroadcastLine, PrintLine, editing
<1> QED
  BY <1>2, <1>3, <1>4, <1>5, <1>6, <1>11, <1>12 DEF Next, vars, editing, UpdateStep

\* What was answered with success is in the file once nobody rewrites it, for any number
\* of requests, instances and builds, but what a build has undone that had read the file
\* before, or that rewrote it at the same time (Update, prepareSpecFile).
THEOREM EditsAreKept == Spec => []EditsKept
<1>1. SpecInv => EditsKept
  BY DEF SpecInv
<1>2. SpecInv /\ [Next]_vars => SpecInv'
  BY SpecNext
<1> QED
  BY <1>1, <1>2, SpecInitially, PTL DEF Spec

-----------------------------------------------------------------------------
(***************************************************************************)
(* Types.                                                                  *)
(***************************************************************************)

\* What a client's channel holds, and its goroutines.
Fits ==
    /\ \A c \in Client : Len(buffer[c]) <= SendCap
    /\ reading \subseteq Client /\ writing \subseteq Client

\* What the builder has printed is in the pipe, scanned, logged or lost.
Printed ==
    /\ printed \in [Build -> [Stream -> Nat]]
    /\ pipe \in [Build -> [Stream -> Nat]] /\ scanned \in [Build -> [Stream -> Nat]]
    /\ \A b \in Build, s \in Stream :
          pipe[b][s] + scanned[b][s] <= printed[b][s] /\ printed[b][s] <= MaxLine
    /\ alive \subseteq {b \in Build : build[b] = "run"}

\* A message goes where there is room (the broadcast arm of Run).
LEMMA FitsNext == HubInv /\ Fits /\ [Next]_vars => Fits'
<1> SUFFICES ASSUME HubInv, Fits, [Next]_vars PROVE Fits'
  OBVIOUS
<1>1. CASE UNCHANGED hub
  BY <1>1 DEF hub, Fits
<1>2. ASSUME NEW m \in Message, Publish(m) PROVE Fits'
  <2>1. ASSUME NEW c \in Client PROVE Len(buffer'[c]) <= SendCap
    <3>1. CASE c \in clients'
      <4>1. Len(buffer[c]) \in Nat /\ Len(buffer[c]) <= SendCap /\ Len(buffer[c]) # SendCap
        BY <1>2, <3>1, LenProperties DEF Publish, Full, Fits, HubInv, HubTypes
      <4>2. Len(buffer'[c]) = Len(buffer[c]) + 1
        BY <1>2, <3>1, AppendProperties, LenProperties DEF Publish, HubInv, HubTypes
      <4> QED
        BY <4>1, <4>2 DEF HubAssumption
    <3>2. CASE c \notin clients'
      BY <1>2, <3>2 DEF Publish, Fits
    <3> QED
      BY <3>1, <3>2
  <2> QED
    BY <1>2, <2>1 DEF Publish, Fits
<1>3. ASSUME NEW c \in Client, Register(c) \/ Leave(c) \/ WriteClose(c) \/ Peer(c) PROVE Fits'
  BY <1>3 DEF Register, Leave, WriteClose, Peer, Fits
<1>4. ASSUME NEW c \in Client, Write(c) PROVE Fits'
  <2>1. buffer[c] \in Seq(Nat) /\ buffer[c] # <<>>
    BY <1>4 DEF Write, HubInv, HubTypes
  <2>2. Len(Tail(buffer[c])) <= Len(buffer[c]) /\ Len(Tail(buffer[c])) \in Nat /\ Len(buffer[c]) \in Nat
    BY <2>1, HeadTailProperties, LenProperties
  <2>3. writing' \subseteq writing /\ UNCHANGED reading
        /\ (buffer' = buffer \/ buffer' = [buffer EXCEPT ![c] = Tail(buffer[c])])
    BY <1>4 DEF Write
  <2>4. ASSUME NEW d \in Client PROVE Len(buffer'[d]) <= SendCap
    <3>1. /\ DOMAIN buffer = Client
          /\ Len(buffer[d]) <= SendCap /\ Len(buffer[c]) <= SendCap
      BY DEF Fits, HubInv, HubTypes
    <3>2. Len(Tail(buffer[c])) <= SendCap
      BY <2>2, <3>1 DEF HubAssumption
    <3>3. buffer'[d] = buffer[d] \/ buffer'[d] = Tail(buffer[c])
      BY <2>3, <3>1
    <3> QED
      BY <3>1, <3>2, <3>3
  <2> QED
    BY <2>3, <2>4 DEF Fits
<1> QED
  BY <1>1, <1>2, <1>3, <1>4, HubSteps DEF ClientStep, Pump

\* Lines move from the builder to the log (streamLog, cmd.Wait).
LEMMA PrintedNext == BuildInv /\ Printed /\ [Next]_vars => Printed'
<1> SUFFICES ASSUME BuildInv, Printed, [Next]_vars PROVE Printed'
  OBVIOUS
<1>1. CASE UNCHANGED <<build, output>>
  BY <1>1 DEF Printed, output
<1>2. ASSUME NEW b \in Build, NEW to, Enter(b, to), b \notin alive, UNCHANGED output PROVE Printed'
  BY <1>2 DEF Printed, Enter, BuildInv, output
<1>3. ASSUME NEW q \in Request,
             \/ \E drop, add \in Few : BeginUpdate(q, drop, add)
             \/ UpdateStep(q) \/ CheckSpec(q)
      PROVE  Printed'
  BY <1>1, <1>3 DEF BeginUpdate, UpdateStep, TruncateUpdate, WriteUpdate, CheckSpec
<1>4. ASSUME NEW q \in Request, NEW b \in Build, RunBuild(q, b) PROVE Printed'
  BY <1>2, <1>4 DEF RunBuild, Printed
<1>5. ASSUME NEW b \in Build, BuildStep(b) \/ Exit(b) PROVE Printed'
  <2>1. CASE Announce(b) \/ ReadSpec(b) \/ TruncateSpec(b) \/ WriteSpec(b) \/ Finish(b) \/ Conclude(b)
    <3>1. b \notin alive
      BY <2>1 DEF Announce, ReadSpec, TruncateSpec, WriteSpec, Finish, Conclude, Printed
    <3>2. UNCHANGED output /\ \E to \in Phase : Enter(b, to)
      BY <2>1 DEF Announce, ReadSpec, TruncateSpec, WriteSpec, Finish, Conclude, Abandon, Phase
    <3> QED
      BY <1>2, <3>1, <3>2
  <2>2. CASE StartBuilder(b)
    <3>1. b \notin alive
      BY <2>2 DEF StartBuilder, Printed
    <3>2. CASE Abandon(b)
      BY <1>2, <3>1, <3>2 DEF Abandon
    <3>3. CASE Enter(b, "run") /\ alive' = alive \cup {b} /\ UNCHANGED <<printed, pipe, scanned>>
      BY <3>3 DEF Printed, Enter, BuildInv
    <3> QED
      BY <2>2, <3>2, <3>3 DEF StartBuilder
  <2>3. CASE WaitReturns(b)
    <3>1. /\ b \notin alive /\ build' = [build EXCEPT ![b] = "waited"]
          /\ pipe' = [pipe EXCEPT ![b] = [s \in Stream |-> 0]] /\ UNCHANGED <<alive, printed, scanned>>
      BY <2>3 DEF WaitReturns, Enter
    <3>2. pipe' \in [Build -> [Stream -> Nat]] /\ \A s \in Stream : pipe'[b][s] = 0
      BY <3>1 DEF Printed
    <3>3. \A d \in Build, s \in Stream : pipe'[d][s] <= pipe[d][s]
      BY <3>1, <3>2 DEF Printed
    <3>4. alive' \subseteq {d \in Build : build'[d] = "run"}
      BY <3>1 DEF Printed, BuildInv
    <3>5. \A d \in Build, s \in Stream : pipe'[d][s] + scanned[d][s] <= printed[d][s]
      BY <3>2, <3>3 DEF Printed
    <3> QED
      BY <3>1, <3>2, <3>4, <3>5 DEF Printed
  <2>4. CASE Exit(b)
    BY <2>4 DEF Exit, Printed
  <2> QED
    BY <1>5, <2>1, <2>2, <2>3, <2>4 DEF BuildStep
<1>6. ASSUME NEW b \in Build, NEW s \in Stream, StreamStep(b, s) \/ PrintLine(b, s)
      PROVE  Printed'
  <2>1. CASE Scan(b, s)
    BY <2>1 DEF Scan, Printed
  <2>2. CASE BroadcastLine(b, s)
    BY <2>2 DEF BroadcastLine, Printed
  <2>3. CASE PrintLine(b, s)
    BY <2>3 DEF PrintLine, Printed, ServerAssumption
  <2> QED
    BY <1>6, <2>1, <2>2, <2>3 DEF StreamStep
<1>7. ASSUME NEW c \in Client, ClientStep(c) /\ UNCHANGED <<editing, running, build, draft, output>>
      PROVE  Printed'
  BY <1>1, <1>7
<1> QED
  BY <1>1, <1>3, <1>4, <1>5, <1>6, <1>7 DEF Next, vars

\* Of those who hold the lock there is at most one.
LEMMA OneLock ==
    Filed => Cardinality({q \in Request : request[q].pc \in {"locked", "truncated"}}) <= 1
<1> DEFINE Holders == {q \in Request : request[q].pc \in {"locked", "truncated"}}
<1> SUFFICES ASSUME Filed PROVE Cardinality(Holders) <= 1
  OBVIOUS
<1>1. \A p, q \in Holders : p = q
  BY DEF Filed, Holds
<1> HIDE DEF Holders
<1>2. CASE Holders = {}
  <2>1. Cardinality(Holders) = 0
    BY <1>2, FS_EmptySet
  <2> QED
    BY <2>1
<1>3. CASE \E q : q \in Holders
  <2>1. PICK q : q \in Holders
    BY <1>3
  <2>2. Holders = {q}
    BY <1>1, <2>1
  <2>3. Cardinality({q}) = 1
    BY FS_Singleton
  <2> QED
    BY <2>2, <2>3
<1> QED
  BY <1>2, <1>3

\* Every state of the server is typed: channels hold no more than they can, the lock
\* has one holder, and the builder runs only while its build does, for any number of
\* clients, requests, builds and lines.
THEOREM TypeCorrect == Spec => []TypeOK
<1> DEFINE Inv == HubInv /\ Fits /\ Filed /\ BuildInv /\ Printed
<1>1. Init => Inv
  <2>1. Init => Fits
    BY DEF Init, HubInit, Fits, HubAssumption
  <2>2. Init => Filed
    BY DEF Init, Filed, Requests, NoRequest, Holds
  <2>3. Init => Printed
    BY DEF Init, Printed, Zero, ServerAssumption
  <2> QED
    BY <2>1, <2>2, <2>3, HubInitially, BuildInitially
<1>2. Inv /\ [Next]_vars => Inv'
  BY HubNext, FitsNext, FiledNext, BuildNext, PrintedNext
<1>3. Inv => TypeOK
  <2> SUFFICES ASSUME Inv PROVE TypeOK
    OBVIOUS
  <2>1. \A count \in {printed, pipe, scanned} : count \in [Build -> [Stream -> 0 .. MaxLine]]
    BY DEF Printed, ServerAssumption
  <2>2. \A q \in Request : /\ request[q].pc \in {"new", "locked", "truncated", "checked", "done"}
                           /\ request[q].spec \subseteq Instance
    BY DEF Filed, Requests
  <2> QED
    BY <2>1, <2>2, OneLock DEF TypeOK, HubInv, HubTypes, Fits, Filed, BuildInv, Printed
<1> QED
  BY <1>1, <1>2, <1>3, PTL DEF Spec
================================================================================
