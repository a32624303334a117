--------------------------- MODULE GksLinkProofs ---------------------------
(***************************************************************************)
(* Proofs about the link of one UAV to any number of stations, positions   *)
(* and concurrent packets: the type invariant, that a station which marked *)
(* the UAV out of range keeps its command path closed, and that every open *)
(* command path is under the watch of the timeout.                         *)
(***************************************************************************)
EXTENDS GksLink, TLAPS

-----------------------------------------------------------------------------
(* The task slots. *)

USE DEF PCs, PacketPCs, HandoverPCs

LEMMA IdleIsTask == Idle \in Tasks
BY DEF Idle, Tasks

\* Setting the pc of a busy task keeps the slots well formed, as long as what
\* the new pc needs is there.
LEMMA GoToOK ==
  ASSUME TasksOK, NEW t \in Slots, NEW pc \in PCs \ {"idle", "range", "own", "send"},
         task[t].pc # "idle",
         pc \in PacketPCs => task[t].pos \in Positions,
         GoTo(t, pc)
  PROVE  TasksOK'
<1>1. task[t] \in Tasks /\ task[t].g \in GKS
  BY DEF TasksOK
<1>2. [task[t] EXCEPT !.pc = pc] \in Tasks
  BY <1>1 DEF Tasks
<1>3. task' \in [Slots -> Tasks]
  BY <1>2 DEF TasksOK, GoTo
<1>4. task'[t].pc = pc /\ task'[t].g = task[t].g /\ task'[t].pos = task[t].pos
  BY <1>1 DEF TasksOK, GoTo, Tasks
<1>5. \A u \in Slots \ {t} : task'[u] = task[u]
  BY DEF TasksOK, GoTo
<1>6. QED
  BY <1>1, <1>3, <1>4, <1>5 DEF TasksOK

\* Putting a well formed task, or nothing, into a slot keeps them well formed.
LEMMA PutOK ==
  ASSUME TasksOK, NEW t \in Slots, NEW r \in Tasks,
         r.pc # "idle" => r.g \in GKS,
         r.pc \in PacketPCs => r.pos \in Positions,
         r.pc \in {"own", "send"} => r.peer \in GKS,
         task' = [task EXCEPT ![t] = r]
  PROVE  TasksOK'
<1>1. task' \in [Slots -> Tasks]
  BY DEF TasksOK
<1>2. task'[t] = r /\ \A u \in Slots \ {t} : task'[u] = task[u]
  BY DEF TasksOK
<1>3. QED
  BY <1>1, <1>2 DEF TasksOK

LEMMA EndOK ==
  ASSUME TasksOK, NEW t \in Slots, End(t)
  PROVE  TasksOK'
<1>1. Idle.pc = "idle"
  BY DEF Idle
<1>2. QED
  BY <1>1, IdleIsTask, PutOK DEF End

LEMMA SameTasksOK ==
  ASSUME TasksOK, UNCHANGED task
  PROVE  TasksOK'
BY DEF TasksOK

\* A task in slot t that starts a handover from g to h.
LEMMA StartHandoverOK ==
  ASSUME TasksOK, NEW t \in Slots, NEW g \in GKS, NEW h \in GKS, NEW auto \in BOOLEAN,
         task' = [task EXCEPT ![t] = [Idle EXCEPT !.pc = "send", !.g = g, !.peer = h,
                                                  !.auto = auto]]
  PROVE  TasksOK'
<1> DEFINE r == [Idle EXCEPT !.pc = "send", !.g = g, !.peer = h, !.auto = auto]
<1>1. r \in Tasks /\ r.pc = "send" /\ r.peer = h /\ r.g = g
  BY DEF Idle, Tasks
<1>2. QED
  BY <1>1, PutOK

-----------------------------------------------------------------------------
(* The gate state of the stations. *)

GateOK ==
  /\ active_endpoints \in [GKS -> BOOLEAN]
  /\ last_seen \in [GKS -> {"none", "fresh", "stale"}]
  /\ out_of_range \in [GKS -> {"none", "NO_RANGE", "AWAITING_HANDOVER"}]
  /\ CommandPathClosed
  /\ EndpointTimed

LEMMA SameGateOK ==
  ASSUME GateOK, UNCHANGED gateVars
  PROVE  GateOK'
BY DEF GateOK, gateVars, CommandPathClosed, EndpointTimed

LEMMA ClosePathOK ==
  ASSUME GateOK, NEW g \in GKS,
         NEW mode \in {"none", "NO_RANGE", "AWAITING_HANDOVER"}, ClosePath(g, mode)
  PROVE  GateOK'
BY DEF GateOK, ClosePath, CommandPathClosed, EndpointTimed

LEMMA OpenPathOK ==
  ASSUME GateOK, NEW g \in GKS, OpenPath(g)
  PROVE  GateOK'
BY DEF GateOK, OpenPath, CommandPathClosed, EndpointTimed

LEMMA ForgetOK ==
  ASSUME GateOK, NEW g \in GKS, Forget(g)
  PROVE  GateOK'
BY DEF GateOK, Forget, CommandPathClosed, EndpointTimed

LEMMA SilenceOK ==
  ASSUME GateOK, NEW g \in GKS, Silence(g)
  PROVE  GateOK'
BY DEF GateOK, Silence, CommandPathClosed, EndpointTimed

-----------------------------------------------------------------------------
(* The rest of the state. *)

RestOK ==
  /\ pos \in Positions /\ flying \in BOOLEAN
  /\ server \in GKS /\ secure \in BOOLEAN
  /\ ho \in GKS \cup {None}
  /\ session \in [GKS -> BOOLEAN]
  /\ attempt \in [GKS -> BOOLEAN]
  /\ checker \in [GKS -> {"sleep", "close", "delete", "pop"}]
  /\ hash \in Hashes \cup {None}
  /\ open \in BOOLEAN
  /\ events \in 0..MaxEvents

\* The inductive invariant: TypeOK, CommandPathClosed and EndpointTimed, grouped
\* by the variables a step disturbs together.
IInv == RestOK /\ TasksOK /\ GateOK

LEMMA IInvImplies == IInv => TypeOK /\ CommandPathClosed /\ EndpointTimed
BY DEF IInv, TypeOK, RestOK, GateOK

LEMMA EventOK ==
  ASSUME events \in 0..MaxEvents, Event \/ UNCHANGED events
  PROVE  events' \in 0..MaxEvents
BY GksLinkAssumption DEF Event

LEMMA TouchedOK ==
  ASSUME hash \in Hashes \cup {None}
  PROVE  Touched \in Hashes
BY DEF Touched, Hashes

LEMMA InitIInv == Init => IInv
<1> SUFFICES ASSUME Init PROVE IInv
  OBVIOUS
<1>1. TasksOK
  <2>1. Idle.pc = "idle"
    BY DEF Idle
  <2>2. QED
    BY <2>1, IdleIsTask DEF Init, TasksOK
<1>2. GateOK
  BY DEF Init, GateOK, CommandPathClosed, EndpointTimed
<1>3. RestOK
  <2>1. events \in 0..MaxEvents
    BY GksLinkAssumption DEF Init
  <2>2. hash \in Hashes \cup {None} /\ ho \in GKS \cup {None}
    BY DEF Init
  <2>3. /\ session \in [GKS -> BOOLEAN]
        /\ attempt \in [GKS -> BOOLEAN]
        /\ checker \in [GKS -> {"sleep", "close", "delete", "pop"}]
    BY DEF Init
  <2>4. flying \in BOOLEAN /\ secure \in BOOLEAN /\ open \in BOOLEAN
    BY DEF Init
  <2>5. QED
    BY <2>1, <2>2, <2>3, <2>4 DEF Init, RestOK
<1>4. QED
  BY <1>1, <1>2, <1>3 DEF IInv

-----------------------------------------------------------------------------
(* The steps. *)

LEMMA TelemetryInv ==
  ASSUME IInv, NEW t \in Slots, Telemetry(t)
  PROVE  IInv'
<1> USE DEF IInv
<1>1. TasksOK'
  <2>1. CASE UNCHANGED task
    BY <2>1, SameTasksOK
  <2>2. CASE task' = [task EXCEPT ![t] = [Idle EXCEPT !.pc = "range", !.g = server,
                                                      !.pos = pos]]
    <3> DEFINE r == [Idle EXCEPT !.pc = "range", !.g = server, !.pos = pos]
    <3>1. r \in Tasks /\ r.pc = "range" /\ r.g = server /\ r.pos = pos
      BY DEF Idle, Tasks, RestOK
    <3>2. QED
      BY <2>2, <3>1, PutOK DEF RestOK
  <2>3. QED
    BY <2>1, <2>2 DEF Telemetry
<1>2. GateOK'
  BY SameGateOK DEF Telemetry, gksVars
<1>3. RestOK'
  BY DEF Telemetry, RestOK, gksVars, dbVars
<1>4. QED
  BY <1>1, <1>2, <1>3

LEMMA GateInv ==
  ASSUME IInv, NEW t \in Slots, EvaluateLinkGate(t)
  PROVE  IInv'
<1> USE DEF IInv
<1> DEFINE g == task[t].g
           p == task[t].pos
<1>1. g \in GKS /\ p \in Positions /\ task[t].pc = "range"
  BY DEF EvaluateLinkGate, At, TasksOK
<1>2. RestOK'
  BY DEF EvaluateLinkGate, RestOK, uavVars, dbVars
<1>3. TasksOK' /\ GateOK'
  <2>1. CASE ClosePath(g, IF out_of_range[g] = "none" THEN "NO_RANGE"
                                                      ELSE out_of_range[g])
             /\ End(t)
    <3>1. (IF out_of_range[g] = "none" THEN "NO_RANGE" ELSE out_of_range[g])
            \in {"none", "NO_RANGE", "AWAITING_HANDOVER"}
      BY <1>1 DEF GateOK
    <3>2. QED
      BY <1>1, <2>1, <3>1, ClosePathOK, EndOK
  <2>2. CASE ClosePath(g, "AWAITING_HANDOVER") /\ GoTo(t, "decide")
    <3>1. TasksOK'
      BY <1>1, <2>2, GoToOK
    <3>2. QED
      BY <1>1, <2>2, <3>1, ClosePathOK
  <2>3. CASE OpenPath(g) /\ GoTo(t, "exists")
    <3>1. TasksOK'
      BY <1>1, <2>3, GoToOK
    <3>2. QED
      BY <1>1, <2>3, <3>1, OpenPathOK
  <2>4. QED
    BY <2>1, <2>2, <2>3 DEF EvaluateLinkGate
<1>4. QED
  BY <1>2, <1>3

LEMMA ExistsInv ==
  ASSUME IInv, NEW t \in Slots, Exists(t)
  PROVE  IInv'
<1> USE DEF IInv
<1>1. TasksOK'
  <2>1. /\ task[t].pc # "idle" /\ task[t].pos \in Positions
        /\ GoTo(t, "insert") \/ GoTo(t, "read")
    BY DEF Exists, At, TasksOK
  <2>2. QED
    BY <2>1, GoToOK
<1>2. GateOK'
  BY SameGateOK DEF Exists, gksVars
<1>3. RestOK'
  BY DEF Exists, RestOK, uavVars, gksVars, dbVars
<1>4. QED
  BY <1>1, <1>2, <1>3

LEMMA InsertSessionInv ==
  ASSUME IInv, NEW t \in Slots, InsertSession(t)
  PROVE  IInv'
<1> USE DEF IInv
<1>1. TasksOK'
  <2>1. task[t].pc # "idle" /\ task[t].pos \in Positions
    BY DEF InsertSession, At, TasksOK
  <2>2. QED
    BY <2>1, GoToOK DEF InsertSession
<1>2. GateOK'
  BY SameGateOK DEF InsertSession, gksVars
<1>3. RestOK'
  BY DEF InsertSession, RestOK, uavVars, gksVars
<1>4. QED
  BY <1>1, <1>2, <1>3

LEMMA HsetSessionInv ==
  ASSUME IInv, NEW t \in Slots, HsetSession(t)
  PROVE  IInv'
<1> USE DEF IInv
<1>1. TasksOK'
  <2>1. task[t].pc # "idle" /\ task[t].pos \in Positions
    BY DEF HsetSession, At, TasksOK
  <2>2. QED
    BY <2>1, GoToOK DEF HsetSession
<1>2. GateOK'
  BY SameGateOK DEF HsetSession, gksVars
<1>3. RestOK'
  <2>1. task[t].g \in GKS
    BY DEF HsetSession, At, TasksOK
  <2>2. hash' \in Hashes
    BY <2>1 DEF HsetSession, Hashes
  <2>3. QED
    BY <2>2 DEF HsetSession, RestOK, uavVars, gksVars
<1>4. QED
  BY <1>1, <1>2, <1>3

LEMMA ReadStateInv ==
  ASSUME IInv, NEW t \in Slots, ReadState(t)
  PROVE  IInv'
<1> USE DEF IInv
<1>1. TasksOK'
  <2> DEFINE prev == IF hash = None THEN None ELSE hash.last_seen_by
             own == IF prev = None THEN task[t].g ELSE prev
             r == [task[t] EXCEPT !.pc = "own", !.peer = own]
  <2>1. task[t] \in Tasks /\ task[t].g \in GKS /\ task[t].pos \in Positions
    BY DEF ReadState, At, TasksOK
  <2>2. prev \in GKS \cup {None}
    BY DEF RestOK, Hashes
  <2>3. own \in GKS
    BY <2>1, <2>2
  <2> HIDE DEF own
  <2>4. /\ r \in Tasks /\ r.pc = "own" /\ r.g = task[t].g
        /\ r.pos = task[t].pos /\ r.peer = own
    BY <2>1, <2>3 DEF Tasks
  <2>5. task' = [task EXCEPT ![t] = r]
    BY DEF ReadState, own, TasksOK
  <2> HIDE DEF r
  <2>6. QED
    BY <2>1, <2>3, <2>4, <2>5, PutOK
<1>2. GateOK'
  BY SameGateOK DEF ReadState, gksVars
<1>3. RestOK'
  BY DEF ReadState, RestOK, uavVars, gksVars, dbVars
<1>4. QED
  BY <1>1, <1>2, <1>3

LEMMA TakeOverInv ==
  ASSUME IInv, NEW t \in Slots, TakeOver(t)
  PROVE  IInv'
<1> USE DEF IInv
<1>1. TasksOK'
  <2> DEFINE r == [task[t] EXCEPT !.pc = "decide", !.peer = None]
  <2>1. task[t] \in Tasks /\ task[t].g \in GKS
    BY DEF TakeOver, At, TasksOK
  <2>2. task[t].pos \in Positions
    BY DEF TakeOver, At, TasksOK
  <2>3. r \in Tasks /\ r.pc = "decide" /\ r.g = task[t].g /\ r.pos = task[t].pos
    BY <2>1 DEF Tasks
  <2>4. task' = [task EXCEPT ![t] = r]
    BY DEF TakeOver, TasksOK
  <2>5. QED
    BY <2>1, <2>2, <2>3, <2>4, PutOK
<1>2. GateOK'
  BY SameGateOK DEF TakeOver, gksVars
<1>3. RestOK'
  <2>1. task[t].g \in GKS
    BY DEF TakeOver, At, TasksOK
  <2>2. Touched \in Hashes
    BY TouchedOK DEF RestOK
  <2>3. hash' \in Hashes
    BY <2>1, <2>2 DEF TakeOver, Hashes
  <2>4. QED
    BY <2>3 DEF TakeOver, RestOK, uavVars, gksVars
<1>4. QED
  BY <1>1, <1>2, <1>3

LEMMA DecideHandoverInv ==
  ASSUME IInv, NEW t \in Slots, DecideHandover(t)
  PROVE  IInv'
<1> USE DEF IInv
<1>1. TasksOK'
  <2>1. task[t].g \in GKS
    BY DEF DecideHandover, At, TasksOK
  <2>2. ASSUME NEW h \in GKS,
               task' = [task EXCEPT ![t] = [Idle EXCEPT !.pc = "send", !.g = task[t].g,
                                                        !.peer = h, !.auto = TRUE]]
        PROVE  TasksOK'
    BY <2>1, <2>2, StartHandoverOK
  <2>3. QED
    BY <2>2, EndOK DEF DecideHandover
<1>2. GateOK'
  BY SameGateOK DEF DecideHandover
<1>3. RestOK'
  <2>1. attempt' \in [GKS -> BOOLEAN]
    BY DEF DecideHandover, RestOK
  <2>2. QED
    BY <2>1 DEF DecideHandover, RestOK, uavVars, dbVars
<1>4. QED
  BY <1>1, <1>2, <1>3

LEMMA ManualHandoverInv ==
  ASSUME IInv, NEW t \in Slots, NEW g \in GKS, NEW h \in GKS, ManualHandover(t, g, h)
  PROVE  IInv'
<1> USE DEF IInv
<1>1. TasksOK'
  <2> DEFINE r == [Idle EXCEPT !.pc = "send", !.g = g, !.peer = h]
  <2>1. r \in Tasks /\ r.pc = "send" /\ r.peer = h /\ r.g = g
    BY DEF Idle, Tasks
  <2>2. QED
    BY <2>1, PutOK DEF ManualHandover
<1>2. GateOK'
  BY SameGateOK DEF ManualHandover, gksVars
<1>3. RestOK'
  <2>1. events' \in 0..MaxEvents
    BY EventOK DEF ManualHandover, RestOK
  <2>2. QED
    BY <2>1 DEF ManualHandover, RestOK, uavVars, gksVars, dbVars
<1>4. QED
  BY <1>1, <1>2, <1>3

LEMMA SendHandoverInv ==
  ASSUME IInv, NEW t \in Slots, SendHandover(t)
  PROVE  IInv'
<1> USE DEF IInv
<1>1. TasksOK'
  <2> DEFINE r == [task[t] EXCEPT !.pc = "close", !.peer = None]
  <2>1. task[t] \in Tasks /\ task[t].g \in GKS
    BY DEF SendHandover, At, TasksOK
  <2>2. r \in Tasks /\ r.pc = "close" /\ r.g = task[t].g
    BY <2>1 DEF Tasks
  <2>3. [task EXCEPT ![t].pc = "close", ![t].peer = None] = [task EXCEPT ![t] = r]
    BY DEF TasksOK
  <2>4. CASE task' = [task EXCEPT ![t] = r]
    BY <2>1, <2>2, <2>4, PutOK
  <2>5. QED
    BY <2>3, <2>4, EndOK DEF SendHandover
<1>2. GateOK'
  BY SameGateOK DEF SendHandover, gksVars
<1>3. RestOK'
  <2>1. task[t].peer \in GKS
    BY DEF SendHandover, At, TasksOK
  <2>2. ho' \in GKS \cup {None}
    BY <2>1 DEF SendHandover, RestOK
  <2>3. QED
    BY <2>2 DEF SendHandover, RestOK, uavVars, gksVars, dbVars
<1>4. QED
  BY <1>1, <1>2, <1>3

LEMMA CloseRowsInv ==
  ASSUME IInv, NEW t \in Slots, CloseRows(t)
  PROVE  IInv'
<1> USE DEF IInv
<1>1. TasksOK'
  <2>1. task[t].pc # "idle"
    BY DEF CloseRows, At
  <2>2. QED
    BY <2>1, GoToOK DEF CloseRows
<1>2. GateOK'
  BY SameGateOK DEF CloseRows, gksVars
<1>3. RestOK'
  <2>1. events' \in 0..MaxEvents
    BY EventOK DEF CloseRows, RestOK
  <2>2. QED
    BY <2>1 DEF CloseRows, RestOK, uavVars, gksVars
<1>4. QED
  BY <1>1, <1>2, <1>3

LEMMA DeleteHashInv ==
  ASSUME IInv, NEW t \in Slots, DeleteHash(t)
  PROVE  IInv'
<1> USE DEF IInv
<1>1. TasksOK'
  <2>1. task[t].pc # "idle"
    BY DEF DeleteHash, At
  <2>2. QED
    BY <2>1, GoToOK DEF DeleteHash
<1>2. GateOK'
  BY SameGateOK DEF DeleteHash, gksVars
<1>3. RestOK'
  BY DEF DeleteHash, RestOK, uavVars, gksVars
<1>4. QED
  BY <1>1, <1>2, <1>3

LEMMA ReleaseInv ==
  ASSUME IInv, NEW t \in Slots, Release(t)
  PROVE  IInv'
<1> USE DEF IInv
<1>1. TasksOK'
  BY EndOK DEF Release
<1>2. GateOK'
  <2>1. task[t].g \in GKS
    BY DEF Release, At, TasksOK
  <2>2. QED
    BY <2>1, ForgetOK DEF Release
<1>3. RestOK'
  BY DEF Release, RestOK, Forget, uavVars, dbVars
<1>4. QED
  BY <1>1, <1>2, <1>3

LEMMA TaskFailsInv ==
  ASSUME IInv, NEW t \in Slots, TaskFails(t)
  PROVE  IInv'
<1> USE DEF IInv
<1>1. TasksOK'
  <2>1. CASE End(t)
    BY <2>1, EndOK
  <2>2. CASE task[t].pc \in {"close", "delete"} /\ GoTo(t, "release")
    BY <2>2, GoToOK
  <2>3. QED
    BY <2>1, <2>2 DEF TaskFails
<1>2. GateOK'
  BY SameGateOK DEF TaskFails, gksVars
<1>3. RestOK'
  <2>1. events' \in 0..MaxEvents
    BY EventOK DEF TaskFails, RestOK
  <2>2. QED
    BY <2>1 DEF TaskFails, RestOK, uavVars, gksVars, dbVars
<1>4. QED
  BY <1>1, <1>2, <1>3

LEMMA CheckTimeoutInv ==
  ASSUME IInv, NEW g \in GKS, CheckTimeout(g)
  PROVE  IInv'
<1> USE DEF IInv
<1>1. TasksOK'
  BY SameTasksOK DEF CheckTimeout
<1>2. GateOK'
  BY SameGateOK DEF CheckTimeout
<1>3. RestOK'
  <2>1. checker' \in [GKS -> {"sleep", "close", "delete", "pop"}]
    BY DEF CheckTimeout, CheckerGoTo, RestOK
  <2>2. QED
    BY <2>1 DEF CheckTimeout, RestOK, uavVars, dbVars
<1>4. QED
  BY <1>1, <1>2, <1>3

LEMMA TimeoutCloseRowsInv ==
  ASSUME IInv, NEW g \in GKS, TimeoutCloseRows(g)
  PROVE  IInv'
<1> USE DEF IInv
<1>1. TasksOK'
  BY SameTasksOK DEF TimeoutCloseRows
<1>2. GateOK'
  BY SameGateOK DEF TimeoutCloseRows
<1>3. RestOK'
  <2>1. checker' \in [GKS -> {"sleep", "close", "delete", "pop"}]
    BY DEF TimeoutCloseRows, CheckerGoTo, RestOK
  <2>2. QED
    BY <2>1 DEF TimeoutCloseRows, RestOK, uavVars
<1>4. QED
  BY <1>1, <1>2, <1>3

LEMMA TimeoutDeleteHashInv ==
  ASSUME IInv, NEW g \in GKS, TimeoutDeleteHash(g)
  PROVE  IInv'
<1> USE DEF IInv
<1>1. TasksOK'
  BY SameTasksOK DEF TimeoutDeleteHash
<1>2. GateOK'
  BY SameGateOK DEF TimeoutDeleteHash
<1>3. RestOK'
  <2>1. checker' \in [GKS -> {"sleep", "close", "delete", "pop"}]
    BY DEF TimeoutDeleteHash, CheckerGoTo, RestOK
  <2>2. QED
    BY <2>1 DEF TimeoutDeleteHash, RestOK, uavVars
<1>4. QED
  BY <1>1, <1>2, <1>3

LEMMA TimeoutForgetInv ==
  ASSUME IInv, NEW g \in GKS, TimeoutForget(g)
  PROVE  IInv'
<1> USE DEF IInv
<1>1. TasksOK'
  BY SameTasksOK DEF TimeoutForget
<1>2. GateOK'
  BY ForgetOK DEF TimeoutForget
<1>3. RestOK'
  BY DEF TimeoutForget, RestOK, Forget, CheckerGoTo, uavVars, dbVars
<1>4. QED
  BY <1>1, <1>2, <1>3

LEMMA TimeoutFailsInv ==
  ASSUME IInv, NEW g \in GKS, TimeoutFails(g)
  PROVE  IInv'
<1> USE DEF IInv
<1>1. TasksOK'
  BY SameTasksOK DEF TimeoutFails
<1>2. GateOK'
  BY SameGateOK DEF TimeoutFails
<1>3. RestOK'
  <2>1. events' \in 0..MaxEvents
    BY EventOK DEF TimeoutFails, RestOK
  <2>2. checker' \in [GKS -> {"sleep", "close", "delete", "pop"}]
    BY DEF TimeoutFails, CheckerGoTo, RestOK
  <2>3. QED
    BY <2>1, <2>2 DEF TimeoutFails, RestOK, uavVars, dbVars
<1>4. QED
  BY <1>1, <1>2, <1>3

LEMMA HandshakeInv ==
  ASSUME IInv, Handshake
  PROVE  IInv'
<1> USE DEF IInv
<1>1. TasksOK'
  BY SameTasksOK DEF Handshake
<1>2. GateOK'
  BY SameGateOK DEF Handshake, gksVars
<1>3. RestOK'
  BY DEF Handshake, RestOK, uavVars, gksVars, dbVars
<1>4. QED
  BY <1>1, <1>2, <1>3

LEMMA HandshakeFailsInv ==
  ASSUME IInv, HandshakeFails
  PROVE  IInv'
<1> USE DEF IInv
<1>1. TasksOK'
  BY SameTasksOK DEF HandshakeFails
<1>2. GateOK'
  BY SameGateOK DEF HandshakeFails, gksVars
<1>3. RestOK'
  <2>1. events' \in 0..MaxEvents
    BY EventOK DEF HandshakeFails, RestOK
  <2>2. QED
    BY <2>1 DEF HandshakeFails, RestOK, uavVars, gksVars, dbVars
<1>4. QED
  BY <1>1, <1>2, <1>3

LEMMA ObeyHandoverInv ==
  ASSUME IInv, ObeyHandover
  PROVE  IInv'
<1> USE DEF IInv
<1>1. TasksOK'
  BY SameTasksOK DEF ObeyHandover
<1>2. GateOK'
  BY SameGateOK DEF ObeyHandover, gksVars
<1>3. RestOK'
  BY DEF ObeyHandover, RestOK, uavVars, gksVars, dbVars
<1>4. QED
  BY <1>1, <1>2, <1>3

LEMMA HandoverRevertsInv ==
  ASSUME IInv, HandoverReverts
  PROVE  IInv'
<1> USE DEF IInv
<1>1. TasksOK'
  BY SameTasksOK DEF HandoverReverts
<1>2. GateOK'
  BY SameGateOK DEF HandoverReverts, gksVars
<1>3. RestOK'
  <2>1. events' \in 0..MaxEvents
    BY EventOK DEF HandoverReverts, RestOK
  <2>2. QED
    BY <2>1 DEF HandoverReverts, RestOK, uavVars, gksVars, dbVars
<1>4. QED
  BY <1>1, <1>2, <1>3

LEMMA MoveInv ==
  ASSUME IInv, Move
  PROVE  IInv'
<1> USE DEF IInv
<1>1. TasksOK'
  BY SameTasksOK DEF Move
<1>2. GateOK'
  BY SameGateOK DEF Move, gksVars
<1>3. RestOK'
  <2>1. events' \in 0..MaxEvents
    BY EventOK DEF Move, RestOK
  <2>2. QED
    BY <2>1 DEF Move, RestOK, uavVars, gksVars, dbVars
<1>4. QED
  BY <1>1, <1>2, <1>3

LEMMA VanishInv ==
  ASSUME IInv, Vanish
  PROVE  IInv'
<1> USE DEF IInv
<1>1. TasksOK'
  BY SameTasksOK DEF Vanish
<1>2. GateOK'
  BY SameGateOK DEF Vanish, gksVars
<1>3. RestOK'
  <2>1. events' \in 0..MaxEvents
    BY EventOK DEF Vanish, RestOK
  <2>2. QED
    BY <2>1 DEF Vanish, RestOK, uavVars, gksVars, dbVars
<1>4. QED
  BY <1>1, <1>2, <1>3

LEMMA LoseHandoverInv ==
  ASSUME IInv, LoseHandover
  PROVE  IInv'
<1> USE DEF IInv
<1>1. TasksOK'
  BY SameTasksOK DEF LoseHandover
<1>2. GateOK'
  BY SameGateOK DEF LoseHandover, gksVars
<1>3. RestOK'
  <2>1. events' \in 0..MaxEvents
    BY EventOK DEF LoseHandover, RestOK
  <2>2. QED
    BY <2>1 DEF LoseHandover, RestOK, uavVars, gksVars, dbVars
<1>4. QED
  BY <1>1, <1>2, <1>3

LEMMA SilenceInv ==
  ASSUME IInv, NEW g \in GKS, Silence(g)
  PROVE  IInv'
<1> USE DEF IInv
<1>1. TasksOK'
  BY SameTasksOK DEF Silence
<1>2. GateOK'
  BY SilenceOK
<1>3. RestOK'
  <2>1. events' \in 0..MaxEvents
    BY EventOK DEF Silence, RestOK
  <2>2. QED
    BY <2>1 DEF Silence, RestOK, uavVars, dbVars
<1>4. QED
  BY <1>1, <1>2, <1>3

LEMMA AttemptExpiresInv ==
  ASSUME IInv, NEW g \in GKS, AttemptExpires(g)
  PROVE  IInv'
<1> USE DEF IInv
<1>1. TasksOK'
  BY SameTasksOK DEF AttemptExpires
<1>2. GateOK'
  BY SameGateOK DEF AttemptExpires
<1>3. RestOK'
  BY DEF AttemptExpires, RestOK, uavVars, dbVars
<1>4. QED
  BY <1>1, <1>2, <1>3

LEMMA GksRestartInv ==
  ASSUME IInv, NEW g \in GKS, GksRestart(g)
  PROVE  IInv'
<1> USE DEF IInv
<1>1. TasksOK'
  <2>1. Idle.pc = "idle"
    BY DEF Idle
  <2>2. \A t \in Slots : task'[t] = Idle \/ task'[t] = task[t]
    BY DEF GksRestart, TasksOK
  <2>3. task' \in [Slots -> Tasks]
    BY IdleIsTask DEF GksRestart, TasksOK
  <2>4. QED
    BY <2>1, <2>2, <2>3 DEF TasksOK
<1>2. GateOK'
  BY ForgetOK DEF GksRestart
<1>3. RestOK'
  <2>1. events' \in 0..MaxEvents
    BY EventOK DEF GksRestart, RestOK
  <2>2. QED
    BY <2>1 DEF GksRestart, RestOK, Forget, uavVars, dbVars
<1>4. QED
  BY <1>1, <1>2, <1>3

LEMMA NextIInv == IInv /\ [Next]_vars => IInv'
<1> SUFFICES ASSUME IInv, [Next]_vars PROVE IInv'
  OBVIOUS
<1>1. ASSUME NEW t \in Slots, Telemetry(t) \/ TaskStep(t) \/ TaskFails(t)
      PROVE  IInv'
  BY <1>1, TelemetryInv, GateInv, ExistsInv, InsertSessionInv, HsetSessionInv,
     ReadStateInv, TakeOverInv, DecideHandoverInv, SendHandoverInv, CloseRowsInv,
     DeleteHashInv, ReleaseInv, TaskFailsInv
     DEF TaskStep
<1>2. ASSUME NEW t \in Slots, NEW g \in GKS, NEW h \in GKS, ManualHandover(t, g, h)
      PROVE  IInv'
  BY <1>2, ManualHandoverInv
<1>3. ASSUME NEW g \in GKS, CheckerStep(g) \/ TimeoutFails(g)
      PROVE  IInv'
  BY <1>3, CheckTimeoutInv, TimeoutCloseRowsInv, TimeoutDeleteHashInv,
     TimeoutForgetInv, TimeoutFailsInv
     DEF CheckerStep
<1>4. CASE Handshake \/ HandshakeFails \/ ObeyHandover \/ HandoverReverts
  BY <1>4, HandshakeInv, HandshakeFailsInv, ObeyHandoverInv, HandoverRevertsInv
<1>5. CASE Move \/ Vanish \/ LoseHandover
  BY <1>5, MoveInv, VanishInv, LoseHandoverInv
<1>6. ASSUME NEW g \in GKS, Silence(g) \/ AttemptExpires(g) \/ GksRestart(g)
      PROVE  IInv'
  BY <1>6, SilenceInv, AttemptExpiresInv, GksRestartInv
<1>7. CASE UNCHANGED vars
  <2>1. TasksOK'
    BY <1>7, SameTasksOK DEF IInv, vars
  <2>2. GateOK'
    BY <1>7, SameGateOK DEF IInv, vars, gksVars
  <2>3. RestOK'
    BY <1>7 DEF IInv, RestOK, vars, uavVars, gksVars, dbVars
  <2>4. QED
    BY <2>1, <2>2, <2>3 DEF IInv
<1>8. QED
  BY <1>1, <1>2, <1>3, <1>4, <1>5, <1>6, <1>7 DEF Next

-----------------------------------------------------------------------------
\* The variables of stations, tasks and UAV keep their types: in particular a
\* task that takes the UAV over or hands it on always knows between which
\* stations (repository.py:88-90, server.py:188-282).
THEOREM GksLinkTypeOK == Spec => []TypeOK
<1>1. IInv => TypeOK
  BY IInvImplies
<1>2. QED
  BY InitIInv, NextIInv, <1>1, PTL DEF Spec

\* However many stations and packets there are, a station that has marked the
\* UAV out of range keeps its command path closed (server.py:297-397).
THEOREM GksLinkCommandPath == Spec => []CommandPathClosed
<1>1. IInv => CommandPathClosed
  BY IInvImplies
<1>2. QED
  BY InitIInv, NextIInv, <1>1, PTL DEF Spec

\* No interleaving of gate, release, timeout and restart leaves a command path
\* open that the timeout does not watch (server.py:297-298, 333-334, 371-372,
\* 724-733, 1004-1013).
THEOREM GksLinkTimed == Spec => []EndpointTimed
<1>1. IInv => EndpointTimed
  BY IInvImplies
<1>2. QED
  BY InitIInv, NextIInv, <1>1, PTL DEF Spec
=============================================================================
