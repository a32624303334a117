------------------------- MODULE CommandPathProofs --------------------------
(***************************************************************************)
(* The command path: no mixture of timers, answers and losses leaves the   *)
(* panel locked for good, a command is published twice only by the         *)
(* fallback of the terminal, and what the operator is told is true.        *)
(***************************************************************************)
EXTENDS CommandPath, TLAPS

USE CommandAssumption

-----------------------------------------------------------------------------
(* The panel: NeverStuck needs nothing but itself and the domain of client. *)

ArmedIn(ts, kind) == \E t \in ts : t.kind = kind

LEMMA TimerAdded ==
    ASSUME NEW ts, NEW kind, NEW left
    PROVE  \A k : ArmedIn(ts \cup {Timer(kind, left)}, k) <=> ArmedIn(ts, k) \/ k = kind
<1>1. Timer(kind, left).kind = kind
  BY DEF Timer
<1>2. QED
  BY <1>1 DEF ArmedIn

LEMMA TimerGone ==
    ASSUME NEW ts, NEW t \in ts
    PROVE  \A k : k # t.kind /\ ArmedIn(ts, k) => ArmedIn(ts \ {t}, k)
BY DEF ArmedIn

LEMMA TimersRun ==
    ASSUME NEW ts
    PROVE  \A k : ArmedIn(ts, k) => ArmedIn({Timer(t.kind, t.left - 1) : t \in ts}, k)
<1>1. \A t \in ts : Timer(t.kind, t.left - 1).kind = t.kind
  BY DEF Timer
<1>2. QED
  BY <1>1 DEF ArmedIn

Waiting(cl, m) == \E c \in m : cl[c] = "invoked"

LEMMA StuckMeans ==
    NeverStuck <=>
        /\ commandStatus = "PENDING" => ArmedIn(timers, "fail") \/ Waiting(client, mine)
        /\ commandStatus = "SUCCESS" => ArmedIn(timers, "reset")
        /\ commandStatus = "FAILED" => ArmedIn(timers, "reset") \/ ArmedIn(timers, "unfail")
BY DEF NeverStuck, Armed, ArmedIn, Waiting

LEMMA StuckMeansNext ==
    NeverStuck' <=>
        /\ commandStatus' = "PENDING" => ArmedIn(timers', "fail") \/ Waiting(client', mine')
        /\ commandStatus' = "SUCCESS" => ArmedIn(timers', "reset")
        /\ commandStatus' = "FAILED" => ArmedIn(timers', "reset") \/ ArmedIn(timers', "unfail")
BY DEF NeverStuck, Armed, ArmedIn, Waiting

ClientTyped ==
    /\ client \in [Commands -> {"none", "invoked", "posting", "done", "sent", "failed"}]
    /\ mine \subseteq Commands

LEMMA StuckStep == ClientTyped /\ NeverStuck /\ [Next]_vars => ClientTyped' /\ NeverStuck'
<1> SUFFICES ASSUME ClientTyped, NeverStuck, [Next]_vars PROVE ClientTyped' /\ NeverStuck'
  OBVIOUS
<1> USE StuckMeans, StuckMeansNext DEF ClientTyped
<1>1. CASE MountPanel
  BY <1>1 DEF MountPanel
<1>2. CASE UnmountPanel
  BY <1>2 DEF UnmountPanel
<1>3. CASE \E c \in Commands, b \in Buttons : SendCommand(c, b)
  BY <1>3 DEF SendCommand, Invoke, Waiting
<1>4. CASE TimerFires
  <2>1. PICK t \in timers : FailTimer(t) \/ UnfailTimer(t) \/ ResetTimer(t)
    BY <1>4 DEF TimerFires
  <2>2. UNCHANGED <<client, mine>>
    BY <1>4 DEF TimerFires
  <2>3. CASE FailTimer(t)
    <3>1. \A k : k # "fail" /\ ArmedIn(timers, k) => ArmedIn(timers', k)
      BY <2>3, TimerGone, TimerAdded DEF FailTimer
    <3>2. ArmedIn(timers', "unfail")
      BY <2>3, TimerAdded DEF FailTimer
    <3>3. QED
      BY <2>2, <2>3, <3>1, <3>2 DEF FailTimer
  <2>4. CASE UnfailTimer(t)
    <3>1. \A k : k # "unfail" /\ ArmedIn(timers, k) => ArmedIn(timers', k)
      BY <2>4, TimerGone DEF UnfailTimer
    <3>2. QED
      BY <2>2, <2>4, <3>1 DEF UnfailTimer
  <2>5. CASE ResetTimer(t)
    BY <2>2, <2>5 DEF ResetTimer
  <2>6. QED
    BY <2>1, <2>3, <2>4, <2>5
<1>5. CASE Tick
  BY <1>5, TimersRun DEF Tick
<1>6. CASE \E c \in Commands : SubmitTerminal(c)
  BY <1>6 DEF SubmitTerminal, Invoke, panel, Waiting
<1>7. CASE \E c \in Commands : RestAnswered(c)
  <2>1. PICK c \in Commands : RestAnswered(c)
    BY <1>7
  <2>2. client[c] = "posting" /\ UNCHANGED <<commandStatus, timers, mine>>
        /\ \E k \in {"sent", "failed"} : client' = [client EXCEPT ![c] = k]
    BY <2>1 DEF RestAnswered, panel
  <2>3. Waiting(client, mine) => Waiting(client', mine')
    BY <2>2 DEF Waiting
  <2>4. QED
    BY <2>2, <2>3
<1>8. CASE HubExecute \/ Drop \/ Reconnect \/ \E c \in Commands : HubExecuteOrphan(c)
  <2>1. UNCHANGED <<commandStatus, timers, client, mine>>
    BY <1>8 DEF HubExecute, Drop, Reconnect, HubExecuteOrphan, panel
  <2>2. QED
    BY <2>1
<1>9. CASE ReceiveNotice
  <2>1. /\ UNCHANGED <<client, mine>>
        /\ \/ UNCHANGED <<commandStatus, timers>>
           \/ commandStatus' = "SUCCESS" /\ timers' = timers \cup {Timer("reset", CloseAfter)}
    BY <1>9 DEF ReceiveNotice, HandleCommandAck
  <2>2. CASE UNCHANGED <<commandStatus, timers>>
    BY <2>1, <2>2
  <2>3. CASE commandStatus' = "SUCCESS" /\ timers' = timers \cup {Timer("reset", CloseAfter)}
    BY <2>1, <2>3, TimerAdded
  <2>4. QED
    BY <2>1, <2>2, <2>3
<1>10. CASE ReceiveResult
  <2> DEFINE c == Head(down).of
  <2>1. /\ client' = [client EXCEPT ![c] = "done"] /\ timers' = ArmFailSafe(c)
        /\ UNCHANGED <<commandStatus, mine>>
    BY <1>10 DEF ReceiveResult, AfterCall
  <2> HIDE DEF c
  <2>2. \A k : ArmedIn(timers, k) => ArmedIn(timers', k)
    BY <2>1, TimerAdded DEF ArmFailSafe
  <2>3. c \in mine => ArmedIn(timers', "fail")
    BY <2>1, TimerAdded DEF ArmFailSafe
  <2>4. c \notin mine => (Waiting(client, mine) => Waiting(client', mine'))
    BY <2>1 DEF Waiting
  <2>5. QED
    BY <2>1, <2>2, <2>3, <2>4
<1>11. CASE \E c \in Commands : InvokeRejected(c)
  <2>1. PICK c \in Commands : InvokeRejected(c)
    BY <1>11
  <2>2. /\ UNCHANGED mine
        /\ \E k \in {"posting", "failed"} : client' = [client EXCEPT ![c] = k]
        /\ IF c \in mine
           THEN commandStatus' = "FAILED" /\ timers' = timers \cup {Timer("reset", CloseAfter)}
           ELSE UNCHANGED <<commandStatus, timers>>
    BY <2>1 DEF InvokeRejected
  <2>3. CASE c \in mine
    BY <2>2, <2>3, TimerAdded
  <2>4. CASE c \notin mine
    <3>1. Waiting(client, mine) => Waiting(client', mine')
      BY <2>2, <2>4 DEF Waiting
    <3>2. QED
      BY <2>2, <2>4, <3>1
  <2>5. QED
    BY <2>3, <2>4
<1>12. CASE UNCHANGED vars
  BY <1>12 DEF vars
<1>13. QED
  BY <1>1, <1>2, <1>3, <1>4, <1>5, <1>6, <1>7, <1>8, <1>9, <1>10, <1>11, <1>12 DEF Next

\* Whatever timers and answers of several commands are under way, a locked panel
\* has a call in flight or the fail-safe timer, and a result has a timer that
\* takes it away.
THEOREM PanelNeverStuck == Spec => []NeverStuck
<1>1. Init => ClientTyped /\ NeverStuck
  BY DEF Init, ClientTyped, NeverStuck
<1>2. QED
  BY <1>1, StuckStep, PTL DEF Spec

-----------------------------------------------------------------------------
(* The delivery of the commands                                            *)

Notices == [kind : {"ack", "alert", "result"}, of : Commands]

PathTyped ==
    /\ sender \in [Commands -> {"none", "panel", "terminal"}]
    /\ client \in [Commands -> {"none", "invoked", "posting", "done", "sent", "failed"}]
    /\ orphans \subseteq Commands /\ alerted \subseteq Commands
    /\ published \in [Commands -> Nat]
    /\ up \in Seq(Commands)
    /\ down \in Seq(Notices)

\* A call that travels is awaited by its sender, was not published if it still
\* goes to the hub, and is nowhere else.
Travelling ==
    /\ \A i \in 1..Len(up) :
         /\ client[up[i]] = "invoked" /\ published[up[i]] = 0 /\ up[i] \notin orphans
         /\ \A j \in 1..Len(up) : up[j] = up[i] => j = i
         /\ \A j \in 1..Len(down) : down[j].of # up[i]
    /\ \A i \in 1..Len(down) :
         client[down[i].of] = "invoked" /\ down[i].of \notin orphans

\* The answer to a call comes once and last, after the alert if the call was
\* refused.
AnswersInOrder ==
    \A i \in 1..Len(down) : down[i].kind = "result" =>
        /\ \A j \in 1..Len(down) : down[j].of = down[i].of => j <= i
        /\ \/ published[down[i].of] > 0
           \/ down[i].of \in alerted
           \/ \E j \in 1..Len(down) : down[j].kind = "alert" /\ down[j].of = down[i].of

\* What the sender knows of a command bounds how often it was published.
Counted(c, cl, se, pu, or, al) ==
    /\ cl = "none" => pu = 0 /\ or = FALSE
    /\ cl \in {"invoked", "posting", "done"} => pu <= 1
    /\ or => pu <= 1 /\ (pu = 1 => cl \in {"sent", "failed"} /\ se = "terminal" /\ al)
    /\ cl \in {"posting", "sent"} => se = "terminal" /\ al
    /\ cl = "failed" /\ se = "terminal" => al
    /\ cl = "sent" => pu > 0
    /\ cl = "done" /\ pu = 0 => al
    /\ pu <= 2
    /\ pu = 2 => se = "terminal" /\ al

PathInv ==
    /\ PathTyped /\ Travelling /\ AnswersInOrder
    /\ \A c \in Commands :
         Counted(c, client[c], sender[c], published[c], c \in orphans, c \in alerted)

LEMMA PathInit == Init => PathInv
BY DEF Init, PathInv, PathTyped, Travelling, AnswersInOrder, Counted

LEMMA Places ==
    ASSUME PathTyped
    PROVE  /\ Len(up) \in Nat /\ Len(down) \in Nat
           /\ \A i \in 1..Len(up) : up[i] \in Commands
           /\ \A i \in 1..Len(down) : down[i] \in Notices
           /\ \A i \in 1..Len(down) : down[i].of \in Commands
<1>1. \A i \in 1..Len(down) : down[i] \in Notices
  BY DEF PathTyped
<1>2. \A n \in Notices : n.of \in Commands
  BY DEF Notices
<1>3. QED
  BY <1>1, <1>2 DEF PathTyped

LEMMA InvokeStep ==
    ASSUME PathInv, NEW c \in Commands, client[c] = "none", NEW by \in {"panel", "terminal"},
           Invoke(c, by), UNCHANGED <<down, orphans, published, alerted>>
    PROVE  PathInv'
<1>1. PathTyped'
  BY DEF PathInv, PathTyped, Invoke
<1>2. \A i \in 1..Len(up) : up[i] # c
  BY DEF PathInv, Travelling
<1>3. \A i \in 1..Len(down) : down[i].of # c
  BY DEF PathInv, Travelling
<1>4. Travelling'
  <2>1. /\ client'[c] = "invoked" /\ \A b \in Commands \ {c} : client'[b] = client[b]
        /\ published[c] = 0 /\ c \notin orphans
        /\ UNCHANGED <<down, orphans, published>>
    BY DEF PathInv, PathTyped, Counted, Invoke
  <2>2. /\ \A i \in 1..Len(up) : up[i] \in Commands \ {c}
        /\ \A i \in 1..Len(down) : down[i].of \in Commands \ {c}
    BY <1>2, <1>3, Places DEF PathInv
  <2>3. CASE up' = up
    <3>1. \A i \in 1..Len(up) :
            client'[up[i]] = "invoked" /\ published'[up[i]] = 0 /\ up[i] \notin orphans'
      BY <2>1, <2>2 DEF PathInv, Travelling
    <3>2. \A i \in 1..Len(down) :
            client'[down[i].of] = "invoked" /\ down[i].of \notin orphans'
      BY <2>1, <2>2 DEF PathInv, Travelling
    <3>3. QED
      BY <2>1, <2>3, <3>1, <3>2 DEF PathInv, Travelling
  <2>4. CASE up' = Append(up, c)
    <3>1. /\ Len(up) \in Nat /\ Len(up') = Len(up) + 1 /\ up'[Len(up) + 1] = c
          /\ \A i \in 1..Len(up) : up'[i] = up[i]
      BY <2>4 DEF PathInv, PathTyped
    <3>2. \A i \in 1..Len(up') : i \in 1..Len(up) \/ (i = Len(up) + 1 /\ up'[i] = c)
      BY <3>1
    <3>3. \A i \in 1..Len(up') :
            client'[up'[i]] = "invoked" /\ published'[up'[i]] = 0 /\ up'[i] \notin orphans'
      BY <2>1, <2>2, <3>1, <3>2 DEF PathInv, Travelling
    <3>4. \A i, j \in 1..Len(up') : up'[j] = up'[i] => j = i
      BY <2>2, <3>1, <3>2 DEF PathInv, Travelling
    <3>5. \A i \in 1..Len(up'), j \in 1..Len(down') : down'[j].of # up'[i]
      BY <2>1, <2>2, <3>1, <3>2 DEF PathInv, Travelling
    <3>6. \A i \in 1..Len(down') :
            client'[down'[i].of] = "invoked" /\ down'[i].of \notin orphans'
      BY <2>1, <2>2 DEF PathInv, Travelling
    <3>7. QED
      BY <3>3, <3>4, <3>5, <3>6 DEF Travelling
  <2>5. QED
    BY <2>3, <2>4 DEF Invoke
<1>5. AnswersInOrder'
  BY DEF PathInv, AnswersInOrder
<1>6. \A b \in Commands :
        Counted(b, client[b], sender[b], published[b], b \in orphans, b \in alerted)'
  BY DEF PathInv, PathTyped, Counted, Invoke
<1>7. QED
  BY <1>1, <1>4, <1>5, <1>6 DEF PathInv

\* Steps of the sender c that leave the connection alone.
LEMMA SenderStep ==
    ASSUME PathInv, NEW c \in Commands, NEW to \in {"posting", "done", "sent", "failed"},
           \A i \in 1..Len(up) : up[i] # c, \A i \in 1..Len(down) : down[i].of # c,
           client' = [client EXCEPT ![c] = to],
           published' \in [Commands -> Nat], \A b \in Commands : b # c => published'[b] = published[b],
           alerted \subseteq alerted', alerted' \subseteq alerted \cup {c},
           UNCHANGED <<sender, up, down, orphans>>,
           Counted(c, to, sender[c], published'[c], c \in orphans, c \in alerted')
    PROVE  PathInv'
<1>1. PathTyped'
  BY DEF PathInv, PathTyped
<1>2. Travelling'
  <2>1. /\ \A b \in Commands \ {c} : client'[b] = client[b] /\ published'[b] = published[b]
        /\ UNCHANGED <<up, down, orphans>>
    BY DEF PathInv, PathTyped
  <2>2. /\ \A i \in 1..Len(up) : up[i] \in Commands \ {c}
        /\ \A i \in 1..Len(down) : down[i].of \in Commands \ {c}
    BY Places DEF PathInv
  <2>3. QED
    BY <2>1, <2>2 DEF PathInv, Travelling
<1>3. \A i \in 1..Len(down) : down[i].of \in Commands \ {c}
  BY Places DEF PathInv
<1>4. AnswersInOrder'
  BY <1>3 DEF PathInv, AnswersInOrder
<1>5. \A b \in Commands :
        Counted(b, client[b], sender[b], published[b], b \in orphans, b \in alerted)'
  BY DEF PathInv, PathTyped, Counted
<1>6. QED
  BY <1>1, <1>2, <1>4, <1>5 DEF PathInv

LEMMA RestStep ==
    ASSUME PathInv, NEW c \in Commands, RestAnswered(c)
    PROVE  PathInv'
<1>1. /\ client[c] = "posting" /\ UNCHANGED <<sender, up, down, orphans>>
      /\ published[c] \in Nat
      /\ Counted(c, client[c], sender[c], published[c], c \in orphans, c \in alerted)
  BY DEF RestAnswered, PathInv, PathTyped, link
<1>2. /\ \A i \in 1..Len(up) : up[i] # c
      /\ \A i \in 1..Len(down) : down[i].of # c
  BY <1>1 DEF PathInv, Travelling
<1>3. CASE /\ published' = [published EXCEPT ![c] = @ + 1]
           /\ client' = [client EXCEPT ![c] = "sent"] /\ alerted' = alerted
  <2>1. /\ published' \in [Commands -> Nat] /\ published'[c] = published[c] + 1
        /\ \A b \in Commands : b # c => published'[b] = published[b]
    BY <1>3 DEF PathInv, PathTyped
  <2>2. Counted(c, "sent", sender[c], published'[c], c \in orphans, c \in alerted')
    BY <1>1, <1>3, <2>1 DEF Counted
  <2>3. QED
    BY <1>1, <1>2, <1>3, <2>1, <2>2, SenderStep
<1>4. CASE /\ published' = [published EXCEPT ![c] = @ + 1] \/ published' = published
           /\ client' = [client EXCEPT ![c] = "failed"] /\ alerted' = alerted \cup {c}
  <2>1. /\ published' \in [Commands -> Nat] /\ published'[c] \in {published[c], published[c] + 1}
        /\ \A b \in Commands : b # c => published'[b] = published[b]
    <3>1. published \in [Commands -> Nat]
      BY DEF PathInv, PathTyped
    <3>2. CASE published' = [published EXCEPT ![c] = @ + 1]
      BY <3>1, <3>2
    <3>3. CASE published' = published
      BY <3>1, <3>3
    <3>4. QED
      BY <1>4, <3>2, <3>3
  <2>2. Counted(c, "failed", sender[c], published'[c], c \in orphans, c \in alerted')
    BY <1>1, <1>4, <2>1 DEF Counted
  <2>3. QED
    BY <1>1, <1>2, <1>4, <2>1, <2>2, SenderStep
<1>5. QED
  BY <1>3, <1>4 DEF RestAnswered

LEMMA RejectStep ==
    ASSUME PathInv, NEW c \in Commands, InvokeRejected(c)
    PROVE  PathInv'
<1>1. /\ client[c] = "invoked" /\ UNCHANGED <<sender, up, down, orphans, published>>
      /\ client' = [client EXCEPT ![c] = IF sender[c] = "terminal" THEN "posting" ELSE "failed"]
      /\ alerted' = IF sender[c] = "terminal" THEN alerted \cup {c} ELSE alerted
      /\ Counted(c, client[c], sender[c], published[c], c \in orphans, c \in alerted)
  BY DEF InvokeRejected, PathInv, PathTyped, link
<1>2. /\ \A i \in 1..Len(up) : up[i] # c
      /\ \A i \in 1..Len(down) : down[i].of # c
  BY DEF InvokeRejected, PathInv, PathTyped
<1>3. published \in [Commands -> Nat] /\ published[c] \in Nat
  BY DEF PathInv, PathTyped
<1>4. CASE sender[c] = "terminal"
  <2>1. Counted(c, "posting", sender[c], published'[c], c \in orphans, c \in alerted')
    BY <1>1, <1>3, <1>4 DEF Counted
  <2>2. QED
    BY <1>1, <1>2, <1>3, <1>4, <2>1, SenderStep
<1>5. CASE sender[c] # "terminal"
  <2>1. Counted(c, "failed", sender[c], published'[c], c \in orphans, c \in alerted')
    BY <1>1, <1>3, <1>5 DEF Counted
  <2>2. QED
    BY <1>1, <1>2, <1>3, <1>5, <2>1, SenderStep
<1>6. QED
  BY <1>4, <1>5

LEMMA OrphanStep ==
    ASSUME PathInv, NEW c \in Commands, HubExecuteOrphan(c)
    PROVE  PathInv'
<1>1. /\ c \in orphans /\ orphans' = orphans \ {c}
      /\ UNCHANGED <<sender, client, up, down, alerted>>
      /\ published' = [published EXCEPT ![c] = @ + 1] \/ published' = published
  BY DEF HubExecuteOrphan
<1>2. PathTyped'
  BY <1>1 DEF PathInv, PathTyped
<1>3. /\ \A b \in Commands : b # c => published'[b] = published[b]
      /\ published'[c] \in {published[c], published[c] + 1} /\ published[c] \in Nat
  BY <1>1 DEF PathInv, PathTyped
<1>4. Travelling'
  <2>1. /\ \A i \in 1..Len(up) : up[i] \in Commands \ {c}
        /\ \A i \in 1..Len(down) : down[i].of \in Commands \ {c}
    BY <1>1, Places DEF PathInv, Travelling
  <2>2. QED
    BY <1>1, <1>3, <2>1 DEF PathInv, Travelling
<1>5. AnswersInOrder'
  <2>1. \A i \in 1..Len(down) : down[i].of \in Commands /\ down[i].of # c
    BY <1>1, Places DEF PathInv, Travelling
  <2>2. QED
    BY <1>1, <1>3, <2>1 DEF PathInv, AnswersInOrder
<1>6. \A b \in Commands :
        Counted(b, client[b], sender[b], published[b], b \in orphans, b \in alerted)'
  BY <1>1, <1>3 DEF PathInv, Counted
<1>7. QED
  BY <1>2, <1>4, <1>5, <1>6 DEF PathInv

LEMMA DropStep ==
    ASSUME PathInv, Drop
    PROVE  PathInv'
<1>1. /\ up' = <<>> /\ down' = <<>> /\ UNCHANGED <<sender, client, published, alerted>>
      /\ orphans' = orphans \/ (up # <<>> /\ orphans' = orphans \cup {up[1]})
  BY DEF Drop
<1>2. up # <<>> => up[1] \in Commands /\ client[up[1]] = "invoked" /\ published[up[1]] = 0
  BY DEF PathInv, PathTyped, Travelling
<1>3. PathTyped' /\ Travelling' /\ AnswersInOrder'
  BY <1>1, <1>2 DEF PathInv, PathTyped, Travelling, AnswersInOrder
<1>4. \A b \in Commands :
        Counted(b, client[b], sender[b], published[b], b \in orphans, b \in alerted)'
  BY <1>1, <1>2 DEF PathInv, Counted
<1>5. QED
  BY <1>3, <1>4 DEF PathInv

LEMMA TailOf ==
    ASSUME NEW S, NEW s \in Seq(S), s # <<>>
    PROVE  /\ Tail(s) \in Seq(S) /\ Len(s) \in Nat \ {0}
           /\ Head(s) = s[1] /\ s[1] \in S
           /\ Len(Tail(s)) = Len(s) - 1
           /\ \A i \in 1..Len(Tail(s)) : i + 1 \in 2..Len(s) /\ Tail(s)[i] = s[i + 1]
           /\ \A i \in 2..Len(s) : i - 1 \in 1..Len(Tail(s)) /\ Tail(s)[i - 1] = s[i]
<1>1. Len(s) \in Nat \ {0} /\ Len(Tail(s)) = Len(s) - 1
  OBVIOUS
<1>2. QED
  BY <1>1

LEMMA TwoMore ==
    ASSUME NEW S, NEW s \in Seq(S), NEW a \in S, NEW b \in S
    PROVE  /\ s \o <<a, b>> \in Seq(S) /\ Len(s) \in Nat
           /\ Len(s \o <<a, b>>) = Len(s) + 2
           /\ \A i \in 1..Len(s) : (s \o <<a, b>>)[i] = s[i]
           /\ (s \o <<a, b>>)[Len(s) + 1] = a
           /\ (s \o <<a, b>>)[Len(s) + 2] = b
OBVIOUS

LEMMA HubStep ==
    ASSUME PathInv, HubExecute
    PROVE  PathInv'
<1> DEFINE c == up[1]
           n == Len(down)
<1>1. /\ c \in Commands /\ client[c] = "invoked" /\ published[c] = 0 /\ c \notin orphans
      /\ \A i \in 1..n : down[i].of # c
      /\ \A i \in 2..Len(up) : up[i] # c
      /\ up # <<>> /\ up' = Tail(up) /\ Tail(up) \in Seq(Commands) /\ n \in Nat
      /\ \A i \in 1..Len(up') : i + 1 \in 2..Len(up) /\ up'[i] = up[i + 1]
      /\ UNCHANGED <<sender, client, orphans, alerted>>
  BY TailOf DEF HubExecute, PathInv, PathTyped, Travelling
<1>2. PICK ok \in BOOLEAN :
        /\ published' = [published EXCEPT ![c] = @ + 1] \/ (~ok /\ published' = published)
        /\ down' = down \o Answers(c, ok)
  BY <1>1, TailOf DEF HubExecute, PathInv, PathTyped
<1> DEFINE first == Message(IF ok THEN "ack" ELSE "alert", c)
           last == Message("result", c)
<1>3. /\ first \in Notices /\ last \in Notices /\ first.of = c /\ last.of = c
      /\ first.kind = (IF ok THEN "ack" ELSE "alert") /\ last.kind = "result"
  BY <1>1 DEF Message, Notices
<1>4. down' = down \o <<first, last>>
  BY <1>2 DEF Answers
<1> HIDE DEF c, first, last
<1>5. /\ down' \in Seq(Notices) /\ Len(down') = n + 2
      /\ \A i \in 1..n : down'[i] = down[i]
      /\ down'[n + 1] = first /\ down'[n + 2] = last
  BY <1>3, <1>4, TwoMore DEF PathInv, PathTyped
<1>6. /\ published' \in [Commands -> Nat] /\ published'[c] \in 0..1 /\ (ok => published'[c] = 1)
      /\ \A b \in Commands : b # c => published'[b] = published[b]
  <2>1. published \in [Commands -> Nat] /\ published[c] = 0 /\ c \in Commands
    BY <1>1 DEF PathInv, PathTyped
  <2>2. CASE published' = [published EXCEPT ![c] = @ + 1]
    BY <2>1, <2>2
  <2>3. CASE ~ok /\ published' = published
    BY <2>1, <2>3
  <2>4. QED
    BY <1>2, <2>2, <2>3
<1> HIDE DEF n
<1>7. \A i \in 1..Len(down') : i \in 1..n \/ i = n + 1 \/ i = n + 2
  BY <1>1, <1>5
<1>8. PathTyped'
  BY <1>1, <1>5, <1>6 DEF PathInv, PathTyped
<1>9. Travelling'
  <2>1. \A i \in 1..Len(up') :
          /\ client'[up'[i]] = "invoked" /\ published'[up'[i]] = 0 /\ up'[i] \notin orphans'
          /\ \A j \in 1..Len(up') : up'[j] = up'[i] => j = i
    <3> SUFFICES ASSUME NEW i \in 1..Len(up')
                 PROVE  /\ client'[up'[i]] = "invoked" /\ published'[up'[i]] = 0
                        /\ up'[i] \notin orphans'
                        /\ \A j \in 1..Len(up') : up'[j] = up'[i] => j = i
      OBVIOUS
    <3>1. Len(up) \in Nat /\ Len(up') \in Nat
      BY <1>1 DEF PathInv, PathTyped
    <3>2. i + 1 \in 1..Len(up) /\ up'[i] = up[i + 1] /\ up[i + 1] # c /\ up[i + 1] \in Commands
      BY <1>1, <3>1, Places DEF PathInv
    <3>3. client'[up'[i]] = "invoked" /\ published'[up'[i]] = 0 /\ up'[i] \notin orphans'
      BY <1>1, <1>6, <3>2 DEF PathInv, Travelling
    <3>4. ASSUME NEW j \in 1..Len(up'), up'[j] = up'[i] PROVE j = i
      <4>1. j + 1 \in 1..Len(up) /\ up'[j] = up[j + 1]
        BY <1>1, <3>1
      <4>2. j + 1 = i + 1
        BY <3>2, <3>4, <4>1 DEF PathInv, Travelling
      <4>3. QED
        BY <3>1, <4>2
    <3>5. QED
      BY <3>3, <3>4
  <2>2. \A i \in 1..Len(up'), j \in 1..Len(down') : down'[j].of # up'[i]
    <3>1. \A i \in 1..Len(up') : i + 1 \in 1..Len(up) /\ up'[i] = up[i + 1] /\ up[i + 1] # c
      BY <1>1 DEF PathInv, PathTyped
    <3>2. SUFFICES ASSUME NEW i \in 1..Len(up'), NEW j \in 1..Len(down')
                   PROVE  down'[j].of # up'[i]
      OBVIOUS
    <3>3. CASE j \in 1..n
      <4>1. down'[j] = down[j]
        BY <1>5, <3>3
      <4>2. down[j].of # up[i + 1]
        BY <3>1, <3>3 DEF PathInv, Travelling, n
      <4>3. QED
        BY <3>1, <4>1, <4>2
    <3>4. CASE j = n + 1 \/ j = n + 2
      BY <1>3, <1>5, <3>1, <3>4
    <3>5. QED
      BY <1>7, <3>3, <3>4
  <2>3. \A i \in 1..Len(down') : client'[down'[i].of] = "invoked" /\ down'[i].of \notin orphans'
    <3> SUFFICES ASSUME NEW i \in 1..Len(down')
                 PROVE  client'[down'[i].of] = "invoked" /\ down'[i].of \notin orphans'
      OBVIOUS
    <3>1. CASE i \in 1..n
      <4>1. client[down[i].of] = "invoked" /\ down[i].of \notin orphans
        BY <3>1 DEF PathInv, Travelling, n
      <4>2. down'[i] = down[i] /\ UNCHANGED <<client, orphans>>
        BY <1>1, <1>5, <3>1
      <4>3. QED
        BY <4>1, <4>2
    <3>2. CASE i = n + 1 \/ i = n + 2
      <4>1. down'[i].of = c
        BY <1>3, <1>5, <3>2
      <4>2. QED
        BY <1>1, <4>1
    <3>3. QED
      BY <1>7, <3>1, <3>2
  <2>4. QED
    BY <2>1, <2>2, <2>3 DEF Travelling
<1>10. AnswersInOrder'
  <2> SUFFICES ASSUME NEW i \in 1..Len(down'), down'[i].kind = "result"
               PROVE  /\ \A j \in 1..Len(down') : down'[j].of = down'[i].of => j <= i
                      /\ \/ published'[down'[i].of] > 0
                         \/ down'[i].of \in alerted'
                         \/ \E j \in 1..Len(down') :
                              down'[j].kind = "alert" /\ down'[j].of = down'[i].of
    BY DEF AnswersInOrder
  <2>1. CASE i \in 1..n
    <3>1. down'[i] = down[i] /\ down[i].of # c /\ down[i].of \in Commands
      BY <1>1, <1>5, <2>1, Places DEF PathInv, n
    <3>2. \A j \in 1..Len(down') : down'[j].of = down'[i].of => j <= i
      BY <1>3, <1>5, <1>7, <2>1, <3>1 DEF PathInv, AnswersInOrder, n
    <3>3. \/ published[down[i].of] > 0
          \/ down[i].of \in alerted
          \/ \E j \in 1..n : down[j].kind = "alert" /\ down[j].of = down[i].of
      BY <2>1, <3>1 DEF PathInv, AnswersInOrder, n
    <3>4. \A j \in 1..n : j \in 1..Len(down') /\ down'[j] = down[j]
      BY <1>1, <1>5
    <3>5. QED
      BY <1>1, <1>6, <3>1, <3>2, <3>3, <3>4
  <2>2. CASE i = n + 2
    <3>1. \A j \in 1..Len(down') : j <= i
      BY <1>1, <1>5, <2>2
    <3>2. n + 1 \in 1..Len(down')
      BY <1>1, <1>5
    <3>3. QED
      BY <1>3, <1>5, <1>6, <2>2, <3>1, <3>2
  <2>3. i # n + 1
    BY <1>3, <1>5
  <2>4. QED
    BY <1>7, <2>1, <2>2, <2>3
<1>11. \A b \in Commands :
         Counted(b, client[b], sender[b], published[b], b \in orphans, b \in alerted)'
  BY <1>1, <1>6 DEF PathInv, Counted
<1>12. QED
  BY <1>8, <1>9, <1>10, <1>11 DEF PathInv

LEMMA NoticeStep ==
    ASSUME PathInv, ReceiveNotice
    PROVE  PathInv'
<1>1. /\ down # <<>> /\ down' = Tail(down) /\ down[1].kind # "result" /\ down[1] \in Notices
      /\ UNCHANGED <<sender, client, up, orphans, published>>
      /\ alerted' = IF down[1].kind = "ack" THEN alerted ELSE alerted \cup {down[1].of}
  BY TailOf DEF ReceiveNotice, HandleCommandAck, PathInv, PathTyped
<1>2. /\ down' \in Seq(Notices) /\ Len(down) \in Nat /\ Len(down') \in Nat
      /\ \A i \in 1..Len(down') : i + 1 \in 1..Len(down) /\ down'[i] = down[i + 1]
      /\ \A i \in 2..Len(down) : i - 1 \in 1..Len(down') /\ down'[i - 1] = down[i]
  BY <1>1, TailOf DEF PathInv, PathTyped
<1>3. /\ down[1].kind = "alert" => down[1].of \in alerted'
      /\ alerted \subseteq alerted' /\ alerted' \subseteq Commands
  BY <1>1 DEF Notices, PathInv, PathTyped
<1>4. PathTyped'
  BY <1>1, <1>2, <1>3 DEF PathInv, PathTyped
<1>5. Travelling'
  BY <1>1, <1>2 DEF PathInv, Travelling
<1>6. AnswersInOrder'
  <2> SUFFICES ASSUME NEW i \in 1..Len(down'), down'[i].kind = "result"
               PROVE  /\ \A j \in 1..Len(down') : down'[j].of = down'[i].of => j <= i
                      /\ \/ published'[down'[i].of] > 0
                         \/ down'[i].of \in alerted'
                         \/ \E j \in 1..Len(down') :
                              down'[j].kind = "alert" /\ down'[j].of = down'[i].of
    BY DEF AnswersInOrder
  <2>1. i + 1 \in 1..Len(down) /\ down'[i] = down[i + 1]
    BY <1>2
  <2>2. \A j \in 1..Len(down') : down'[j].of = down'[i].of => j <= i
    <3> SUFFICES ASSUME NEW j \in 1..Len(down'), down'[j].of = down'[i].of PROVE j <= i
      OBVIOUS
    <3>1. j + 1 \in 1..Len(down) /\ down'[j] = down[j + 1]
      BY <1>2
    <3>2. j + 1 <= i + 1
      BY <2>1, <3>1 DEF PathInv, AnswersInOrder
    <3>3. QED
      BY <1>2, <3>2
  <2>3. \/ published[down'[i].of] > 0
        \/ down'[i].of \in alerted
        \/ \E j \in 1..Len(down) : down[j].kind = "alert" /\ down[j].of = down'[i].of
    BY <2>1 DEF PathInv, AnswersInOrder
  <2>4. CASE \E j \in 1..Len(down) : down[j].kind = "alert" /\ down[j].of = down'[i].of
    <3>1. PICK j \in 1..Len(down) : down[j].kind = "alert" /\ down[j].of = down'[i].of
      BY <2>4
    <3>2. CASE j = 1
      BY <1>3, <2>2, <3>1, <3>2
    <3>3. CASE j \in 2..Len(down)
      <4>1. j - 1 \in 1..Len(down') /\ down'[j - 1] = down[j]
        BY <1>2, <3>3
      <4>2. QED
        BY <2>2, <3>1, <4>1
    <3>4. j = 1 \/ j \in 2..Len(down)
      BY <1>2
    <3>5. QED
      BY <3>2, <3>3, <3>4
  <2>5. QED
    BY <1>1, <1>3, <2>2, <2>3, <2>4
<1>7. \A b \in Commands :
        Counted(b, client[b], sender[b], published[b], b \in orphans, b \in alerted)'
  BY <1>1, <1>3 DEF PathInv, Counted
<1>8. QED
  BY <1>4, <1>5, <1>6, <1>7 DEF PathInv

LEMMA ResultStep ==
    ASSUME PathInv, ReceiveResult
    PROVE  PathInv'
<1> DEFINE c == down[1].of
<1>1. /\ down # <<>> /\ down' = Tail(down) /\ down[1].kind = "result" /\ down[1] \in Notices
      /\ client' = [client EXCEPT ![c] = "done"]
      /\ UNCHANGED <<sender, up, orphans, published, alerted>>
  BY TailOf DEF ReceiveResult, AfterCall, PathInv, PathTyped
<1>2. /\ down' \in Seq(Notices) /\ Len(down) \in Nat \ {0} /\ Len(down') \in Nat
      /\ \A i \in 1..Len(down') : i + 1 \in 2..Len(down) /\ down'[i] = down[i + 1]
      /\ \A i \in 2..Len(down) : i - 1 \in 1..Len(down') /\ down'[i - 1] = down[i]
  BY <1>1, TailOf DEF PathInv, PathTyped
<1>3. c \in Commands /\ client[c] = "invoked"
  BY <1>1, <1>2 DEF PathInv, Travelling, Notices
<1>4. \A i \in 2..Len(down) : down[i].of # c
  BY <1>1, <1>2 DEF PathInv, AnswersInOrder
<1>5. published[c] > 0 \/ c \in alerted
  <2>1. \/ published[c] > 0 \/ c \in alerted
        \/ \E j \in 1..Len(down) : down[j].kind = "alert" /\ down[j].of = c
    BY <1>1, <1>2 DEF PathInv, AnswersInOrder
  <2>2. \A j \in 1..Len(down) : j = 1 \/ j \in 2..Len(down)
    BY <1>2
  <2>3. QED
    BY <1>1, <1>4, <2>1, <2>2
<1>6. \A i \in 1..Len(up) : up[i] # c /\ up[i] \in Commands
  BY <1>2, Places DEF PathInv, Travelling
<1>7. \A i \in 1..Len(down) : down[i].of \in Commands
  BY Places DEF PathInv
<1> HIDE DEF c
<1>8. \A i \in 1..Len(down') : i + 1 \in 1..Len(down) /\ down'[i] = down[i + 1] /\ down'[i].of # c
  BY <1>2, <1>4
<1>9. PathTyped'
  BY <1>1, <1>2, <1>3 DEF PathInv, PathTyped
<1>10. \A b \in Commands : b # c => client'[b] = client[b]
  BY <1>1 DEF PathInv, PathTyped
<1>11. Travelling'
  BY <1>1, <1>6, <1>7, <1>8, <1>10 DEF PathInv, Travelling
<1>12. AnswersInOrder'
  <2> SUFFICES ASSUME NEW i \in 1..Len(down'), down'[i].kind = "result"
               PROVE  /\ \A j \in 1..Len(down') : down'[j].of = down'[i].of => j <= i
                      /\ \/ published'[down'[i].of] > 0
                         \/ down'[i].of \in alerted'
                         \/ \E j \in 1..Len(down') :
                              down'[j].kind = "alert" /\ down'[j].of = down'[i].of
    BY DEF AnswersInOrder
  <2>1. i + 1 \in 1..Len(down) /\ down'[i] = down[i + 1] /\ down'[i].of # c
    BY <1>8
  <2>2. \A j \in 1..Len(down') : down'[j].of = down'[i].of => j <= i
    <3> SUFFICES ASSUME NEW j \in 1..Len(down'), down'[j].of = down'[i].of PROVE j <= i
      OBVIOUS
    <3>1. j + 1 \in 1..Len(down) /\ down'[j] = down[j + 1]
      BY <1>8
    <3>2. j + 1 <= i + 1
      BY <2>1, <3>1 DEF PathInv, AnswersInOrder
    <3>3. QED
      BY <1>2, <3>2
  <2>3. \/ published[down'[i].of] > 0
        \/ down'[i].of \in alerted
        \/ \E j \in 1..Len(down) : down[j].kind = "alert" /\ down[j].of = down'[i].of
    BY <2>1 DEF PathInv, AnswersInOrder
  <2>4. CASE \E j \in 1..Len(down) : down[j].kind = "alert" /\ down[j].of = down'[i].of
    <3>1. PICK j \in 1..Len(down) : down[j].kind = "alert" /\ down[j].of = down'[i].of
      BY <2>4
    <3>2. j \in 2..Len(down)
      BY <1>1, <1>2, <3>1
    <3>3. j - 1 \in 1..Len(down') /\ down'[j - 1] = down[j]
      BY <1>2, <3>2
    <3>4. QED
      BY <2>2, <3>1, <3>3
  <2>5. QED
    BY <1>1, <2>2, <2>3, <2>4
<1>13. \A b \in Commands :
         Counted(b, client[b], sender[b], published[b], b \in orphans, b \in alerted)'
  BY <1>1, <1>3, <1>5, <1>10 DEF PathInv, PathTyped, Counted
<1>14. QED
  BY <1>9, <1>11, <1>12, <1>13 DEF PathInv

LEMMA PathStep == PathInv /\ [Next]_vars => PathInv'
<1> SUFFICES ASSUME PathInv, [Next]_vars PROVE PathInv'
  OBVIOUS
<1>1. CASE \E c \in Commands, b \in Buttons : SendCommand(c, b)
  BY <1>1, InvokeStep DEF SendCommand, NextCommand
<1>2. CASE \E c \in Commands : SubmitTerminal(c)
  BY <1>2, InvokeStep DEF SubmitTerminal, NextCommand
<1>3. CASE UNCHANGED <<sender, client, up, down, orphans, published, alerted>>
  BY <1>3 DEF PathInv, PathTyped, Travelling, AnswersInOrder, Counted
<1>4. MountPanel \/ UnmountPanel \/ TimerFires \/ Tick \/ Reconnect \/ UNCHANGED vars
      => UNCHANGED <<sender, client, up, down, orphans, published, alerted>>
  BY DEF MountPanel, UnmountPanel, TimerFires, Tick, Reconnect, vars, link, panel
<1>5. QED
  BY <1>1, <1>2, <1>3, <1>4, RestStep, RejectStep, OrphanStep, DropStep, HubStep, NoticeStep,
     ResultStep
  DEF Next

LEMMA PathAlways == Spec => []PathInv
BY PathInit, PathStep, PTL DEF Spec

\* No command reaches the stream three times, and twice only one of the terminal
\* whose call was rejected, of which the operator was told.
THEOREM AtMostTheFallback == Spec => []DuplicateOnlyByFallback
<1>1. PathInv => DuplicateOnlyByFallback
  BY DEF PathInv, Counted, DuplicateOnlyByFallback
<1>2. QED
  BY <1>1, PathAlways, PTL

\* "Sent by REST" is true, and a command that was not published does not end
\* without an alert.
THEOREM ReportsAreTrue == Spec => []TrueReports
<1>1. PathInv => TrueReports
  BY DEF PathInv, PathTyped, Counted, TrueReports
<1>2. QED
  BY <1>1, PathAlways, PTL

-----------------------------------------------------------------------------
(* The types                                                               *)

Timers == [kind : {"fail", "unfail", "reset"}, left : Nat]

RestTyped ==
    /\ mounted \in BOOLEAN /\ connected \in BOOLEAN
    /\ commandStatus \in {"IDLE", "PENDING", "SUCCESS", "FAILED"}
    /\ activeCommand \in Buttons \cup {None}
    /\ timers \subseteq Timers
    /\ mine \subseteq Commands
    /\ drops \in Nat

LEMMA TimerTyped ==
    ASSUME NEW kind \in {"fail", "unfail", "reset"}, NEW left \in Nat
    PROVE  Timer(kind, left) \in Timers
BY DEF Timer, Timers

LEMMA RestTypedStep == RestTyped /\ [Next]_vars => RestTyped'
<1> SUFFICES ASSUME RestTyped, [Next]_vars PROVE RestTyped'
  OBVIOUS
<1>1. FailAfter \in Nat /\ CloseAfter \in Nat
  OBVIOUS
<1>2. /\ Timer("fail", FailAfter) \in Timers /\ Timer("unfail", CloseAfter) \in Timers
      /\ Timer("reset", CloseAfter) \in Timers
  BY <1>1, TimerTyped
<1>3. CASE MountPanel \/ UnmountPanel
  BY <1>3 DEF MountPanel, UnmountPanel, RestTyped, link
<1>4. CASE \E c \in Commands, b \in Buttons : SendCommand(c, b)
  BY <1>4 DEF SendCommand, RestTyped
<1>5. CASE TimerFires
  BY <1>2, <1>5 DEF TimerFires, FailTimer, UnfailTimer, ResetTimer, RestTyped, link
<1>6. CASE Tick
  <2>1. \A t \in timers : t.kind \in {"fail", "unfail", "reset"} /\ t.left - 1 \in Nat
    BY <1>6 DEF Tick, RestTyped, Timers
  <2>2. {Timer(t.kind, t.left - 1) : t \in timers} \subseteq Timers
    BY <2>1, TimerTyped
  <2>3. QED
    BY <1>6, <2>2 DEF Tick, RestTyped, link
<1>7. CASE \E c \in Commands : SubmitTerminal(c) \/ RestAnswered(c)
  BY <1>7 DEF SubmitTerminal, RestAnswered, RestTyped, panel, link
<1>8. CASE HubExecute \/ Drop \/ Reconnect \/ \E c \in Commands : HubExecuteOrphan(c)
  <2>1. connected' \in {TRUE, FALSE, connected} /\ drops' \in {drops, drops + 1}
    BY <1>8 DEF HubExecute, Drop, Reconnect, HubExecuteOrphan
  <2>2. UNCHANGED panel
    BY <1>8 DEF HubExecute, Drop, Reconnect, HubExecuteOrphan
  <2>3. connected' \in BOOLEAN
    BY <2>1 DEF RestTyped
  <2>4. drops' \in Nat
    BY <2>1 DEF RestTyped
  <2>5. QED
    BY <2>2, <2>3, <2>4 DEF RestTyped, panel
<1>9. CASE ReceiveNotice
  BY <1>2, <1>9 DEF ReceiveNotice, HandleCommandAck, RestTyped
<1>10. CASE ReceiveResult
  BY <1>2, <1>10 DEF ReceiveResult, ArmFailSafe, RestTyped
<1>11. CASE \E c \in Commands : InvokeRejected(c)
  BY <1>2, <1>11 DEF InvokeRejected, RestTyped, link
<1>12. CASE UNCHANGED vars
  BY <1>12 DEF vars, RestTyped
<1>13. QED
  BY <1>3, <1>4, <1>5, <1>6, <1>7, <1>8, <1>9, <1>10, <1>11, <1>12 DEF Next

\* Every variable keeps its range.
THEOREM TypeCorrect == Spec => []TypeOK
<1>1. Init => RestTyped
  <2>1. Init => mounted \in BOOLEAN /\ connected \in BOOLEAN
    BY DEF Init
  <2>2. QED
    BY <2>1 DEF Init, RestTyped
<1>2. RestTyped /\ PathInv => TypeOK
  BY DEF RestTyped, Timers, PathInv, PathTyped, Notices, TypeOK
<1>3. QED
  BY <1>1, <1>2, RestTypedStep, PathAlways, PTL DEF Spec
=============================================================================
