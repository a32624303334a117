---------------------------- MODULE CommandPath -----------------------------
(***************************************************************************)
(* A tactical command from the operator to the command stream: the buttons *)
(* of the panel beside the map (useTacticalCommand, TacticalCommands) and  *)
(* the terminal (sendTacticalWithFallback), both over one hub connection   *)
(* on which calls, answers and notices keep their order, and the terminal  *)
(* over REST when the call is rejected.                                    *)
(*                                                                         *)
(* The panel and the terminal are on different pages: the panel is mounted *)
(* anew with every selection of a drone and every return to the map, and   *)
(* what the timers and answers of an earlier mount set is lost.  Buttons   *)
(* are also locked while the drone is stale: the operator then just does   *)
(* not press.  Coordinates are left out.                                   *)
(***************************************************************************)
EXTENDS Integers, Sequences

CONSTANTS
    Buttons, None,
    FailAfter,      \* the fail-safe timeout, 5 s
    CloseAfter,     \* how long SUCCESS and FAILED stay, 3 s
    MaxCommands,    \* bound: commands sent
    MaxDrops        \* bound: losses of the connection

Commands == 1..MaxCommands

ASSUME CommandAssumption ==
    /\ None \notin Buttons
    /\ {FailAfter, CloseAfter} \subseteq Nat \ {0}
    /\ {MaxCommands, MaxDrops} \subseteq Nat

VARIABLES
    mounted,         \* whether the panel is on the screen
    commandStatus,
    activeCommand,
    timers,          \* the panel's timers: what each does, and when
    sender,          \* sender[c]: "panel" or "terminal", or "none" yet
    client,          \* client[c]: where the sender's call is
    mine,            \* the commands the mounted panel has sent
    up, down,        \* calls on their way to the hub; answers and notices back
    connected,
    orphans,         \* commands the hub took when the connection was lost
    published,       \* published[c]: how often c went to the command stream
    alerted,         \* commands the terminal has shown an alert for
    drops

panel == <<mounted, commandStatus, activeCommand, timers, mine>>
link == <<up, down, connected, orphans, drops>>
vars == <<mounted, commandStatus, activeCommand, timers, sender, client, mine,
          up, down, connected, orphans, published, alerted, drops>>

Init ==
    /\ mounted = FALSE
    /\ commandStatus = "IDLE" /\ activeCommand = None
    /\ timers = {}
    /\ sender = [c \in Commands |-> "none"]
    /\ client = [c \in Commands |-> "none"]
    /\ mine = {}
    /\ up = <<>> /\ down = <<>> /\ connected = TRUE
    /\ orphans = {}
    /\ published = [c \in Commands |-> 0]
    /\ alerted = {}
    /\ drops = 0

Timer(kind, left) == [kind |-> kind, left |-> left]
Armed(kind) == \E t \in timers : t.kind = kind

\* The commands are numbered in the order they are sent.
NextCommand(c) ==
    /\ client[c] = "none"
    /\ \A b \in Commands : b < c => client[b] # "none"

\* connection.invoke: without a connection the call is rejected, as it is by
\* the loss of the connection.
Invoke(c, by) ==
    /\ sender' = [sender EXCEPT ![c] = by]
    /\ client' = [client EXCEPT ![c] = "invoked"]
    /\ up' = IF connected THEN Append(up, c) ELSE up

-----------------------------------------------------------------------------
(* The panel                                                               *)

MountPanel ==
    /\ ~mounted
    /\ mounted' = TRUE
    /\ UNCHANGED <<commandStatus, activeCommand, timers, sender, client, mine, published, alerted>>
    /\ UNCHANGED link

UnmountPanel ==
    /\ mounted
    /\ mounted' = FALSE
    /\ commandStatus' = "IDLE" /\ activeCommand' = None
    /\ timers' = {} /\ mine' = {}
    /\ UNCHANGED <<sender, client, published, alerted>>
    /\ UNCHANGED link

IsSystemLocked == commandStatus = "PENDING"

\* A button is also disabled while it shows the fate of its own command.
ButtonEnabled(b) == ~IsSystemLocked /\ ~(activeCommand = b /\ commandStatus # "IDLE")

SendCommand(c, b) ==
    /\ mounted /\ NextCommand(c) /\ ButtonEnabled(b)
    /\ Invoke(c, "panel")
    /\ commandStatus' = "PENDING" /\ activeCommand' = b
    /\ mine' = mine \cup {c}
    /\ UNCHANGED <<mounted, timers, down, connected, orphans, published, alerted, drops>>

\* handleCommandAck does not look at whose command was dispatched.
HandleCommandAck ==
    IF mounted THEN /\ commandStatus' = "SUCCESS"
                    /\ timers' = timers \cup {Timer("reset", CloseAfter)}
               ELSE UNCHANGED <<commandStatus, timers>>

FailTimer(t) ==
    /\ t.kind = "fail"
    /\ commandStatus' = IF commandStatus = "PENDING" THEN "FAILED" ELSE commandStatus
    /\ timers' = (timers \ {t}) \cup {Timer("unfail", CloseAfter)}
    /\ UNCHANGED activeCommand

UnfailTimer(t) ==
    /\ t.kind = "unfail"
    /\ commandStatus' = IF commandStatus = "FAILED" THEN "IDLE" ELSE commandStatus
    /\ timers' = timers \ {t}
    /\ UNCHANGED activeCommand

ResetTimer(t) ==
    /\ t.kind = "reset"
    /\ commandStatus' = "IDLE" /\ activeCommand' = None
    /\ timers' = timers \ {t}

TimerFires ==
    /\ \E t \in timers : t.left = 0 /\ (FailTimer(t) \/ UnfailTimer(t) \/ ResetTimer(t))
    /\ UNCHANGED <<mounted, sender, client, mine, published, alerted>>
    /\ UNCHANGED link

Tick ==
    /\ timers # {}
    /\ \A t \in timers : t.left > 0
    /\ timers' = {Timer(t.kind, t.left - 1) : t \in timers}
    /\ UNCHANGED <<mounted, commandStatus, activeCommand, sender, client, mine, published, alerted>>
    /\ UNCHANGED link

-----------------------------------------------------------------------------
(* The terminal                                                            *)

SubmitTerminal(c) ==
    /\ ~mounted /\ NextCommand(c)
    /\ Invoke(c, "terminal")
    /\ UNCHANGED panel
    /\ UNCHANGED <<down, connected, orphans, published, alerted, drops>>

\* A defect for the mutation check: no return after the call, so REST follows.
AfterCallPosting(c) == IF sender[c] = "terminal" THEN "posting" ELSE "done"

\* Where the sender is once its call was answered.
AfterCall(c) == "done"

\* POST /tactical/command: published and reported; published, but the answer is
\* lost; or not published.
RestAnswered(c) ==
    /\ client[c] = "posting"
    /\ \/ /\ published' = [published EXCEPT ![c] = @ + 1]
          /\ client' = [client EXCEPT ![c] = "sent"]
          /\ UNCHANGED alerted
       \/ /\ \/ published' = [published EXCEPT ![c] = @ + 1]
             \/ UNCHANGED published
          /\ client' = [client EXCEPT ![c] = "failed"]
          /\ alerted' = alerted \cup {c}
    /\ UNCHANGED <<sender, panel, link>>

-----------------------------------------------------------------------------
(* The hub and the connection                                              *)

Message(kind, c) == [kind |-> kind, of |-> c]

\* A defect for the mutation check: the answer overtakes the notice.
AnswersLate(c, ok) == <<Message("result", c), Message(IF ok THEN "ack" ELSE "alert", c)>>

\* CommandDispatched or SystemAlert for the caller, then the end of the call.
Answers(c, ok) == <<Message(IF ok THEN "ack" ELSE "alert", c), Message("result", c)>>

\* TelemetryHub.SendTacticalCommand: published, or refused and answered normally.
\* A publication that timed out counts as refused and may have reached the stream.
HubExecute ==
    /\ up # <<>>
    /\ up' = Tail(up)
    /\ LET c == Head(up)
       IN  \E ok \in BOOLEAN :
             /\ \/ published' = [published EXCEPT ![c] = @ + 1]
                \/ ~ok /\ UNCHANGED published
             /\ down' = down \o Answers(c, ok)
    /\ UNCHANGED <<panel, sender, client, connected, orphans, alerted, drops>>

HubExecuteOrphan(c) ==
    /\ c \in orphans
    /\ orphans' = orphans \ {c}
    /\ \/ published' = [published EXCEPT ![c] = @ + 1]
       \/ UNCHANGED published
    /\ UNCHANGED <<panel, sender, client, up, down, connected, alerted, drops>>

ReceiveNotice ==
    /\ down # <<>> /\ Head(down).kind # "result"
    /\ down' = Tail(down)
    /\ IF Head(down).kind = "ack"
       THEN HandleCommandAck /\ UNCHANGED alerted
       ELSE alerted' = alerted \cup {Head(down).of} /\ UNCHANGED <<commandStatus, timers>>
    /\ UNCHANGED <<mounted, activeCommand, sender, client, mine, up, connected, orphans, published, drops>>

\* A defect for the mutation check: the fail-safe is armed only after an acknowledgement.
ArmFailSafeLate(c) ==
    IF c \in mine /\ commandStatus = "SUCCESS" THEN timers \cup {Timer("fail", FailAfter)} ELSE timers

\* The panel that sent c, if it is still mounted, arms the fail-safe timer.
ArmFailSafe(c) == IF c \in mine THEN timers \cup {Timer("fail", FailAfter)} ELSE timers

ReceiveResult ==
    /\ down # <<>> /\ Head(down).kind = "result"
    /\ down' = Tail(down)
    /\ LET c == Head(down).of
       IN  /\ client' = [client EXCEPT ![c] = AfterCall(c)]
           /\ timers' = ArmFailSafe(c)
    /\ UNCHANGED <<mounted, commandStatus, activeCommand, mine, sender, published, alerted>>
    /\ UNCHANGED <<up, connected, orphans, drops>>

\* The connection is lost with all that travels; the hub may have taken the
\* first call and goes on with it.
Drop ==
    /\ connected /\ drops < MaxDrops
    /\ drops' = drops + 1
    /\ connected' = FALSE
    /\ up' = <<>> /\ down' = <<>>
    /\ \/ UNCHANGED orphans
       \/ up # <<>> /\ orphans' = orphans \cup {Head(up)}
    /\ UNCHANGED <<panel, sender, client, published, alerted>>

Reconnect ==
    /\ ~connected
    /\ connected' = TRUE
    /\ UNCHANGED <<panel, sender, client, up, down, orphans, published, alerted, drops>>

\* The catch of the sender: FAILED on the panel, REST for the terminal.
InvokeRejected(c) ==
    /\ client[c] = "invoked"
    /\ \A i \in DOMAIN up : up[i] # c
    /\ \A i \in DOMAIN down : down[i].of # c
    /\ client' = [client EXCEPT ![c] = IF sender[c] = "terminal" THEN "posting" ELSE "failed"]
    /\ alerted' = IF sender[c] = "terminal" THEN alerted \cup {c} ELSE alerted
    /\ IF c \in mine
       THEN commandStatus' = "FAILED" /\ timers' = timers \cup {Timer("reset", CloseAfter)}
       ELSE UNCHANGED <<commandStatus, timers>>
    /\ UNCHANGED <<mounted, activeCommand, mine, sender, published>>
    /\ UNCHANGED link

Next ==
    \/ MountPanel \/ UnmountPanel
    \/ \E c \in Commands, b \in Buttons : SendCommand(c, b)
    \/ TimerFires \/ Tick
    \/ \E c \in Commands : SubmitTerminal(c) \/ RestAnswered(c)
    \/ HubExecute \/ ReceiveNotice \/ ReceiveResult
    \/ \E c \in Commands : HubExecuteOrphan(c) \/ InvokeRejected(c)
    \/ Drop \/ Reconnect

\* The browser runs due timers and reads the connection, the hub executes the
\* calls it received, a lost call is rejected, and time passes.
Fairness ==
    /\ WF_vars(TimerFires) /\ WF_vars(Tick)
    /\ WF_vars(HubExecute) /\ WF_vars(ReceiveNotice) /\ WF_vars(ReceiveResult)
    /\ \A c \in Commands : WF_vars(InvokeRejected(c))

Spec == Init /\ [][Next]_vars /\ Fairness

-----------------------------------------------------------------------------
(* Properties                                                              *)

TypeOK ==
    /\ {mounted, connected} \subseteq BOOLEAN
    /\ commandStatus \in {"IDLE", "PENDING", "SUCCESS", "FAILED"}
    /\ activeCommand \in Buttons \cup {None}
    /\ timers \subseteq [kind : {"fail", "unfail", "reset"}, left : Nat]
    /\ sender \in [Commands -> {"none", "panel", "terminal"}]
    /\ client \in [Commands -> {"none", "invoked", "posting", "done", "sent", "failed"}]
    /\ mine \subseteq Commands /\ orphans \subseteq Commands /\ alerted \subseteq Commands
    /\ up \in Seq(Commands)
    /\ down \in Seq([kind : {"ack", "alert", "result"}, of : Commands])
    /\ published \in [Commands -> Nat]
    /\ drops \in Nat

\* Whatever mixture of timers and answers of several commands is under way, the
\* panel never shows a state that nothing will end: a locked panel has a call in
\* flight or the fail-safe timer, a result has a timer that takes it away.
NeverStuck ==
    /\ commandStatus = "PENDING" =>
         Armed("fail") \/ \E c \in mine : client[c] = "invoked"
    /\ commandStatus = "SUCCESS" => Armed("reset")
    /\ commandStatus = "FAILED" => Armed("reset") \/ Armed("unfail")

\* A command reaches the command stream twice only from the terminal, by a REST
\* request after its call was rejected, of which the operator was told, and never
\* three times.
DuplicateOnlyByFallback ==
    \A c \in Commands :
        /\ published[c] <= 2
        /\ published[c] = 2 => sender[c] = "terminal" /\ c \in alerted

\* "Sent by REST" is said only of a command that was published, and a command of
\* the terminal that was never published does not end without an alert.
TrueReports ==
    \A c \in Commands :
        /\ client[c] = "sent" => published[c] > 0
        /\ sender[c] = "terminal" /\ client[c] \in {"done", "failed"} /\ published[c] = 0
             => c \in alerted

\* The lock of the panel opens again, whether the command is acknowledged,
\* refused, lost with the connection or forgotten.
LockOpens == commandStatus = "PENDING" ~> commandStatus # "PENDING"

\* What the comment in sendCommand says (useTacticalCommand.js:34): the buttons are
\* locked as long as a command of this panel is on its way to the hub.  TLC refutes it:
\* the panel takes the acknowledgement of a terminal's command for its own.
LockedWhileDispatching ==
    \A i \in DOMAIN up : up[i] \in mine => commandStatus = "PENDING"
=============================================================================
