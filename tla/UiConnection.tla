---------------------------- MODULE UiConnection ----------------------------
(***************************************************************************)
(* The page and its hub connection: who may see the pages, how the one     *)
(* connection is started, lost and started again, and what the footer says *)
(* of it.  App starts the connection when a page is loaded and 3 s after   *)
(* it was closed, startConnection itself 5 s after a start that failed,    *)
(* and the library reconnects on its own for a while.  The token is in     *)
(* localStorage, which the tabs of a browser share.                        *)
(*                                                                         *)
(* connection.state is the library's, modelled from how App and            *)
(* signalRService use it.  The footer of a page behind the error screen is *)
(* still computed here and shown to nobody.                                *)
(***************************************************************************)
EXTENDS Integers

VARIABLES
    token,        \* aegis_token: none, or what the server makes of it
    page,         \* "login", "app", or "crashed": the error screen
    login,        \* the form: idle, loading or error
    hub,          \* connection.state
    starting,     \* who awaits connection.start(): "app", "retry", or "none"
    retryTimers,  \* timers of startConnection that are armed
    closeTimers,  \* timers of onClose that are armed
    connStatus,
    reachable     \* whether the server can be reached

pageVars == <<token, page, login, hub, starting, retryTimers, closeTimers, connStatus, reachable>>

Accepted == reachable /\ token = "valid"

\* The page ProtectedRoute shows for the address of the application.
Guarded(t) == IF t = "none" THEN "login" ELSE "app"

\* A document is loaded: App's effect finds the connection disconnected, says so
\* and starts it, on the login page too.
Load(p) ==
    /\ page' = p /\ login' = "idle"
    /\ hub' = "Connecting" /\ starting' = "app"
    /\ connStatus' = "DISCONNECTED"
    /\ retryTimers' = 0 /\ closeTimers' = 0

PageInit ==
    /\ token \in {"none", "valid", "expired"}
    /\ page = Guarded(token) /\ login = "idle"
    /\ hub = "Connecting" /\ starting = "app"
    /\ connStatus = "DISCONNECTED"
    /\ retryTimers = 0 /\ closeTimers = 0
    /\ reachable \in BOOLEAN

-----------------------------------------------------------------------------
(* The connection                                                          *)

\* updateConnectionState
Shown(state) ==
    IF state = "Connected" THEN "CONNECTED"
    ELSE IF state = "Reconnecting" THEN "RECONNECTING" ELSE "DISCONNECTED"

\* startConnection: it returns at once unless the connection is disconnected.
StartConnection(by) ==
    IF hub = "Disconnected" THEN hub' = "Connecting" /\ starting' = by
                            ELSE UNCHANGED <<hub, starting>>

\* Only App asks for the state afterwards; the retry of startConnection does not.
StartSucceeds ==
    /\ starting # "none" /\ Accepted
    /\ hub' = "Connected" /\ starting' = "none"
    /\ connStatus' = IF starting = "app" THEN Shown("Connected") ELSE connStatus
    /\ UNCHANGED <<token, page, login, retryTimers, closeTimers, reachable>>

\* A defect for the mutation check: a retry that fails is not followed by another.
StartFailsOnce ==
    /\ starting # "none" /\ ~Accepted
    /\ hub' = "Disconnected" /\ starting' = "none"
    /\ retryTimers' = IF starting = "app" THEN retryTimers + 1 ELSE retryTimers
    /\ connStatus' = IF starting = "app" THEN Shown("Disconnected") ELSE connStatus
    /\ UNCHANGED <<token, page, login, closeTimers, reachable>>

\* startConnection catches the error, arms its timer and resolves.
StartFails ==
    /\ starting # "none" /\ ~Accepted
    /\ hub' = "Disconnected" /\ starting' = "none"
    /\ retryTimers' = retryTimers + 1
    /\ connStatus' = IF starting = "app" THEN Shown("Disconnected") ELSE connStatus
    /\ UNCHANGED <<token, page, login, closeTimers, reachable>>

RetryTimerFires ==
    /\ retryTimers > 0
    /\ retryTimers' = retryTimers - 1
    /\ StartConnection("retry")
    /\ UNCHANGED <<token, page, login, closeTimers, connStatus, reachable>>

CloseTimerFires ==
    /\ closeTimers > 0
    /\ closeTimers' = closeTimers - 1
    /\ StartConnection("app")
    /\ connStatus' = IF hub = "Disconnected" THEN "CONNECTING" ELSE Shown(hub)
    /\ UNCHANGED <<token, page, login, retryTimers, reachable>>

OnReconnecting ==
    /\ hub = "Connected"
    /\ hub' = "Reconnecting"
    /\ connStatus' = "RECONNECTING"
    /\ UNCHANGED <<token, page, login, starting, retryTimers, closeTimers, reachable>>

OnReconnected ==
    /\ hub = "Reconnecting" /\ Accepted
    /\ hub' = "Connected"
    /\ connStatus' = "CONNECTED"
    /\ UNCHANGED <<token, page, login, starting, retryTimers, closeTimers, reachable>>

\* A defect for the mutation check: the handler arms its timer and shows nothing.
OnCloseUnshown ==
    /\ hub \in {"Connected", "Reconnecting"}
    /\ hub' = "Disconnected"
    /\ closeTimers' = closeTimers + 1
    /\ UNCHANGED <<token, page, login, starting, retryTimers, connStatus, reachable>>

\* The server closed the connection, or the library gave up reconnecting.
OnClose ==
    /\ hub \in {"Connected", "Reconnecting"}
    /\ hub' = "Disconnected"
    /\ connStatus' = "DISCONNECTED"
    /\ closeTimers' = closeTimers + 1
    /\ UNCHANGED <<token, page, login, starting, retryTimers, reachable>>

-----------------------------------------------------------------------------
(* The pages                                                               *)

connection == <<hub, starting, retryTimers, closeTimers, connStatus>>

\* A defect for the mutation check: the page renders only when the footer changes.
RenderWithFooter ==
    /\ page = "app" /\ token = "none"
    /\ connStatus # "CONNECTED"
    /\ page' = "login" /\ login' = "idle"
    /\ UNCHANGED <<connection, token, reachable>>

\* App renders again every second, and ProtectedRoute with it.
Render ==
    /\ page = "app" /\ token = "none"
    /\ page' = "login" /\ login' = "idle"
    /\ UNCHANGED <<connection, token, reachable>>

HandleLogin ==
    /\ page = "login" /\ login # "loading"
    /\ login' = "loading"
    /\ UNCHANGED <<connection, token, page, reachable>>

LoginAccepted ==
    /\ login = "loading" /\ reachable
    /\ token' = "valid"
    /\ Load("app")
    /\ UNCHANGED reachable

LoginRefused ==
    /\ login = "loading"
    /\ login' = "error"
    /\ UNCHANGED <<connection, token, page, reachable>>

HandleLogout ==
    /\ page = "app"
    /\ token' = "none"
    /\ Load("login")
    /\ UNCHANGED reachable

\* A render threw: the error screen replaces the page, everything else goes on.
Crash ==
    /\ page # "crashed"
    /\ page' = "crashed" /\ login' = "idle"
    /\ UNCHANGED <<connection, token, reachable>>

\* The button of the error screen, the browser's own, or the address typed in.
ReloadPage ==
    /\ Load(Guarded(token))
    /\ UNCHANGED <<token, reachable>>

-----------------------------------------------------------------------------
(* The world: the server, the network, the other tabs                      *)

Expire ==
    /\ token = "valid"
    /\ token' = "expired"
    /\ UNCHANGED <<connection, page, login, reachable>>

OtherTab ==
    /\ token' \in {"none", "valid"} \ {token}
    /\ UNCHANGED <<connection, page, login, reachable>>

NetworkChanges ==
    /\ reachable' = ~reachable
    /\ UNCHANGED <<connection, token, page, login>>

PageNext ==
    \/ StartSucceeds \/ StartFails \/ RetryTimerFires \/ CloseTimerFires
    \/ OnReconnecting \/ OnReconnected \/ OnClose
    \/ Render \/ HandleLogin \/ LoginAccepted \/ LoginRefused \/ HandleLogout
    \/ Crash \/ ReloadPage
    \/ Expire \/ OtherTab \/ NetworkChanges

\* The browser renders and runs its timers, a start ends, and the library does
\* not try to reconnect forever.
Fairness ==
    /\ WF_pageVars(StartSucceeds) /\ WF_pageVars(StartFails)
    /\ WF_pageVars(RetryTimerFires) /\ WF_pageVars(CloseTimerFires)
    /\ WF_pageVars(OnReconnected) /\ WF_pageVars(hub = "Reconnecting" /\ OnClose)
    /\ WF_pageVars(Render)

PageSpec == PageInit /\ [][PageNext]_pageVars /\ Fairness

-----------------------------------------------------------------------------
(* Properties                                                              *)

PageTypeOK ==
    /\ token \in {"none", "valid", "expired"}
    /\ page \in {"login", "app", "crashed"}
    /\ login \in {"idle", "loading", "error"}
    /\ hub \in {"Disconnected", "Connecting", "Connected", "Reconnecting"}
    /\ starting \in {"none", "app", "retry"}
    /\ retryTimers \in Nat /\ closeTimers \in Nat
    /\ connStatus \in {"DISCONNECTED", "CONNECTING", "CONNECTED", "RECONNECTING"}
    /\ reachable \in BOOLEAN

\* The three ways of starting the connection never overlap and never all end:
\* while it is down exactly one timer is armed, and otherwise none is, so that
\* it is neither given up nor attempted by a growing number of timers.
OneChain ==
    /\ hub = "Disconnected" => retryTimers + closeTimers = 1
    /\ hub # "Disconnected" => retryTimers + closeTimers = 0
    /\ starting # "none" <=> hub = "Connecting"

\* The footer does not claim a link there is not: it says connected or
\* reconnecting only while the connection is, and connecting only while App
\* awaits a start.
FooterTruthful ==
    /\ connStatus = "CONNECTED" => hub = "Connected"
    /\ connStatus = "RECONNECTING" => hub = "Reconnecting"
    /\ connStatus = "CONNECTING" => hub = "Connecting" /\ starting = "app"

\* Once the server stays reachable and the token valid, the connection is
\* established again, whatever happened before and however often it is lost.
Reconnects == <>[]Accepted => []<>(hub = "Connected")

\* Without a token the pages are left, even if another tab removed it.
GuardWorks == page = "app" /\ token = "none" ~> page # "app" \/ token # "none"
=============================================================================
