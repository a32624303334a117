----------------------------- MODULE MapConsole -----------------------------
(***************************************************************************)
(* The map page: which drone or station is selected, what a click on the   *)
(* map means, and the requests that are answered while the operator goes   *)
(* on.  TacticalMap keeps the selection and the mode; MapDisplay,          *)
(* FleetC2Toolbar and TacticalCommands change the mode; HUDPanel (one      *)
(* mount for each selected drone) and GksPanel (one mount as long as any   *)
(* station is selected) keep a flag for each button whose request is under *)
(* way.                                                                    *)
(*                                                                         *)
(* A request is kept until nothing its answer does can be seen.  Not here: *)
(* the commands of the HUD (CommandPath), the radius slider and the        *)
(* hand-over button of a station's popup, which keep no state but the      *)
(* slider's own, the lock of a stale drone, and texts.                     *)
(***************************************************************************)
EXTENDS Integers, FiniteSets

CONSTANTS
    Drones, Stations, Maneuvers, None,
    MaxRequests,    \* bound: requests sent
    MaxWaypoints    \* bound: waypoints staged

ASSUME MapAssumption ==
    /\ None \notin Drones \cup Stations \cup Maneuvers
    /\ {MaxRequests, MaxWaypoints} \subseteq Nat
    /\ IsFiniteSet(Drones)

VARIABLES
    selectedDrone, selectedGks,
    interactionMode, pendingManeuver,
    stagedWaypoints,     \* how many are staged
    deleteState,         \* of the HUD
    isPinging, isEvacuating, isDeleting,   \* of the station panel
    evacuation,          \* the evacuation the panel reports as complete, or 0
    requests,            \* kind, subject, number, and whether its panel is mounted
    sent,                \* history: requests and evacuations started
    refused              \* history: evacuations of which a command failed

panels == <<deleteState, isPinging, isEvacuating, isDeleting, evacuation>>
selection == <<selectedDrone, selectedGks>>
mode == <<interactionMode, pendingManeuver, stagedWaypoints>>
vars == <<selection, mode, panels, requests, sent, refused>>

Init ==
    /\ selectedDrone = None /\ selectedGks = None
    /\ interactionMode = "NONE" /\ pendingManeuver = None
    /\ stagedWaypoints = 0
    /\ deleteState = "IDLE"
    /\ isPinging = FALSE /\ isEvacuating = FALSE /\ isDeleting = FALSE
    /\ evacuation = 0
    /\ requests = {}
    /\ sent = 0
    /\ refused = {}

Request(kind, of) == [kind |-> kind, of |-> of, number |-> sent + 1, mounted |-> TRUE]

Send(rs) ==
    /\ sent < MaxRequests
    /\ sent' = sent + 1
    /\ requests' = requests \cup rs

-----------------------------------------------------------------------------
(* The selection                                                           *)

\* What is left of the requests rs when the HUD or the station panel goes: the
\* answer of a deletion still changes the selection, the others do nothing.
WithoutHud(rs) ==
    {[r EXCEPT !.mounted = r.kind # "deleteUav" /\ @] : r \in rs}
WithoutGksPanel(rs) ==
    {[r EXCEPT !.mounted = r.kind # "deleteGks" /\ @] : r \in
        {r \in rs : r.kind \notin {"ping", "evacuate"}}}

\* A defect for the mutation check: the panel of a station starts without its
\* flags each time another one is selected.
GksPanelAnew(g, rs) ==
    /\ requests' = rs
    /\ isPinging' = FALSE /\ isEvacuating' = FALSE /\ isDeleting' = FALSE
    /\ evacuation' = 0

\* The station panel is mounted while a station is selected; a new selection
\* clears what it reports and leaves its flags.
GksPanelShows(g, rs) ==
    /\ evacuation' = 0
    /\ IF g = None
       THEN /\ requests' = WithoutGksPanel(rs)
            /\ isPinging' = FALSE /\ isEvacuating' = FALSE /\ isDeleting' = FALSE
       ELSE requests' = rs /\ UNCHANGED <<isPinging, isEvacuating, isDeleting>>

\* The selection becomes drone d and station g, with the requests rs left.
Select(d, g, rs) ==
    /\ selectedDrone' = d /\ selectedGks' = g
    /\ IF g = selectedGks /\ d = selectedDrone /\ g = None
       THEN requests' = rs /\ UNCHANGED panels
       ELSE deleteState' = "IDLE" /\ GksPanelShows(g, WithoutHud(rs))

\* handleSelectDrone, from a card of the fleet panel or a marker.
HandleSelectDrone(d) ==
    /\ Select(d, None, requests)
    /\ UNCHANGED <<mode, sent, refused>>

\* A defect for the mutation check: the drone stays selected beside the station.
SelectStationOnly(g) ==
    /\ Select(selectedDrone, g, requests)
    /\ UNCHANGED <<mode, sent, refused>>

\* The marker of a station: setSelectedGks and handleSelectDrone(null).
SelectStation(g) ==
    /\ Select(None, g, requests)
    /\ UNCHANGED <<mode, sent, refused>>

CloseGksPanel ==
    /\ selectedGks # None
    /\ Select(selectedDrone, None, requests)
    /\ UNCHANGED <<mode, sent, refused>>

-----------------------------------------------------------------------------
(* The mode and the clicks on the map                                      *)

\* The two buttons of the toolbar, and the route button of the HUD.
ToggleMode(m) ==
    /\ m = "DRAW_ROUTE" => selectedDrone # None
    /\ interactionMode' = IF interactionMode = m THEN "NONE" ELSE m
    /\ UNCHANGED <<pendingManeuver, stagedWaypoints, selection, panels, requests, sent, refused>>

\* A defect for the mutation check: cancelling clears the maneuver, not the mode.
ToggleManeuverKeepingMode(c) ==
    /\ selectedDrone # None
    /\ IF interactionMode = "SELECT_MANEUVER_TARGET" /\ pendingManeuver = c
       THEN UNCHANGED interactionMode /\ pendingManeuver' = None
       ELSE interactionMode' = "SELECT_MANEUVER_TARGET" /\ pendingManeuver' = c
    /\ UNCHANGED <<stagedWaypoints, selection, panels, requests, sent, refused>>

\* The maneuver buttons of the HUD.
ToggleManeuver(c) ==
    /\ selectedDrone # None
    /\ IF interactionMode = "SELECT_MANEUVER_TARGET" /\ pendingManeuver = c
       THEN interactionMode' = "NONE" /\ pendingManeuver' = None
       ELSE interactionMode' = "SELECT_MANEUVER_TARGET" /\ pendingManeuver' = c
    /\ UNCHANGED <<stagedWaypoints, selection, panels, requests, sent, refused>>

\* MapInteractionHandler, one disjunct for each mode.
ClickMap ==
    /\ \/ /\ interactionMode \in {"SPAWN_UAV", "SPAWN_GKS"}
          /\ Send({Request("spawn", None)})
          /\ UNCHANGED stagedWaypoints
       \/ /\ interactionMode = "DRAW_ROUTE"
          /\ stagedWaypoints < MaxWaypoints
          /\ stagedWaypoints' = stagedWaypoints + 1
          /\ UNCHANGED <<requests, sent>>
       \/ /\ interactionMode = "SELECT_MANEUVER_TARGET"
          /\ pendingManeuver # None /\ selectedDrone # None
          /\ Send({Request("maneuver", selectedDrone)})
          /\ UNCHANGED stagedWaypoints
    /\ UNCHANGED <<interactionMode, pendingManeuver, selection, panels, refused>>

DispatchMission ==
    /\ interactionMode = "DRAW_ROUTE" /\ stagedWaypoints > 0 /\ selectedDrone # None
    /\ Send({Request("mission", selectedDrone)})
    /\ UNCHANGED <<mode, selection, panels, refused>>

\* The answers end the mode and clear what was staged, whatever the operator has
\* begun in the meantime; a failure leaves both.
AnswerMode(r) ==
    /\ r \in requests /\ r.kind \in {"spawn", "maneuver", "mission"}
    /\ requests' = requests \ {r}
    /\ \/ /\ interactionMode' = "NONE"
          /\ pendingManeuver' = IF r.kind = "maneuver" THEN None ELSE pendingManeuver
          /\ stagedWaypoints' = IF r.kind = "mission" THEN 0 ELSE stagedWaypoints
       \/ UNCHANGED mode
    /\ UNCHANGED <<selection, panels, sent, refused>>

-----------------------------------------------------------------------------
(* The buttons of the panels                                               *)

HandleDeleteUav ==
    /\ selectedGks = None /\ selectedDrone # None
    /\ deleteState # "PENDING"
    /\ deleteState' = "PENDING"
    /\ Send({Request("deleteUav", selectedDrone)})
    /\ UNCHANGED <<selection, mode, isPinging, isEvacuating, isDeleting, evacuation, refused>>

\* Success clears the selected drone, be it another one by now; only the HUD
\* that asked shows a failure.
AnswerDeleteUav(r) ==
    /\ r \in requests /\ r.kind = "deleteUav"
    /\ \/ IF selectedGks = None THEN Select(None, None, requests \ {r})
          ELSE requests' = requests \ {r} /\ selectedDrone' = None /\ UNCHANGED <<selectedGks, panels>>
       \/ /\ deleteState' = IF r.mounted THEN "FAILED" ELSE deleteState
          /\ requests' = requests \ {r}
          /\ UNCHANGED <<selection, isPinging, isEvacuating, isDeleting, evacuation>>
    /\ UNCHANGED <<mode, sent, refused>>

HandlePing ==
    /\ selectedGks # None /\ ~isPinging
    /\ isPinging' = TRUE
    /\ Send({Request("ping", selectedGks)})
    /\ UNCHANGED <<selection, mode, deleteState, isEvacuating, isDeleting, evacuation, refused>>

\* A defect for the mutation check: the flag is cleared after a success only.
AnswerPingNotFinally(r) ==
    /\ r \in requests /\ r.kind = "ping"
    /\ requests' = requests \ {r}
    /\ \/ isPinging' = FALSE /\ UNCHANGED evacuation
       \/ evacuation' = 0 /\ UNCHANGED isPinging
    /\ UNCHANGED <<selection, mode, deleteState, isEvacuating, isDeleting, sent, refused>>

\* A failure takes the place of what the panel reported.
AnswerPing(r) ==
    /\ r \in requests /\ r.kind = "ping"
    /\ requests' = requests \ {r}
    /\ isPinging' = FALSE
    /\ evacuation' \in {evacuation, 0}
    /\ UNCHANGED <<selection, mode, deleteState, isEvacuating, isDeleting, sent, refused>>

\* One hand-over for each drone of the station, under one number; a warning if
\* it has no drone or there is no other station.
HandleEvacuate ==
    /\ selectedGks # None /\ ~isEvacuating
    /\ \/ /\ isEvacuating' = TRUE
          /\ \E D \in (SUBSET Drones) \ {{}} : Send({Request("evacuate", d) : d \in D})
          /\ UNCHANGED evacuation
       \/ evacuation' = 0 /\ UNCHANGED <<isEvacuating, requests, sent>>
    /\ UNCHANGED <<selection, mode, deleteState, isPinging, isDeleting, refused>>

Batch(r) == {q \in requests : q.kind = "evacuate" /\ q.number = r.number}

\* A defect for the mutation check: the first success completes the evacuation.
AnswerEvacuateAny(r) ==
    /\ r \in requests /\ r.kind = "evacuate"
    /\ isEvacuating' = FALSE
    /\ \/ requests' = requests \ {r} /\ evacuation' = r.number /\ UNCHANGED refused
       \/ /\ requests' = requests \ Batch(r) /\ evacuation' = 0
          /\ refused' = refused \cup {r.number}
    /\ UNCHANGED <<selection, mode, deleteState, isPinging, isDeleting, sent>>

\* Promise.all: complete with the last success, over with the first failure,
\* after which the other answers of the evacuation do nothing.
AnswerEvacuate(r) ==
    /\ r \in requests /\ r.kind = "evacuate"
    /\ \/ /\ requests' = requests \ {r}
          /\ IF Batch(r) = {r} THEN isEvacuating' = FALSE /\ evacuation' = r.number
                               ELSE UNCHANGED <<isEvacuating, evacuation>>
          /\ UNCHANGED refused
       \/ /\ requests' = requests \ Batch(r)
          /\ isEvacuating' = FALSE /\ evacuation' = 0
          /\ refused' = refused \cup {r.number}
    /\ UNCHANGED <<selection, mode, deleteState, isPinging, isDeleting, sent>>

\* handleDelete of a station.
HandleDelete ==
    /\ selectedGks # None /\ ~isDeleting
    /\ isDeleting' = TRUE
    /\ Send({Request("deleteGks", selectedGks)})
    /\ UNCHANGED <<selection, mode, deleteState, isPinging, isEvacuating, evacuation, refused>>

\* Success closes the station panel, be it about another station by now.
AnswerDelete(r) ==
    /\ r \in requests /\ r.kind = "deleteGks"
    /\ \/ Select(selectedDrone, None, requests \ {r})
       \/ /\ isDeleting' = (isDeleting /\ ~r.mounted)
          /\ evacuation' = IF r.mounted THEN 0 ELSE evacuation
          /\ requests' = requests \ {r}
          /\ UNCHANGED <<selection, deleteState, isPinging, isEvacuating>>
    /\ UNCHANGED <<mode, sent, refused>>

Answer(r) ==
    AnswerMode(r) \/ AnswerDeleteUav(r) \/ AnswerPing(r) \/ AnswerEvacuate(r) \/ AnswerDelete(r)

\* Another page: everything of this one is gone, and answers find nobody.
LeaveMap ==
    /\ selectedDrone' = None /\ selectedGks' = None
    /\ interactionMode' = "NONE" /\ pendingManeuver' = None /\ stagedWaypoints' = 0
    /\ deleteState' = "IDLE"
    /\ isPinging' = FALSE /\ isEvacuating' = FALSE /\ isDeleting' = FALSE
    /\ evacuation' = 0
    /\ requests' = {}
    /\ UNCHANGED <<sent, refused>>

Next ==
    \/ \E d \in Drones : HandleSelectDrone(d)
    \/ \E g \in Stations : SelectStation(g)
    \/ CloseGksPanel
    \/ \E m \in {"SPAWN_UAV", "SPAWN_GKS", "DRAW_ROUTE"} : ToggleMode(m)
    \/ \E c \in Maneuvers : ToggleManeuver(c)
    \/ ClickMap \/ DispatchMission
    \/ HandleDeleteUav \/ HandlePing \/ HandleEvacuate \/ HandleDelete
    \/ \E r \in requests : Answer(r)
    \/ LeaveMap

\* Every request is answered or fails.
Fairness == \A n \in 1..MaxRequests : WF_vars(\E r \in requests : r.number = n /\ Answer(r))

Spec == Init /\ [][Next]_vars /\ Fairness

-----------------------------------------------------------------------------
(* Properties                                                              *)

Modes == {"NONE", "SPAWN_UAV", "SPAWN_GKS", "DRAW_ROUTE", "SELECT_MANEUVER_TARGET"}
Kinds == {"spawn", "maneuver", "mission", "deleteUav", "ping", "evacuate", "deleteGks"}
RequestRecords == [kind : Kinds, of : Drones \cup Stations \cup {None},
                   number : Nat, mounted : BOOLEAN]

TypeOK ==
    /\ selectedDrone \in Drones \cup {None} /\ selectedGks \in Stations \cup {None}
    /\ interactionMode \in Modes /\ pendingManeuver \in Maneuvers \cup {None}
    /\ stagedWaypoints \in Nat
    /\ deleteState \in {"IDLE", "PENDING", "FAILED"}
    /\ {isPinging, isEvacuating, isDeleting} \subseteq BOOLEAN
    /\ evacuation \in Nat /\ sent \in Nat
    /\ requests \subseteq RequestRecords
    /\ refused \subseteq Nat

\* A drone and a station are never selected together: the panel of the one would
\* hide the other, and its buttons would act on what is not shown.  Clicks and
\* late answers of deletions change the two independently.
OneSelection == selectedDrone = None \/ selectedGks = None

\* A click that aims a maneuver has a maneuver to aim, whichever of the toolbar,
\* the buttons and the late answers changed the mode last.
ManeuverArmed == interactionMode = "SELECT_MANEUVER_TARGET" => pendingManeuver # None

Own(kind) == {r \in requests : r.kind = kind /\ r.mounted}

\* A button is busy exactly while a request of the panel on the screen is under
\* way, across all changes of the selection: no button is left disabled by an
\* answer that went to a panel that is gone, and none is pressed twice.
BusyIsReal ==
    /\ deleteState = "PENDING" <=> Own("deleteUav") # {}
    /\ \A r \in Own("deleteUav") : r.of = selectedDrone
    /\ isPinging <=> Own("ping") # {}
    /\ isEvacuating <=> Own("evacuate") # {}
    /\ isDeleting <=> Own("deleteGks") # {}
    /\ \A q, r \in requests :
         q.mounted /\ r.mounted /\ q.kind = r.kind
             /\ q.kind \in {"deleteUav", "ping", "evacuate", "deleteGks"} => q.number = r.number

\* An evacuation is reported as carried out only if every command of it was
\* accepted: not after the first one, and not if one failed meanwhile.
EvacuationComplete ==
    evacuation # 0 =>
        /\ evacuation \notin refused
        /\ \A r \in requests : r.kind = "evacuate" => r.number # evacuation

\* Every busy button becomes usable again, or its panel goes.
ButtonsReturn ==
    /\ deleteState = "PENDING" ~> deleteState # "PENDING"
    /\ isPinging ~> ~isPinging
    /\ isEvacuating ~> ~isEvacuating
    /\ isDeleting ~> ~isDeleting
=============================================================================
