-------------------------- MODULE MapConsoleProofs --------------------------
(***************************************************************************)
(* The map page never selects a drone and a station together, never aims   *)
(* without a maneuver, shows a button as busy exactly while a request of   *)
(* the panel on the screen is under way, and reports an evacuation only    *)
(* when every command of it was accepted.                                  *)
(***************************************************************************)
EXTENDS MapConsole, TLAPS

\* What keeps the four together.  Of a set of requests numbered up to n: a
\* number belongs to one request or to the commands of one evacuation, the
\* deletion of a drone names it, and only the requests of deletions outlive
\* their panel; evacuations with a number in bad have no request left.
Consistent(rs, n, bad) ==
    /\ rs \subseteq RequestRecords
    /\ \A r \in rs :
         /\ r.number \in 1..n
         /\ r.kind = "deleteUav" => r.of \in Drones
         /\ r.kind \in {"ping", "evacuate"} => r.mounted
         /\ r.kind = "evacuate" => r.number \notin bad
    /\ \A q, r \in rs :
         q.number = r.number => q.kind = r.kind /\ (q.kind # "evacuate" => q = r)

\* Numbers come from sent, and a station panel that is closed has no request left.
Bookkept ==
    /\ Consistent(requests, sent, refused)
    /\ evacuation \in 0..sent /\ refused \subseteq 1..sent
    /\ selectedGks = None => ~isPinging /\ ~isEvacuating /\ ~isDeleting /\ evacuation = 0

Inv ==
    /\ TypeOK /\ OneSelection /\ ManeuverArmed
    /\ BusyIsReal /\ EvacuationComplete /\ Bookkept

USE MapAssumption

LEMMA InitInv == Init => Inv
<1> SUFFICES ASSUME Init PROVE Inv
  OBVIOUS
<1> USE DEF Init
<1>1. TypeOK
  BY DEF TypeOK, Modes
<1>2. OneSelection /\ ManeuverArmed
  BY DEF OneSelection, ManeuverArmed
<1>3. \A kind : Own(kind) = {}
  BY DEF Own
<1>4. BusyIsReal
  BY <1>3 DEF BusyIsReal
<1>5. EvacuationComplete /\ Bookkept
  BY DEF EvacuationComplete, Bookkept, Consistent
<1>6. QED
  BY <1>1, <1>2, <1>4, <1>5 DEF Inv

-----------------------------------------------------------------------------
(* The selection and the mode need nothing but themselves.                 *)

LEMMA OneSelectionStep == OneSelection /\ [Next]_vars => OneSelection'
<1> SUFFICES ASSUME OneSelection, [Next]_vars PROVE OneSelection'
  OBVIOUS
<1>1. CASE \E d \in Drones : HandleSelectDrone(d)
  BY <1>1 DEF HandleSelectDrone, Select, OneSelection
<1>2. CASE \E g \in Stations : SelectStation(g)
  BY <1>2 DEF SelectStation, Select, OneSelection
<1>3. CASE CloseGksPanel
  BY <1>3 DEF CloseGksPanel, Select, OneSelection
<1>4. CASE \E r \in requests : AnswerDeleteUav(r)
  BY <1>4 DEF AnswerDeleteUav, Select, OneSelection, selection
<1>5. CASE \E r \in requests : AnswerDelete(r)
  BY <1>5 DEF AnswerDelete, Select, OneSelection, selection
<1>6. CASE LeaveMap
  BY <1>6 DEF LeaveMap, OneSelection
<1>7. CASE UNCHANGED selection
  BY <1>7 DEF selection, OneSelection
<1>8. QED
  BY <1>1, <1>2, <1>3, <1>4, <1>5, <1>6, <1>7
  DEF Next, Answer, AnswerMode, AnswerPing, AnswerEvacuate, ToggleMode, ToggleManeuver, ClickMap,
      DispatchMission, HandleDeleteUav, HandlePing, HandleEvacuate, HandleDelete, vars

LEMMA ManeuverArmedStep == ManeuverArmed /\ [Next]_vars => ManeuverArmed'
<1> SUFFICES ASSUME ManeuverArmed, [Next]_vars PROVE ManeuverArmed'
  OBVIOUS
<1>1. CASE \E m \in {"SPAWN_UAV", "SPAWN_GKS", "DRAW_ROUTE"} : ToggleMode(m)
  BY <1>1 DEF ToggleMode, ManeuverArmed
<1>2. CASE \E c \in Maneuvers : ToggleManeuver(c)
  BY <1>2 DEF ToggleManeuver, ManeuverArmed
<1>3. CASE \E r \in requests : AnswerMode(r)
  BY <1>3 DEF AnswerMode, ManeuverArmed, mode
<1>4. CASE LeaveMap
  BY <1>4 DEF LeaveMap, ManeuverArmed
<1>5. CASE UNCHANGED <<interactionMode, pendingManeuver>>
  BY <1>5 DEF ManeuverArmed
<1>6. QED
  BY <1>1, <1>2, <1>3, <1>4, <1>5
  DEF Next, Answer, AnswerDeleteUav, AnswerDelete, AnswerPing, AnswerEvacuate, HandleSelectDrone,
      SelectStation, CloseGksPanel, ClickMap, DispatchMission, HandleDeleteUav, HandlePing,
      HandleEvacuate, HandleDelete, vars, mode

\* No drone and station are ever selected together.
THEOREM NeverBoth == Spec => []OneSelection
<1>1. Init => OneSelection
  BY DEF Init, OneSelection
<1>2. QED
  BY <1>1, OneSelectionStep, PTL DEF Spec

\* The mode that aims a maneuver always has one.
THEOREM AlwaysArmed == Spec => []ManeuverArmed
<1>1. Init => ManeuverArmed
  BY DEF Init, ManeuverArmed
<1>2. QED
  BY <1>1, ManeuverArmedStep, PTL DEF Spec

-----------------------------------------------------------------------------
(* Sets of requests                                                        *)

LEMMA HudLeaves ==
    ASSUME NEW rs, NEW n \in Nat, NEW bad, Consistent(rs, n, bad)
    PROVE  /\ Consistent(WithoutHud(rs), n, bad)
           /\ \A q \in WithoutHud(rs) : ~(q.kind = "deleteUav" /\ q.mounted)
           /\ \A q \in WithoutHud(rs) : q.kind # "deleteUav" => q \in rs
           /\ \A r \in rs : r.kind # "deleteUav" => r \in WithoutHud(rs)
           /\ \A q \in WithoutHud(rs) : \E r \in rs : q.kind = r.kind /\ q.number = r.number
<1> DEFINE Out(r) == [r EXCEPT !.mounted = r.kind # "deleteUav" /\ @]
<1>1. WithoutHud(rs) = {Out(r) : r \in rs}
  BY DEF WithoutHud
<1>2. \A r \in rs :
        /\ Out(r) \in RequestRecords
        /\ Out(r).kind = r.kind /\ Out(r).of = r.of /\ Out(r).number = r.number
        /\ r.kind = "deleteUav" => ~Out(r).mounted
        /\ r.kind # "deleteUav" => Out(r) = r
  <2> SUFFICES ASSUME NEW r \in rs
               PROVE  /\ Out(r) \in RequestRecords
                      /\ Out(r).kind = r.kind /\ Out(r).of = r.of /\ Out(r).number = r.number
                      /\ r.kind = "deleteUav" => ~Out(r).mounted
                      /\ r.kind # "deleteUav" => Out(r) = r
    OBVIOUS
  <2>1. r \in RequestRecords /\ r.mounted \in BOOLEAN
    BY DEF Consistent, RequestRecords
  <2>2. CASE r.kind = "deleteUav"
    <3>1. Out(r) = [r EXCEPT !.mounted = FALSE]
      BY <2>2
    <3>2. QED
      BY <2>1, <2>2, <3>1 DEF RequestRecords
  <2>3. CASE r.kind # "deleteUav"
    <3>1. (r.kind # "deleteUav" /\ r.mounted) = r.mounted
      BY <2>1, <2>3
    <3>2. Out(r) = [r EXCEPT !.mounted = r.mounted]
      BY <3>1
    <3>3. Out(r) = r
      BY <2>1, <3>2 DEF RequestRecords
    <3>4. QED
      BY <2>1, <2>3, <3>3
  <2>4. QED
    BY <2>2, <2>3
<1> HIDE DEF Out
<1>3. QED
  BY <1>1, <1>2 DEF Consistent

LEMMA GksPanelLeaves ==
    ASSUME NEW rs, NEW n \in Nat, NEW bad, Consistent(rs, n, bad)
    PROVE  /\ Consistent(WithoutGksPanel(rs), n, bad)
           /\ \A q \in WithoutGksPanel(rs) : ~(q.kind \in {"ping", "evacuate"})
           /\ \A q \in WithoutGksPanel(rs) : ~(q.kind = "deleteGks" /\ q.mounted)
           /\ \A q \in WithoutGksPanel(rs) : q.kind # "deleteGks" => q \in rs
<1> DEFINE Out(r) == [r EXCEPT !.mounted = r.kind # "deleteGks" /\ @]
           Left == {r \in rs : r.kind \notin {"ping", "evacuate"}}
<1>1. WithoutGksPanel(rs) = {Out(r) : r \in Left}
  BY DEF WithoutGksPanel
<1>2. \A r \in rs :
        /\ Out(r) \in RequestRecords
        /\ Out(r).kind = r.kind /\ Out(r).of = r.of /\ Out(r).number = r.number
        /\ r.kind = "deleteGks" => ~Out(r).mounted
        /\ r.kind # "deleteGks" => Out(r) = r
  <2> SUFFICES ASSUME NEW r \in rs
               PROVE  /\ Out(r) \in RequestRecords
                      /\ Out(r).kind = r.kind /\ Out(r).of = r.of /\ Out(r).number = r.number
                      /\ r.kind = "deleteGks" => ~Out(r).mounted
                      /\ r.kind # "deleteGks" => Out(r) = r
    OBVIOUS
  <2>1. r \in RequestRecords /\ r.mounted \in BOOLEAN
    BY DEF Consistent, RequestRecords
  <2>2. CASE r.kind = "deleteGks"
    <3>1. Out(r) = [r EXCEPT !.mounted = FALSE]
      BY <2>2
    <3>2. QED
      BY <2>1, <2>2, <3>1 DEF RequestRecords
  <2>3. CASE r.kind # "deleteGks"
    <3>1. (r.kind # "deleteGks" /\ r.mounted) = r.mounted
      BY <2>1, <2>3
    <3>2. Out(r) = [r EXCEPT !.mounted = r.mounted]
      BY <3>1
    <3>3. Out(r) = r
      BY <2>1, <3>2 DEF RequestRecords
    <3>4. QED
      BY <2>1, <2>3, <3>3
  <2>4. QED
    BY <2>2, <2>3
<1> HIDE DEF Out
<1>3. QED
  BY <1>1, <1>2 DEF Consistent

\* An answer takes requests away.
LEMMA FewerConsistent ==
    ASSUME NEW rs, NEW n \in Nat, NEW bad, Consistent(rs, n, bad),
           NEW fewer \in SUBSET rs
    PROVE  Consistent(fewer, n, bad)
BY DEF Consistent

\* A request that is sent gets a number of its own.
LEMMA SendConsistent ==
    ASSUME NEW rs, NEW n \in Nat, NEW bad, Consistent(rs, n, bad), bad \subseteq 1..n,
           NEW q \in RequestRecords, q.number = n + 1, q.mounted,
           q.kind = "deleteUav" => q.of \in Drones
    PROVE  Consistent(rs \cup {q}, n + 1, bad)
<1>1. \A r \in rs : r.number # n + 1 /\ r.number \in 1..(n + 1)
  BY DEF Consistent
<1>2. n + 1 \in 1..(n + 1) /\ n + 1 \notin bad
  OBVIOUS
<1>3. QED
  BY <1>1, <1>2 DEF Consistent

\* The commands of an evacuation share one.
LEMMA EvacuateConsistent ==
    ASSUME NEW rs, NEW n \in Nat, NEW bad, Consistent(rs, n, bad), bad \subseteq 1..n,
           NEW qs \in SUBSET RequestRecords,
           \A q \in qs : q.number = n + 1 /\ q.mounted /\ q.kind = "evacuate"
    PROVE  Consistent(rs \cup qs, n + 1, bad)
<1>1. \A r \in rs : r.number # n + 1 /\ r.number \in 1..(n + 1)
  BY DEF Consistent
<1>2. n + 1 \in 1..(n + 1) /\ n + 1 \notin bad
  OBVIOUS
<1>3. QED
  BY <1>1, <1>2 DEF Consistent

-----------------------------------------------------------------------------
(* The selection                                                           *)

Busy(rs, kind) == \E r \in rs : r.kind = kind /\ r.mounted

Alone(rs) ==
    \A q, r \in rs :
        q.mounted /\ r.mounted /\ q.kind = r.kind
            /\ q.kind \in {"ping", "evacuate", "deleteGks", "deleteUav"} => q.number = r.number

\* BusyIsReal, told by the requests.
LEMMA BusyMeans ==
    BusyIsReal <=>
        /\ deleteState = "PENDING" <=> Busy(requests, "deleteUav")
        /\ \A r \in requests : r.kind = "deleteUav" /\ r.mounted => r.of = selectedDrone
        /\ isPinging <=> Busy(requests, "ping")
        /\ isEvacuating <=> Busy(requests, "evacuate")
        /\ isDeleting <=> Busy(requests, "deleteGks")
        /\ Alone(requests)
BY DEF BusyIsReal, Own, Busy, Alone

LEMMA BusyMeansNext ==
    BusyIsReal' <=>
        /\ deleteState' = "PENDING" <=> Busy(requests', "deleteUav")
        /\ \A r \in requests' : r.kind = "deleteUav" /\ r.mounted => r.of = selectedDrone'
        /\ isPinging' <=> Busy(requests', "ping")
        /\ isEvacuating' <=> Busy(requests', "evacuate")
        /\ isDeleting' <=> Busy(requests', "deleteGks")
        /\ Alone(requests')
BY DEF BusyIsReal, Own, Busy, Alone

\* A change of the selection keeps the invariant, with requests that were
\* answered gone; if nothing else changes, those had lost their panel before.
LEMMA SelectInv ==
    ASSUME Inv,
           NEW d \in Drones \cup {None}, NEW g \in Stations \cup {None}, d = None \/ g = None,
           NEW rs \in SUBSET requests,
           g # None => rs = requests,
           g = None /\ selectedGks = None /\ selectedDrone = d
               => \A r \in requests : r.mounted => r \in rs,
           Select(d, g, rs), sent' = sent, refused' = refused, UNCHANGED mode
    PROVE  Inv'
<1>1. Consistent(rs, sent, refused) /\ sent \in Nat /\ rs \subseteq RequestRecords
  BY FewerConsistent DEF Inv, TypeOK, Bookkept, Consistent
<1>2. OneSelection' /\ ManeuverArmed'
  BY DEF Inv, Select, OneSelection, ManeuverArmed, mode
<1>3. CASE g = selectedGks /\ d = selectedDrone /\ g = None
  <2>1. requests' = rs /\ UNCHANGED <<panels, selection>>
    BY <1>3 DEF Select, selection
  <2>2. TypeOK'
    BY <1>1, <2>1 DEF Inv, TypeOK, panels, selection, mode
  <2>3. \A kind : Busy(rs, kind) <=> Busy(requests, kind)
    BY <1>3 DEF Busy
  <2>4. BusyIsReal'
    BY <2>1, <2>3, BusyMeans, BusyMeansNext DEF Inv, Alone, panels, selection
  <2>5. EvacuationComplete' /\ Bookkept'
    BY <1>1, <2>1 DEF Inv, EvacuationComplete, Bookkept, panels, selection
  <2>6. QED
    BY <1>2, <2>2, <2>4, <2>5 DEF Inv
<1>4. CASE ~(g = selectedGks /\ d = selectedDrone /\ g = None)
  <2> DEFINE hud == WithoutHud(rs)
  <2>1. /\ selectedDrone' = d /\ selectedGks' = g
        /\ deleteState' = "IDLE" /\ evacuation' = 0
        /\ GksPanelShows(g, hud)
    BY <1>4 DEF Select, GksPanelShows
  <2>2. /\ Consistent(hud, sent, refused)
        /\ \A q \in hud : ~(q.kind = "deleteUav" /\ q.mounted)
        /\ \A q \in hud : q.kind # "deleteUav" => q \in rs
        /\ \A r \in rs : r.kind # "deleteUav" => r \in hud
    BY <1>1, HudLeaves
  <2> HIDE DEF hud
  <2>3. CASE g = None
    <3>1. /\ requests' = WithoutGksPanel(hud)
          /\ isPinging' = FALSE /\ isEvacuating' = FALSE /\ isDeleting' = FALSE
      BY <2>1, <2>3 DEF GksPanelShows
    <3>2. /\ Consistent(requests', sent, refused)
          /\ \A q \in requests' : ~(q.kind \in {"ping", "evacuate"})
          /\ \A q \in requests' : ~(q.kind = "deleteGks" /\ q.mounted)
          /\ \A q \in requests' : q.kind # "deleteGks" => q \in hud
      BY <1>1, <2>2, <3>1, GksPanelLeaves
    <3>3. TypeOK'
      BY <1>1, <2>1, <3>1, <3>2 DEF Inv, TypeOK, Consistent, mode
    <3>4. BusyIsReal'
      BY <2>1, <2>2, <3>1, <3>2, BusyMeansNext DEF Busy, Alone
    <3>5. EvacuationComplete' /\ Bookkept'
      BY <1>1, <2>1, <3>1, <3>2 DEF Inv, EvacuationComplete, Bookkept
    <3>6. QED
      BY <1>2, <3>3, <3>4, <3>5 DEF Inv
  <2>4. CASE g # None
    <3>1. requests' = hud /\ UNCHANGED <<isPinging, isEvacuating, isDeleting>> /\ rs = requests
      BY <2>1, <2>4 DEF GksPanelShows
    <3>2. TypeOK'
      BY <1>1, <2>1, <2>2, <3>1 DEF Inv, TypeOK, Consistent, mode
    <3>3. /\ \A kind \in {"ping", "evacuate", "deleteGks"} : Busy(hud, kind) <=> Busy(rs, kind)
          /\ ~Busy(hud, "deleteUav")
      BY <2>2 DEF Busy
    <3>4. Alone(hud)
      BY <2>2, <3>1, BusyMeans DEF Inv, Alone
    <3>5. BusyIsReal'
      BY <2>1, <2>2, <3>1, <3>3, <3>4, BusyMeans, BusyMeansNext DEF Inv
    <3>6. EvacuationComplete' /\ Bookkept'
      BY <1>1, <2>1, <2>2, <2>4, <3>1 DEF Inv, EvacuationComplete, Bookkept
    <3>7. QED
      BY <1>2, <3>2, <3>5, <3>6 DEF Inv
  <2>5. QED
    BY <2>3, <2>4
<1>5. QED
  BY <1>3, <1>4

LEMMA SelectionStep ==
    ASSUME Inv,
           \/ \E d \in Drones : HandleSelectDrone(d)
           \/ \E g \in Stations : SelectStation(g)
           \/ CloseGksPanel
    PROVE  Inv'
<1>1. CASE \E d \in Drones : HandleSelectDrone(d)
  BY <1>1, SelectInv DEF HandleSelectDrone
<1>2. CASE \E g \in Stations : SelectStation(g)
  BY <1>2, SelectInv DEF SelectStation
<1>3. CASE CloseGksPanel
  BY <1>3, SelectInv DEF CloseGksPanel, Inv, TypeOK
<1>4. QED
  BY <1>1, <1>2, <1>3

-----------------------------------------------------------------------------
(* The mode                                                                *)

LEMMA ModeStep ==
    ASSUME Inv,
           \/ \E m \in {"SPAWN_UAV", "SPAWN_GKS", "DRAW_ROUTE"} : ToggleMode(m)
           \/ \E c \in Maneuvers : ToggleManeuver(c)
    PROVE  Inv'
<1>1. UNCHANGED <<stagedWaypoints, selection, panels, requests, sent, refused>>
  BY DEF ToggleMode, ToggleManeuver
<1>2. interactionMode' \in Modes /\ pendingManeuver' \in Maneuvers \cup {None}
  BY DEF Inv, TypeOK, Modes, ToggleMode, ToggleManeuver
<1>3. ManeuverArmed'
  BY ManeuverArmedStep DEF Inv, Next
<1>4. TypeOK' /\ OneSelection' /\ EvacuationComplete' /\ Bookkept'
  BY <1>1, <1>2 DEF Inv, TypeOK, OneSelection, EvacuationComplete, Bookkept, selection, panels
<1>5. BusyIsReal'
  BY <1>1, BusyMeans, BusyMeansNext DEF Inv, selection, panels
<1>6. QED
  BY <1>3, <1>4, <1>5 DEF Inv

\* A request of the map, for a click or a mission, has no button.
LEMMA MapRequest ==
    ASSUME Inv, NEW kind \in {"spawn", "maneuver", "mission"},
           NEW of \in Drones \cup Stations \cup {None}, Send({Request(kind, of)})
    PROVE  /\ sent' = sent + 1 /\ sent' \in Nat
           /\ Consistent(requests', sent', refused)
           /\ \A k : k # kind => (Busy(requests', k) <=> Busy(requests, k))
           /\ \A r \in requests' : r \in requests \/ (r.kind = kind /\ r.number = sent + 1)
<1> DEFINE q == Request(kind, of)
<1>1. sent' = sent + 1 /\ requests' = requests \cup {q}
  BY DEF Send
<1>2. q \in RequestRecords /\ q.number = sent + 1 /\ q.mounted /\ q.kind = kind
  BY DEF Request, RequestRecords, Kinds, Inv, TypeOK
<1> HIDE DEF q
<1>3. sent \in Nat /\ Consistent(requests, sent, refused) /\ refused \subseteq 1..sent
  BY DEF Inv, TypeOK, Bookkept
<1>4. Consistent(requests', sent', refused)
  BY <1>1, <1>2, <1>3, SendConsistent
<1>5. QED
  BY <1>1, <1>2, <1>3, <1>4 DEF Busy

LEMMA ClickStep ==
    ASSUME Inv, ClickMap \/ DispatchMission
    PROVE  Inv'
<1>1. UNCHANGED <<interactionMode, pendingManeuver, selection, panels, refused>>
  BY DEF ClickMap, DispatchMission, mode
<1>2. stagedWaypoints' \in Nat
  BY DEF Inv, TypeOK, ClickMap, DispatchMission, mode
<1>3. CASE UNCHANGED <<requests, sent>>
  <2>1. TypeOK' /\ OneSelection' /\ ManeuverArmed' /\ EvacuationComplete' /\ Bookkept'
    BY <1>1, <1>2, <1>3
    DEF Inv, TypeOK, OneSelection, ManeuverArmed, EvacuationComplete, Bookkept, selection, panels
  <2>2. BusyIsReal'
    BY <1>1, <1>3, BusyMeans, BusyMeansNext DEF Inv, selection, panels
  <2>3. QED
    BY <2>1, <2>2 DEF Inv
<1>4. CASE \E kind \in {"spawn", "maneuver", "mission"}, of \in Drones \cup {None} :
             Send({Request(kind, of)})
  <2>1. PICK kind \in {"spawn", "maneuver", "mission"}, of \in Drones \cup {None} :
          Send({Request(kind, of)})
    BY <1>4
  <2>2. /\ sent' = sent + 1 /\ sent' \in Nat
        /\ Consistent(requests', sent', refused)
        /\ \A k : k # kind => (Busy(requests', k) <=> Busy(requests, k))
        /\ \A r \in requests' : r \in requests \/ (r.kind = kind /\ r.number = sent + 1)
    BY <2>1, MapRequest
  <2>3. TypeOK' /\ OneSelection' /\ ManeuverArmed' /\ EvacuationComplete' /\ Bookkept'
    BY <1>1, <1>2, <2>2
    DEF Inv, TypeOK, OneSelection, ManeuverArmed, EvacuationComplete, Bookkept, Consistent,
        selection, panels
  <2>4. Alone(requests')
    BY <2>2, BusyMeans DEF Inv, Alone
  <2>5. BusyIsReal'
    BY <1>1, <2>2, <2>4, BusyMeans, BusyMeansNext DEF Inv, selection, panels
  <2>6. QED
    BY <2>3, <2>5 DEF Inv
<1>5. QED
  BY <1>3, <1>4 DEF ClickMap, DispatchMission, Inv, TypeOK

\* The answer to a request of the map.
LEMMA AnswerModeStep ==
    ASSUME Inv, NEW r \in requests, AnswerMode(r)
    PROVE  Inv'
<1>1. requests' = requests \ {r} /\ r.kind \in {"spawn", "maneuver", "mission"}
      /\ UNCHANGED <<selection, panels, sent, refused>>
  BY DEF AnswerMode
<1>2. interactionMode' \in Modes /\ pendingManeuver' \in Maneuvers \cup {None}
      /\ stagedWaypoints' \in Nat
  BY DEF Inv, TypeOK, Modes, AnswerMode, mode
<1>3. ManeuverArmed'
  BY DEF Inv, ManeuverArmed, AnswerMode, mode
<1>4. TypeOK' /\ OneSelection' /\ EvacuationComplete' /\ Bookkept'
  BY <1>1, <1>2, FewerConsistent
  DEF Inv, TypeOK, OneSelection, EvacuationComplete, Bookkept, selection, panels
<1>5. \A kind \in {"deleteUav", "ping", "evacuate", "deleteGks"} :
        Busy(requests', kind) <=> Busy(requests, kind)
  BY <1>1 DEF Busy
<1>6. BusyIsReal'
  BY <1>1, <1>5, BusyMeans, BusyMeansNext DEF Inv, Alone, selection, panels
<1>7. QED
  BY <1>3, <1>4, <1>6 DEF Inv

-----------------------------------------------------------------------------
(* The buttons of the panels                                               *)

\* A button that is not busy sends a request of its kind, the only one.
LEMMA ButtonRequest ==
    ASSUME Inv, NEW kind \in {"deleteUav", "ping", "deleteGks"},
           NEW of \in Drones \cup Stations, kind = "deleteUav" => of \in Drones,
           ~Busy(requests, kind), Send({Request(kind, of)})
    PROVE  /\ sent' = sent + 1 /\ sent' \in Nat
           /\ Consistent(requests', sent', refused)
           /\ Busy(requests', kind) /\ Alone(requests')
           /\ \A k : k # kind => (Busy(requests', k) <=> Busy(requests, k))
           /\ \A r \in requests' :
                r \in requests \/ (r.kind = kind /\ r.number = sent + 1 /\ r.of = of)
<1> DEFINE q == Request(kind, of)
<1>1. sent' = sent + 1 /\ requests' = requests \cup {q}
  BY DEF Send
<1>2. q \in RequestRecords /\ q.number = sent + 1 /\ q.mounted /\ q.kind = kind /\ q.of = of
  BY DEF Request, RequestRecords, Kinds, Inv, TypeOK
<1> HIDE DEF q
<1>3. sent \in Nat /\ Consistent(requests, sent, refused) /\ refused \subseteq 1..sent
  BY DEF Inv, TypeOK, Bookkept
<1>4. Consistent(requests', sent', refused)
  BY <1>1, <1>2, <1>3, SendConsistent
<1>5. Alone(requests')
  BY <1>1, <1>2, BusyMeans DEF Inv, Alone, Busy
<1>6. QED
  BY <1>1, <1>2, <1>3, <1>4, <1>5 DEF Busy

LEMMA HandleDeleteUavStep == Inv /\ HandleDeleteUav => Inv'
<1> SUFFICES ASSUME Inv, HandleDeleteUav PROVE Inv'
  OBVIOUS
<1>1. ~Busy(requests, "deleteUav") /\ selectedDrone \in Drones
  BY BusyMeans DEF Inv, TypeOK, HandleDeleteUav
<1>2. /\ deleteState' = "PENDING"
      /\ UNCHANGED <<selection, mode, isPinging, isEvacuating, isDeleting, evacuation, refused>>
  BY DEF HandleDeleteUav
<1>3. /\ sent' = sent + 1 /\ sent' \in Nat
      /\ Consistent(requests', sent', refused)
      /\ Busy(requests', "deleteUav") /\ Alone(requests')
      /\ \A k : k # "deleteUav" => (Busy(requests', k) <=> Busy(requests, k))
      /\ \A r \in requests' :
           r \in requests \/ (r.kind = "deleteUav" /\ r.number = sent + 1 /\ r.of = selectedDrone)
  BY <1>1, ButtonRequest DEF HandleDeleteUav
<1>4. TypeOK' /\ OneSelection' /\ ManeuverArmed' /\ EvacuationComplete' /\ Bookkept'
  BY <1>2, <1>3 DEF Inv, TypeOK, OneSelection, ManeuverArmed, EvacuationComplete, Bookkept,
                    Consistent, selection, mode
<1>5. BusyIsReal'
  BY <1>2, <1>3, BusyMeans, BusyMeansNext DEF Inv, selection
<1>6. QED
  BY <1>4, <1>5 DEF Inv

LEMMA HandlePingStep == Inv /\ HandlePing => Inv'
<1> SUFFICES ASSUME Inv, HandlePing PROVE Inv'
  OBVIOUS
<1>1. ~Busy(requests, "ping") /\ selectedGks \in Stations
  BY BusyMeans DEF Inv, TypeOK, HandlePing
<1>2. /\ selectedGks # None /\ isPinging' = TRUE
      /\ UNCHANGED <<selection, mode, deleteState, isEvacuating, isDeleting, evacuation, refused>>
  BY DEF HandlePing
<1>3. /\ sent' = sent + 1 /\ sent' \in Nat
      /\ Consistent(requests', sent', refused)
      /\ Busy(requests', "ping") /\ Alone(requests')
      /\ \A k : k # "ping" => (Busy(requests', k) <=> Busy(requests, k))
      /\ \A r \in requests' :
           r \in requests \/ (r.kind = "ping" /\ r.number = sent + 1 /\ r.of = selectedGks)
  BY <1>1, ButtonRequest DEF HandlePing
<1>4. TypeOK' /\ OneSelection' /\ ManeuverArmed' /\ EvacuationComplete' /\ Bookkept'
  BY <1>2, <1>3 DEF Inv, TypeOK, OneSelection, ManeuverArmed, EvacuationComplete, Bookkept,
                    Consistent, selection, mode
<1>5. BusyIsReal'
  BY <1>2, <1>3, BusyMeans, BusyMeansNext DEF Inv, selection
<1>6. QED
  BY <1>4, <1>5 DEF Inv

LEMMA HandleDeleteStep == Inv /\ HandleDelete => Inv'
<1> SUFFICES ASSUME Inv, HandleDelete PROVE Inv'
  OBVIOUS
<1>1. ~Busy(requests, "deleteGks") /\ selectedGks \in Stations
  BY BusyMeans DEF Inv, TypeOK, HandleDelete
<1>2. /\ selectedGks # None /\ isDeleting' = TRUE
      /\ UNCHANGED <<selection, mode, deleteState, isPinging, isEvacuating, evacuation, refused>>
  BY DEF HandleDelete
<1>3. /\ sent' = sent + 1 /\ sent' \in Nat
      /\ Consistent(requests', sent', refused)
      /\ Busy(requests', "deleteGks") /\ Alone(requests')
      /\ \A k : k # "deleteGks" => (Busy(requests', k) <=> Busy(requests, k))
      /\ \A r \in requests' :
           r \in requests \/ (r.kind = "deleteGks" /\ r.number = sent + 1 /\ r.of = selectedGks)
  BY <1>1, ButtonRequest DEF HandleDelete
<1>4. TypeOK' /\ OneSelection' /\ ManeuverArmed' /\ EvacuationComplete' /\ Bookkept'
  BY <1>2, <1>3 DEF Inv, TypeOK, OneSelection, ManeuverArmed, EvacuationComplete, Bookkept,
                    Consistent, selection, mode
<1>5. BusyIsReal'
  BY <1>2, <1>3, BusyMeans, BusyMeansNext DEF Inv, selection
<1>6. QED
  BY <1>4, <1>5 DEF Inv

LEMMA HandleEvacuateStep == Inv /\ HandleEvacuate => Inv'
<1> SUFFICES ASSUME Inv, HandleEvacuate PROVE Inv'
  OBVIOUS
<1>1. ~Busy(requests, "evacuate") /\ selectedGks # None
      /\ UNCHANGED <<selection, mode, deleteState, isPinging, isDeleting, refused>>
  BY BusyMeans DEF Inv, HandleEvacuate
<1>2. sent \in Nat /\ Consistent(requests, sent, refused) /\ refused \subseteq 1..sent
  BY DEF Inv, TypeOK, Bookkept
<1>3. CASE evacuation' = 0 /\ UNCHANGED <<isEvacuating, requests, sent>>
  <2>1. TypeOK' /\ OneSelection' /\ ManeuverArmed' /\ EvacuationComplete' /\ Bookkept'
    BY <1>1, <1>3 DEF Inv, TypeOK, OneSelection, ManeuverArmed, EvacuationComplete, Bookkept,
                      selection, mode
  <2>2. BusyIsReal'
    BY <1>1, <1>3, BusyMeans, BusyMeansNext DEF Inv, selection
  <2>3. QED
    BY <2>1, <2>2 DEF Inv
<1>4. CASE /\ isEvacuating' = TRUE /\ UNCHANGED evacuation
           /\ \E D \in (SUBSET Drones) \ {{}} : Send({Request("evacuate", d) : d \in D})
  <2>1. PICK D \in (SUBSET Drones) \ {{}} : Send({Request("evacuate", d) : d \in D})
    BY <1>4
  <2> DEFINE qs == {Request("evacuate", d) : d \in D}
  <2>2. sent' = sent + 1 /\ requests' = requests \cup qs
    BY <2>1 DEF Send
  <2>3. /\ qs \subseteq RequestRecords /\ qs # {}
        /\ \A q \in qs : q.number = sent + 1 /\ q.mounted /\ q.kind = "evacuate"
    <3>1. \A d \in Drones :
            /\ Request("evacuate", d) \in RequestRecords
            /\ Request("evacuate", d).number = sent + 1
            /\ Request("evacuate", d).mounted
            /\ Request("evacuate", d).kind = "evacuate"
      BY <1>2 DEF Request, RequestRecords, Kinds
    <3>2. D \subseteq Drones /\ D # {}
      OBVIOUS
    <3>3. QED
      BY <3>1, <3>2
  <2> HIDE DEF qs
  <2>4. Consistent(requests', sent', refused)
    BY <1>2, <2>2, <2>3, EvacuateConsistent
  <2>5. TypeOK' /\ OneSelection' /\ ManeuverArmed' /\ EvacuationComplete' /\ Bookkept'
    BY <1>1, <1>2, <1>4, <2>2, <2>3, <2>4
    DEF Inv, TypeOK, OneSelection, ManeuverArmed, EvacuationComplete, Bookkept, selection, mode
  <2>6. /\ Busy(requests', "evacuate") /\ Alone(requests')
        /\ \A k : k # "evacuate" => (Busy(requests', k) <=> Busy(requests, k))
    BY <1>1, <2>2, <2>3, BusyMeans DEF Inv, Busy, Alone
  <2>7. BusyIsReal'
    BY <1>1, <1>4, <2>2, <2>3, <2>6, BusyMeans, BusyMeansNext DEF Inv, selection
  <2>8. QED
    BY <2>5, <2>7 DEF Inv
<1>5. QED
  BY <1>3, <1>4 DEF HandleEvacuate

-----------------------------------------------------------------------------
(* The answers                                                             *)

PanelTypes ==
    /\ deleteState \in {"IDLE", "PENDING", "FAILED"}
    /\ isPinging \in BOOLEAN /\ isEvacuating \in BOOLEAN /\ isDeleting \in BOOLEAN
    /\ evacuation \in Nat /\ refused \subseteq Nat

LEMMA PanelsTyped == Inv => PanelTypes
BY DEF Inv, TypeOK, PanelTypes

\* Answers of the kind of r take r, or every request of that kind, away.
LEMMA AnswerLeaves ==
    ASSUME Inv, NEW r \in requests, requests' \subseteq requests,
           \A q \in requests : q.kind # r.kind => q \in requests',
           selection' = selection, mode' = mode, sent' = sent
    PROVE  /\ \A k : k # r.kind => (Busy(requests', k) <=> Busy(requests, k))
           /\ Alone(requests')
           /\ PanelTypes' => TypeOK'
           /\ OneSelection' /\ ManeuverArmed'
           /\ Consistent(requests', sent', refused)
<1>1. Consistent(requests', sent', refused)
  BY FewerConsistent DEF Inv, TypeOK, Bookkept
<1>2. Alone(requests')
  BY BusyMeans DEF Inv, Alone
<1>3. QED
  BY <1>1, <1>2 DEF Inv, TypeOK, PanelTypes, OneSelection, ManeuverArmed, Busy, selection, mode

\* A request with a button is the only one of its panel and kind, unless it is
\* one command of an evacuation.
LEMMA LastOne ==
    ASSUME Inv, NEW r \in requests, r.kind \in {"deleteUav", "ping", "deleteGks"}, r.mounted
    PROVE  ~Busy(requests \ {r}, r.kind)
BY BusyMeans DEF Inv, Bookkept, Consistent, Alone, Busy

LEMMA AnswerPingStep ==
    ASSUME Inv, NEW r \in requests, AnswerPing(r)
    PROVE  Inv'
<1>1. /\ r.kind = "ping" /\ requests' = requests \ {r}
      /\ isPinging' = FALSE /\ evacuation' \in {evacuation, 0}
      /\ UNCHANGED <<selection, mode, deleteState, isEvacuating, isDeleting, sent, refused>>
  BY DEF AnswerPing
<1>2. r.mounted
  BY <1>1 DEF Inv, Bookkept, Consistent
<1>3. /\ \A k : k # "ping" => (Busy(requests', k) <=> Busy(requests, k))
      /\ Alone(requests') /\ TypeOK' /\ OneSelection' /\ ManeuverArmed'
      /\ Consistent(requests', sent', refused)
  <2>1. PanelTypes'
    <3>1. PanelTypes
      BY PanelsTyped
    <3>2. evacuation' \in Nat
      BY <1>1, <3>1 DEF PanelTypes
    <3>3. isPinging' \in BOOLEAN
      BY <1>1
    <3>4. QED
      BY <1>1, <3>1, <3>2, <3>3 DEF PanelTypes
  <2>2. requests' \subseteq requests /\ \A q \in requests : q.kind # r.kind => q \in requests'
    BY <1>1
  <2>3. QED
    BY <1>1, <2>1, <2>2, AnswerLeaves
<1>4. ~Busy(requests', "ping")
  BY <1>1, <1>2, LastOne
<1>5. BusyIsReal'
  BY <1>1, <1>3, <1>4, BusyMeans, BusyMeansNext DEF Inv, selection
<1>6. EvacuationComplete' /\ Bookkept'
  BY <1>1, <1>3 DEF Inv, TypeOK, EvacuationComplete, Bookkept, selection
<1>7. QED
  BY <1>3, <1>5, <1>6 DEF Inv

LEMMA AnswerEvacuateStep ==
    ASSUME Inv, NEW r \in requests, AnswerEvacuate(r)
    PROVE  Inv'
<1>1. /\ r.kind = "evacuate"
      /\ UNCHANGED <<selection, mode, deleteState, isPinging, isDeleting, sent>>
  BY DEF AnswerEvacuate
<1>2. /\ r.mounted /\ r.number \in 1..sent /\ r.number \notin refused
      /\ Busy(requests, "evacuate") /\ isEvacuating
      /\ sent \in Nat /\ refused \subseteq 1..sent
  BY <1>1, BusyMeans DEF Inv, TypeOK, Bookkept, Consistent, Busy
<1>3. \A q \in requests : q.kind = "evacuate" <=> q \in Batch(r)
  BY <1>1, BusyMeans DEF Inv, Alone, Bookkept, Consistent, Batch
<1>4. CASE /\ requests' = requests \ {r} /\ Batch(r) = {r}
           /\ isEvacuating' = FALSE /\ evacuation' = r.number /\ UNCHANGED refused
  <2>1. /\ \A k : k # "evacuate" => (Busy(requests', k) <=> Busy(requests, k))
        /\ Alone(requests') /\ TypeOK' /\ OneSelection' /\ ManeuverArmed'
        /\ Consistent(requests', sent', refused)
    <3>1. PanelTypes'
      <4>1. PanelTypes /\ r.number \in Nat
        BY <1>2, PanelsTyped
      <4>2. QED
        BY <1>1, <1>4, <4>1 DEF PanelTypes
    <3>2. requests' \subseteq requests /\ \A q \in requests : q.kind # r.kind => q \in requests'
      BY <1>1, <1>3, <1>4
    <3>3. QED
      BY <1>1, <3>1, <3>2, AnswerLeaves
  <2>2. \A q \in requests' : q.kind # "evacuate"
    BY <1>3, <1>4
  <2>3. BusyIsReal'
    BY <1>1, <1>4, <2>1, <2>2, BusyMeans, BusyMeansNext DEF Inv, Busy, selection
  <2>4. selectedGks # None
    BY <1>2 DEF Inv, Bookkept
  <2>5. EvacuationComplete' /\ Bookkept'
    BY <1>1, <1>2, <1>4, <2>1, <2>2, <2>4 DEF Inv, EvacuationComplete, Bookkept, selection
  <2>6. QED
    BY <2>1, <2>3, <2>5 DEF Inv
<1>5. CASE /\ requests' = requests \ {r} /\ Batch(r) # {r}
           /\ UNCHANGED <<isEvacuating, evacuation, refused>>
  <2>1. /\ \A k : k # "evacuate" => (Busy(requests', k) <=> Busy(requests, k))
        /\ Alone(requests') /\ TypeOK' /\ OneSelection' /\ ManeuverArmed'
        /\ Consistent(requests', sent', refused)
    <3>1. PanelTypes'
      <4>1. PanelTypes /\ r.number \in Nat
        BY <1>2, PanelsTyped
      <4>2. QED
        BY <1>1, <1>5, <4>1 DEF PanelTypes
    <3>2. requests' \subseteq requests /\ \A q \in requests : q.kind # r.kind => q \in requests'
      BY <1>1, <1>3, <1>5
    <3>3. QED
      BY <1>1, <3>1, <3>2, AnswerLeaves
  <2>2. PICK q \in Batch(r) : q # r
    BY <1>1, <1>5 DEF Batch
  <2>3. q.mounted /\ q \in requests' /\ q.kind = "evacuate"
    BY <1>5, <2>2 DEF Batch, Inv, Bookkept, Consistent
  <2>4. Busy(requests', "evacuate")
    BY <2>3 DEF Busy
  <2>5. BusyIsReal'
    BY <1>1, <1>2, <1>5, <2>1, <2>4, BusyMeans, BusyMeansNext DEF Inv, selection
  <2>6. EvacuationComplete' /\ Bookkept'
    BY <1>1, <1>5, <2>1 DEF Inv, EvacuationComplete, Bookkept, selection
  <2>7. QED
    BY <2>1, <2>5, <2>6 DEF Inv
<1>6. CASE /\ requests' = requests \ Batch(r)
           /\ isEvacuating' = FALSE /\ evacuation' = 0
           /\ refused' = refused \cup {r.number}
  <2>1. /\ \A k : k # "evacuate" => (Busy(requests', k) <=> Busy(requests, k))
        /\ Alone(requests') /\ TypeOK' /\ OneSelection' /\ ManeuverArmed'
        /\ Consistent(requests', sent', refused)
    <3>1. PanelTypes'
      <4>1. PanelTypes /\ r.number \in Nat
        BY <1>2, PanelsTyped
      <4>2. QED
        BY <1>1, <1>6, <4>1 DEF PanelTypes
    <3>2. requests' \subseteq requests /\ \A q \in requests : q.kind # r.kind => q \in requests'
      BY <1>1, <1>3, <1>6
    <3>3. QED
      BY <1>1, <3>1, <3>2, AnswerLeaves
  <2>2. \A q \in requests' : q.kind # "evacuate"
    BY <1>3, <1>6
  <2>3. BusyIsReal'
    BY <1>1, <1>6, <2>1, <2>2, BusyMeans, BusyMeansNext DEF Inv, Busy, selection
  <2>4. Consistent(requests', sent', refused')
    BY <1>6, <2>1, <2>2 DEF Consistent
  <2>5. selectedGks # None
    BY <1>2 DEF Inv, Bookkept
  <2>6. EvacuationComplete'
    BY <1>6 DEF EvacuationComplete
  <2>7. refused' \subseteq 1..sent' /\ evacuation' \in 0..sent'
    <3>1. refused' \subseteq 1..sent
      BY <1>2, <1>6
    <3>2. evacuation' \in 0..sent
      BY <1>2, <1>6
    <3>3. sent' = sent
      BY <1>1
    <3>4. QED
      BY <3>1, <3>2, <3>3
  <2>8. selectedGks' # None
    BY <1>1, <2>5 DEF selection
  <2>9. Bookkept'
    BY <2>4, <2>7, <2>8 DEF Bookkept
  <2>10. QED
    BY <2>1, <2>3, <2>6, <2>9 DEF Inv
<1>7. QED
  BY <1>4, <1>5, <1>6 DEF AnswerEvacuate

\* A deletion that failed leaves the selection.
LEMMA AnswerDeleteUavStep ==
    ASSUME Inv, NEW r \in requests, AnswerDeleteUav(r)
    PROVE  Inv'
<1>1. r.kind = "deleteUav" /\ r.of # None /\ mode' = mode /\ sent' = sent /\ refused' = refused
  BY DEF AnswerDeleteUav, Inv, Bookkept, Consistent
<1>2. r.mounted => r.of = selectedDrone
  BY <1>1, BusyMeans DEF Inv
<1>3. CASE selectedGks = None /\ Select(None, None, requests \ {r})
  BY <1>1, <1>2, <1>3, SelectInv
<1>4. CASE /\ selectedGks # None /\ requests' = requests \ {r}
           /\ selectedDrone' = None /\ UNCHANGED <<selectedGks, panels>>
  <2>1. selectedDrone = None
    BY <1>4 DEF Inv, OneSelection
  <2>2. ~r.mounted
    BY <1>1, <1>2, <2>1
  <2>3. PanelTypes' /\ UNCHANGED <<selection, panels>>
    <3>1. PanelTypes
      BY PanelsTyped
    <3>2. QED
      BY <1>1, <1>4, <2>1, <3>1 DEF PanelTypes, panels, selection
  <2>4. /\ \A k : k # "deleteUav" => (Busy(requests', k) <=> Busy(requests, k))
        /\ Alone(requests') /\ TypeOK' /\ OneSelection' /\ ManeuverArmed'
        /\ Consistent(requests', sent', refused)
    BY <1>1, <1>4, <2>3, AnswerLeaves
  <2>5. Busy(requests', "deleteUav") <=> Busy(requests, "deleteUav")
    BY <1>4, <2>2 DEF Busy
  <2>6. BusyIsReal'
    BY <1>4, <2>3, <2>4, <2>5, BusyMeans, BusyMeansNext DEF Inv, selection, panels
  <2>7. EvacuationComplete' /\ Bookkept'
    BY <1>1, <1>4, <2>3, <2>4 DEF Inv, EvacuationComplete, Bookkept, selection, panels
  <2>8. QED
    BY <2>4, <2>6, <2>7 DEF Inv
<1>5. CASE /\ deleteState' = (IF r.mounted THEN "FAILED" ELSE deleteState)
           /\ requests' = requests \ {r}
           /\ UNCHANGED <<selection, isPinging, isEvacuating, isDeleting, evacuation>>
  <2>1. PanelTypes'
    <3>1. PanelTypes
      BY PanelsTyped
    <3>2. QED
      BY <1>1, <1>5, <3>1 DEF PanelTypes
  <2>2. selection' = selection
    BY <1>5
  <2>3. /\ \A k : k # "deleteUav" => (Busy(requests', k) <=> Busy(requests, k))
        /\ Alone(requests') /\ TypeOK' /\ OneSelection' /\ ManeuverArmed'
        /\ Consistent(requests', sent', refused)
    BY <1>1, <1>5, <2>1, <2>2, AnswerLeaves
  <2>4. deleteState' = "PENDING" <=> Busy(requests', "deleteUav")
    <3>1. CASE r.mounted
      BY <1>1, <1>5, <3>1, LastOne
    <3>2. CASE ~r.mounted
      BY <1>5, <3>2, BusyMeans DEF Inv, Busy
    <3>3. QED
      BY <3>1, <3>2
  <2>5. BusyIsReal'
    BY <1>5, <2>3, <2>4, BusyMeans, BusyMeansNext DEF Inv, selection
  <2>6. EvacuationComplete' /\ Bookkept'
    BY <1>1, <1>5, <2>3 DEF Inv, EvacuationComplete, Bookkept, selection
  <2>7. QED
    BY <2>3, <2>5, <2>6 DEF Inv
<1>6. QED
  BY <1>3, <1>4, <1>5 DEF AnswerDeleteUav

LEMMA AnswerDeleteStep ==
    ASSUME Inv, NEW r \in requests, AnswerDelete(r)
    PROVE  Inv'
<1>1. r.kind = "deleteGks" /\ mode' = mode /\ sent' = sent /\ refused' = refused
  BY DEF AnswerDelete
<1>2. r.mounted => selectedGks # None
  BY <1>1, BusyMeans DEF Inv, Bookkept, Busy
<1>3. CASE Select(selectedDrone, None, requests \ {r})
  BY <1>1, <1>2, <1>3, SelectInv DEF Inv, TypeOK
<1>4. CASE /\ isDeleting' = (isDeleting /\ ~r.mounted)
           /\ evacuation' = (IF r.mounted THEN 0 ELSE evacuation)
           /\ requests' = requests \ {r}
           /\ UNCHANGED <<selection, deleteState, isPinging, isEvacuating>>
  <2>1. PanelTypes'
    <3>1. PanelTypes
      BY PanelsTyped
    <3>2. isDeleting' \in BOOLEAN
      BY <1>4
    <3>3. evacuation' \in Nat
      BY <1>4, <3>1 DEF PanelTypes
    <3>4. QED
      BY <1>1, <1>4, <3>1, <3>2, <3>3 DEF PanelTypes
  <2>2. selection' = selection
    BY <1>4
  <2>3. /\ \A k : k # "deleteGks" => (Busy(requests', k) <=> Busy(requests, k))
        /\ Alone(requests') /\ TypeOK' /\ OneSelection' /\ ManeuverArmed'
        /\ Consistent(requests', sent', refused)
    BY <1>1, <1>4, <2>1, <2>2, AnswerLeaves
  <2>4. isDeleting' <=> Busy(requests', "deleteGks")
    <3>1. CASE r.mounted
      BY <1>1, <1>4, <3>1, LastOne
    <3>2. CASE ~r.mounted
      BY <1>4, <3>2, BusyMeans DEF Inv, Busy
    <3>3. QED
      BY <3>1, <3>2
  <2>5. BusyIsReal'
    BY <1>4, <2>3, <2>4, BusyMeans, BusyMeansNext DEF Inv, selection
  <2>6. evacuation' \in {0, evacuation}
    BY <1>4
  <2>7. EvacuationComplete' /\ Bookkept'
    BY <1>1, <1>4, <2>3, <2>6 DEF Inv, TypeOK, EvacuationComplete, Bookkept, selection
  <2>8. QED
    BY <2>3, <2>5, <2>7 DEF Inv
<1>5. QED
  BY <1>3, <1>4 DEF AnswerDelete

LEMMA LeaveMapStep == Inv /\ LeaveMap => Inv'
<1> SUFFICES ASSUME Inv, LeaveMap PROVE Inv'
  OBVIOUS
<1>1. TypeOK' /\ OneSelection' /\ ManeuverArmed'
  BY DEF LeaveMap, Inv, TypeOK, Modes, OneSelection, ManeuverArmed
<1>2. EvacuationComplete'
  BY DEF LeaveMap, EvacuationComplete
<1>3. Bookkept'
  <2>1. sent \in Nat /\ refused \subseteq 1..sent /\ sent' = sent /\ refused' = refused
    BY DEF LeaveMap, Inv, TypeOK, Bookkept
  <2>2. Consistent(requests', sent', refused')
    BY DEF LeaveMap, Consistent
  <2>3. QED
    BY <2>1, <2>2 DEF LeaveMap, Bookkept
<1>4. BusyIsReal'
  BY BusyMeansNext DEF LeaveMap, Busy, Alone
<1>5. QED
  BY <1>1, <1>2, <1>3, <1>4 DEF Inv

-----------------------------------------------------------------------------
(* The theorems                                                            *)

LEMMA StepInv == Inv /\ [Next]_vars => Inv'
<1> SUFFICES ASSUME Inv, [Next]_vars PROVE Inv'
  OBVIOUS
<1>1. CASE \E r \in requests : Answer(r)
  BY <1>1, AnswerModeStep, AnswerDeleteUavStep, AnswerPingStep, AnswerEvacuateStep, AnswerDeleteStep
  DEF Answer
<1>2. CASE UNCHANGED vars
  <2>1. TypeOK' /\ OneSelection' /\ ManeuverArmed' /\ EvacuationComplete' /\ Bookkept'
    BY <1>2 DEF vars, Inv, TypeOK, OneSelection, ManeuverArmed, EvacuationComplete, Bookkept,
                selection, mode, panels
  <2>2. BusyIsReal'
    BY <1>2, BusyMeans, BusyMeansNext DEF Inv, vars, selection, panels
  <2>3. QED
    BY <2>1, <2>2 DEF Inv
<1>3. QED
  BY <1>1, <1>2, SelectionStep, ModeStep, ClickStep, HandleDeleteUavStep, HandlePingStep,
     HandleEvacuateStep, HandleDeleteStep, LeaveMapStep
  DEF Next

LEMMA SpecInv == Spec => []Inv
BY InitInv, StepInv, PTL DEF Spec

\* Every variable keeps its range.
THEOREM TypeCorrect == Spec => []TypeOK
<1>1. Inv => TypeOK
  BY DEF Inv
<1>2. QED
  BY <1>1, SpecInv, PTL

\* A button is busy exactly while a request of the panel on the screen is under
\* way: the selection, a failed answer or another panel's answer never leave one
\* disabled, and no request is sent twice by one button.
THEOREM BusyStaysReal == Spec => []BusyIsReal
<1>1. Inv => BusyIsReal
  BY DEF Inv
<1>2. QED
  BY <1>1, SpecInv, PTL

\* "Evacuated" is said only when every command of that evacuation was accepted.
THEOREM EvacuationIsComplete == Spec => []EvacuationComplete
<1>1. Inv => EvacuationComplete
  BY DEF Inv
<1>2. QED
  BY <1>1, SpecInv, PTL
=============================================================================
