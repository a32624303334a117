------------------------------- MODULE UiProofs -----------------------------
(***************************************************************************)
(* Proofs about the page's connection and the operator's terminal, for any *)
(* number of drones, events and reloads.                                   *)
(*                                                                         *)
(* The connection: there is always exactly one chain of attempts, and the  *)
(* footer never claims a link that is not there.                           *)
(*                                                                         *)
(* The terminal: the lines of the log have distinct identifiers, a drone   *)
(* is announced once, the target chosen stays one the list offers, and     *)
(* what a reload would lose is about to be saved.  The invariant (Good) is *)
(* one of a whole state and of the number of identifiers drawn, so it      *)
(* holds of what is shown, of what is saved, and of what a reload makes of *)
(* it: lines are cut from the front only, the list of drones only grows,   *)
(* an identifier drawn is above all those in the log, and the history      *)
(* answer leaves out the events whose identifier is in the log already.    *)
(***************************************************************************)
EXTENDS UiConnection, TerminalStore, FiniteSetTheorems, SequenceTheorems, TLAPS

-----------------------------------------------------------------------------
(* The connection of the page. *)

\* OneChain and FooterTruthful need each other only through hub and starting:
\* together with the types they are inductive.
PageInv == PageTypeOK /\ OneChain /\ FooterTruthful

LEMMA PageInitInv == PageInit => PageInv
BY DEF PageInit, PageInv, PageTypeOK, OneChain, FooterTruthful, Guarded

\* Loading a document starts from a state the invariant allows.
LEMMA LoadInv ==
    ASSUME PageInv, NEW p \in {"login", "app", "crashed"}, Load(p),
           token' \in {"none", "valid", "expired"}, reachable' = reachable
    PROVE  PageInv'
BY DEF PageInv, PageTypeOK, OneChain, FooterTruthful, Load

LEMMA PageStepInv == PageInv /\ [PageNext]_pageVars => PageInv'
<1> SUFFICES ASSUME PageInv, [PageNext]_pageVars PROVE PageInv'
  OBVIOUS
<1> USE DEF PageInv, PageTypeOK, OneChain, FooterTruthful
<1>1. CASE StartSucceeds
  BY <1>1 DEF StartSucceeds, Shown, Accepted
<1>2. CASE StartFails
  BY <1>2 DEF StartFails, Shown
<1>3. CASE RetryTimerFires
  BY <1>3 DEF RetryTimerFires, StartConnection
<1>4. CASE CloseTimerFires
  BY <1>4 DEF CloseTimerFires, StartConnection, Shown
<1>5. CASE OnReconnecting \/ OnReconnected \/ OnClose
  BY <1>5 DEF OnReconnecting, OnReconnected, OnClose
<1>6. CASE Render \/ HandleLogin \/ LoginRefused \/ Crash
  BY <1>6 DEF Render, HandleLogin, LoginRefused, Crash, connection
<1>7. CASE LoginAccepted
  BY <1>7, LoadInv DEF LoginAccepted
<1>8. CASE HandleLogout
  BY <1>8, LoadInv DEF HandleLogout
<1>9. CASE ReloadPage
  BY <1>9, LoadInv DEF ReloadPage, Guarded
<1>10. CASE Expire \/ OtherTab \/ NetworkChanges
  BY <1>10 DEF Expire, OtherTab, NetworkChanges, connection
<1>11. CASE UNCHANGED pageVars
  BY <1>11 DEF pageVars
<1>12. QED
  BY <1>1, <1>2, <1>3, <1>4, <1>5, <1>6, <1>7, <1>8, <1>9, <1>10, <1>11 DEF PageNext

LEMMA PageSpecInv == PageSpec => []PageInv
BY PageInitInv, PageStepInv, PTL DEF PageSpec

\* Every variable keeps its range.
THEOREM PageTypeCorrect == PageSpec => []PageTypeOK
<1>1. PageInv => PageTypeOK
  BY DEF PageInv
<1>2. QED
  BY <1>1, PageSpecInv, PTL

\* While the connection is down exactly one timer will start it again, otherwise
\* none: the retries of startConnection and of onClose never multiply and never
\* all end, however often the connection is lost, refused or reloaded.
THEOREM ChainIsOne == PageSpec => []OneChain
<1>1. PageInv => OneChain
  BY DEF PageInv
<1>2. QED
  BY <1>1, PageSpecInv, PTL

\* The footer says connected, reconnecting or connecting only while it is so.
THEOREM FooterIsTruthful == PageSpec => []FooterTruthful
<1>1. PageInv => FooterTruthful
  BY DEF PageInv
<1>2. QED
  BY <1>1, PageSpecInv, PTL

-----------------------------------------------------------------------------
(* The terminal store. *)

\* No two lines of a log have one identifier, a drone is announced by one line,
\* and only a listed one; random identifiers have all been drawn.
LogOK(log, drones, drawn) ==
    /\ \A i, j \in 1..Len(log) : i # j => log[i].id # log[j].id
    /\ \A i, j \in 1..Len(log) :
         log[i].kind = "new" /\ log[j].kind = "new" /\ log[i].of = log[j].of => i = j
    /\ \A i \in 1..Len(log) : log[i].kind = "new" => log[i].of \in drones
    /\ \A i \in 1..Len(log) : log[i].id[1] = "uid" => log[i].id[2] <= drawn

\* What holds of the state and of what is saved of one.
Good(s, drawn) ==
    /\ s \in States
    /\ Len(s.logs) >= 1 /\ Len(s.logs) <= MaxLogCount
    /\ s.target \in {ALL} \cup s.activeDrones
    /\ LogOK(s.logs, s.activeDrones, drawn)

EventsInv ==
    /\ persistTimer \in BOOLEAN /\ writeFailed \in BOOLEAN /\ historyAsked \in BOOLEAN
    /\ uids \in Nat
    /\ happened \subseteq Events /\ wire \subseteq happened
    /\ logged \subseteq Drones /\ counted \subseteq Drones \cup {None}

StoreInv ==
    /\ Good(state, uids)
    /\ storage = None \/ Good(storage, uids)
    /\ PersistPending

Inv == EventsInv /\ StoreInv

LEMMA Constants ==
    /\ MaxLogCount \in Nat /\ MaxLogCount >= 1 /\ MaxUids \in Nat /\ MaxEvents \in Nat
    /\ ALL \notin Drones /\ None \notin Drones /\ None \notin States
    /\ \A e \in Events : SourceOf[e] \in Drones \cup {None}
BY TerminalAssumption

\* The end of a log keeps what is known of its lines.
LEMMA NewestPart ==
    ASSUME NEW log \in Seq(LogLine), Len(log) >= 1
    PROVE  /\ Newest(log) \in Seq(LogLine)
           /\ Len(Newest(log)) >= 1 /\ Len(Newest(log)) <= MaxLogCount
           /\ \E k \in Nat : \A i \in 1..Len(Newest(log)) :
                i + k \in 1..Len(log) /\ Newest(log)[i] = log[i + k]
<1> DEFINE k == IF Len(log) > MaxLogCount THEN Len(log) - MaxLogCount ELSE 0
           r == SubSeq(log, k + 1, Len(log))
<1>1. Len(log) \in Nat /\ k \in Nat /\ Len(log) - k >= 1 /\ Len(log) - k <= MaxLogCount
  BY Constants
<1>2. Newest(log) = r
  BY Constants DEF Newest
<1> HIDE DEF k
<1>3. \A i \in (k + 1)..Len(log) : log[i] \in LogLine
  BY <1>1
<1>4. /\ r \in Seq(LogLine) /\ Len(r) = Len(log) - k
      /\ \A i \in 1..(Len(log) - k) : r[i] = log[i + k]
  <2>1. k + 1 \in Int /\ Len(log) \in Int
    BY <1>1
  <2>2. r \in Seq(LogLine)
        /\ Len(r) = (IF k + 1 <= Len(log) THEN Len(log) - (k + 1) + 1 ELSE 0)
        /\ \A i \in 1..(Len(log) - (k + 1) + 1) : r[i] = log[k + 1 + i - 1]
    BY <1>3, <2>1, SubSeqProperties
  <2>3. Len(log) - (k + 1) + 1 = Len(log) - k
    BY <1>1
  <2>4. \A i \in 1..(Len(log) - k) : k + 1 + i - 1 = i + k
    BY <1>1
  <2>5. k + 1 <= Len(log)
    BY <1>1
  <2> HIDE DEF r
  <2>6. Len(r) = Len(log) - k
    BY <2>2, <2>3, <2>5
  <2>7. \A i \in 1..(Len(log) - k) : r[i] = log[i + k]
    BY <2>2, <2>3, <2>4
  <2> QED
    BY <2>2, <2>6, <2>7
<1> HIDE DEF r
<1>5. Len(r) >= 1 /\ Len(r) <= MaxLogCount
  BY <1>1, <1>4, Constants
<1>6. \A i \in 1..Len(r) : i + k \in 1..Len(log) /\ r[i] = log[i + k]
  BY <1>1, <1>4
<1> QED
  BY <1>1, <1>2, <1>4, <1>5, <1>6

\* Lines that are new in every respect may be added.
LEMMA LogExtended ==
    ASSUME NEW log \in Seq(LogLine), NEW more \in Seq(LogLine), Len(log) >= 1,
           NEW drones, NEW all, drones \subseteq all,
           NEW drawn \in Nat, NEW n \in Nat, drawn <= n,
           LogOK(log, drones, drawn), LogOK(more, all, n),
           \A i \in 1..Len(log), j \in 1..Len(more) :
             /\ log[i].id # more[j].id
             /\ log[i].kind = "new" /\ more[j].kind = "new" => log[i].of # more[j].of
    PROVE  /\ Newest(log \o more) \in Seq(LogLine)
           /\ Len(Newest(log \o more)) >= 1 /\ Len(Newest(log \o more)) <= MaxLogCount
           /\ LogOK(Newest(log \o more), all, n)
<1> DEFINE whole == log \o more
           end == Newest(whole)
<1>1. /\ whole \in Seq(LogLine) /\ Len(whole) = Len(log) + Len(more)
      /\ \A i \in 1..(Len(log) + Len(more)) :
           whole[i] = IF i <= Len(log) THEN log[i] ELSE more[i - Len(log)]
  BY ConcatProperties
<1>2. Len(log) \in Nat /\ Len(more) \in Nat
  OBVIOUS
<1> HIDE DEF whole
<1>3. \A i \in 1..Len(whole) :
        \/ i \in 1..Len(log) /\ whole[i] = log[i]
        \/ i - Len(log) \in 1..Len(more) /\ whole[i] = more[i - Len(log)]
  BY <1>1, <1>2
<1>4. \A i \in 1..Len(whole) : whole[i].id \in Ids
  <2>1. \A i \in 1..Len(whole) : whole[i] \in LogLine
    BY <1>1, ElementOfSeq
  <2> QED
    BY <2>1 DEF LogLine
<1>5. LogOK(whole, all, n)
  <2>1. ASSUME NEW i \in 1..Len(whole), NEW j \in 1..Len(whole), i # j
        PROVE  /\ whole[i].id # whole[j].id
               /\ whole[i].kind = "new" /\ whole[j].kind = "new" => whole[i].of # whole[j].of
    <3>1. CASE i \in 1..Len(log) /\ whole[i] = log[i] /\ j \in 1..Len(log) /\ whole[j] = log[j]
      BY <2>1, <3>1 DEF LogOK
    <3>2. CASE /\ i - Len(log) \in 1..Len(more) /\ whole[i] = more[i - Len(log)]
               /\ j - Len(log) \in 1..Len(more) /\ whole[j] = more[j - Len(log)]
      <4>1. i - Len(log) # j - Len(log)
        BY <2>1, <1>2
      <4> QED
        BY <3>2, <4>1 DEF LogOK
    <3>3. CASE /\ i \in 1..Len(log) /\ whole[i] = log[i]
               /\ j - Len(log) \in 1..Len(more) /\ whole[j] = more[j - Len(log)]
      BY <3>3
    <3>4. CASE /\ i - Len(log) \in 1..Len(more) /\ whole[i] = more[i - Len(log)]
               /\ j \in 1..Len(log) /\ whole[j] = log[j]
      BY <3>4
    <3> QED
      BY <1>3, <3>1, <3>2, <3>3, <3>4
  <2>2. ASSUME NEW i \in 1..Len(whole)
        PROVE  whole[i].kind = "new" => whole[i].of \in all
    BY <1>3 DEF LogOK
  <2>3. ASSUME NEW i \in 1..Len(whole), whole[i].id[1] = "uid"
        PROVE  whole[i].id[2] <= n
    <3>1. CASE i \in 1..Len(log) /\ whole[i] = log[i]
      <4>1. whole[i].id[2] <= drawn
        BY <2>3, <3>1 DEF LogOK
      <4>2. whole[i].id[2] \in Nat
        BY <1>4, <2>3 DEF Ids
      <4> QED
        BY <4>1, <4>2
    <3>2. CASE i - Len(log) \in 1..Len(more) /\ whole[i] = more[i - Len(log)]
      BY <2>3, <3>2 DEF LogOK
    <3> QED
      BY <1>3, <3>1, <3>2
  <2> QED
    BY <2>1, <2>2, <2>3 DEF LogOK
<1>6. Len(whole) >= 1
  BY <1>1, <1>2
<1>7. /\ end \in Seq(LogLine) /\ Len(end) >= 1 /\ Len(end) <= MaxLogCount
      /\ \E k \in Nat : \A i \in 1..Len(end) : i + k \in 1..Len(whole) /\ end[i] = whole[i + k]
  BY <1>1, <1>6, NewestPart
<1> HIDE DEF end
<1>8. LogOK(end, all, n)
  <2>1. PICK k \in Nat : \A i \in 1..Len(end) : i + k \in 1..Len(whole) /\ end[i] = whole[i + k]
    BY <1>7
  <2>2. \A i, j \in 1..Len(end) : i # j => i + k # j + k
    BY <2>1
  <2>3. \A i, j \in 1..Len(end) : i # j =>
          /\ end[i].id # end[j].id
          /\ ~ (end[i].kind = "new" /\ end[j].kind = "new" /\ end[i].of = end[j].of)
    <3> TAKE i, j \in 1..Len(end)
    <3>1. /\ i + k \in 1..Len(whole) /\ end[i] = whole[i + k]
          /\ j + k \in 1..Len(whole) /\ end[j] = whole[j + k]
      BY <2>1
    <3>2. i # j => i + k # j + k
      BY <2>2
    <3> QED
      BY <1>5, <3>1, <3>2 DEF LogOK
  <2>4. \A i \in 1..Len(end) :
          /\ end[i].kind = "new" => end[i].of \in all
          /\ end[i].id[1] = "uid" => end[i].id[2] <= n
    BY <1>5, <2>1 DEF LogOK
  <2> QED
    BY <2>3, <2>4 DEF LogOK
<1> QED
  BY <1>7, <1>8 DEF end, whole

LEMMA GoodLonger ==
    ASSUME NEW s, NEW drawn \in Nat, NEW n \in Nat, drawn <= n, Good(s, drawn)
    PROVE  Good(s, n)
<1>1. \A i \in 1..Len(s.logs) : s.logs[i].id[1] = "uid" => s.logs[i].id[2] <= n
  <2> SUFFICES ASSUME NEW i \in 1..Len(s.logs), s.logs[i].id[1] = "uid"
               PROVE  s.logs[i].id[2] <= n
    OBVIOUS
  <2>1. s.logs \in Seq(LogLine)
    BY DEF Good, States
  <2>2. s.logs[i] \in LogLine
    BY <2>1, ElementOfSeq
  <2>3. s.logs[i].id[2] \in Nat
    BY <2>2 DEF LogLine, Ids
  <2>4. s.logs[i].id[2] <= drawn
    BY DEF Good, LogOK
  <2> QED
    BY <2>3, <2>4
<1> QED
  BY <1>1 DEF Good, LogOK

LEMMA GoodExtended ==
    ASSUME NEW s, NEW drawn \in Nat, NEW n \in Nat, drawn <= n, Good(s, drawn),
           NEW all \in SUBSET Drones, s.activeDrones \subseteq all,
           NEW more \in Seq(LogLine), LogOK(more, all, n),
           \A i \in 1..Len(s.logs), j \in 1..Len(more) :
             /\ s.logs[i].id # more[j].id
             /\ s.logs[i].kind = "new" /\ more[j].kind = "new" => s.logs[i].of # more[j].of,
           NEW r, r = [s EXCEPT !.activeDrones = all, !.logs = Newest(s.logs \o more)]
    PROVE  Good(r, n)
<1> DEFINE log == s.logs
           new == Newest(s.logs \o more)
<1>1. s \in States /\ log \in Seq(LogLine) /\ Len(log) >= 1 /\ LogOK(log, s.activeDrones, drawn)
  BY DEF Good, States
<1>2. /\ new \in Seq(LogLine) /\ Len(new) >= 1 /\ Len(new) <= MaxLogCount
      /\ LogOK(new, all, n)
  BY <1>1, LogExtended
<1> HIDE DEF log, new
<1>3. r = [s EXCEPT !.activeDrones = all, !.logs = new]
  BY DEF new
<1>4. r \in States /\ r.activeDrones = all /\ r.logs = new /\ r.target = s.target
  <2>1. all \in SUBSET Drones /\ s \in States /\ new \in Seq(LogLine)
    BY <1>1, <1>2
  <2> QED
    BY <2>1, <1>3 DEF States
<1> QED
  BY <1>2, <1>4 DEF Good

LineKinds == [kind : {"boot", "new", "telemetry", "event", "notice"},
              of : Drones \cup Events \cup {None}]

\* addLog with lines of which at most one announces a drone, an unlisted one.
LEMMA LinesAdded ==
    ASSUME NEW s, Good(s, uids), uids \in Nat, NEW d \in Drones \cup {None},
           NEW lines \in Seq(LineKinds),
           \A i \in 1..Len(lines) : lines[i].kind = "new" =>
             i = 1 /\ lines[i].of = d /\ d # None /\ d \notin s.activeDrones
    PROVE  Good(AddLogs(AddActiveDrone(s, d), lines), uids + Len(lines))
<1> DEFINE n == uids + Len(lines)
           all == s.activeDrones \cup ({d} \ {None})
           more == [i \in DOMAIN lines |->
                     [id |-> <<"uid", uids + i>>, kind |-> lines[i].kind, of |-> lines[i].of]]
<1>1. Len(lines) \in Nat /\ DOMAIN lines = 1..Len(lines)
  OBVIOUS
<1>2. n \in Nat /\ uids <= n
  BY <1>1
<1>3. /\ s \in States /\ s.activeDrones \in SUBSET Drones /\ s.logs \in Seq(LogLine)
      /\ all \in SUBSET Drones
  BY Constants DEF Good, States
<1>4. \A i \in 1..Len(lines) :
        /\ lines[i].kind \in {"boot", "new", "telemetry", "event", "notice"}
        /\ lines[i].of \in Drones \cup Events \cup {None}
  <2>1. \A i \in 1..Len(lines) : lines[i] \in LineKinds
    BY ElementOfSeq
  <2> QED
    BY <2>1 DEF LineKinds
<1>5. \A i \in 1..Len(lines) : <<"uid", uids + i>> \in Ids
  BY <1>1 DEF Ids
<1>6. \A i \in 1..Len(lines) :
        [id |-> <<"uid", uids + i>>, kind |-> lines[i].kind, of |-> lines[i].of] \in LogLine
  BY <1>4, <1>5 DEF LogLine
<1>7. more \in Seq(LogLine) /\ Len(more) = Len(lines)
  BY <1>1, <1>6, IsASeq
<1>8. \A i \in 1..Len(more) :
        /\ more[i].id = <<"uid", uids + i>> /\ more[i].kind = lines[i].kind
        /\ more[i].of = lines[i].of
  BY <1>1, <1>7
<1>9. AddLogs(AddActiveDrone(s, d), lines)
        = [s EXCEPT !.activeDrones = all, !.logs = Newest(s.logs \o more)]
  BY <1>3 DEF AddLogs, AddActiveDrone, States
<1> HIDE DEF more, all, n
<1>10. LogOK(more, all, n)
  <2>1. \A i, j \in 1..Len(more) : i # j => more[i].id # more[j].id
    <3> TAKE i, j \in 1..Len(more)
    <3>1. i # j => uids + i # uids + j
      BY <1>1, <1>7
    <3> QED
      BY <3>1, <1>8
  <2>2. \A i, j \in 1..Len(more) : more[i].kind = "new" /\ more[j].kind = "new" => i = j
    BY <1>7, <1>8
  <2>3. \A i \in 1..Len(more) : more[i].kind = "new" => more[i].of \in all
    BY <1>7, <1>8 DEF all
  <2>4. \A i \in 1..Len(more) : more[i].id[2] <= n
    BY <1>1, <1>7, <1>8 DEF n
  <2> QED
    BY <2>1, <2>2, <2>3, <2>4 DEF LogOK
<1>11. ASSUME NEW i \in 1..Len(s.logs), NEW j \in 1..Len(more)
       PROVE  /\ s.logs[i].id # more[j].id
              /\ s.logs[i].kind = "new" /\ more[j].kind = "new" => s.logs[i].of # more[j].of
  <2>1. s.logs[i].id[1] = "uid" => s.logs[i].id[2] <= uids
    BY DEF Good, LogOK
  <2>2. uids + j > uids
    BY <1>1, <1>7
  <2>3. s.logs[i].id # more[j].id
    BY <2>1, <2>2, <1>8
  <2>4. s.logs[i].kind = "new" => s.logs[i].of \in s.activeDrones
    BY DEF Good, LogOK
  <2> QED
    BY <2>3, <2>4, <1>7, <1>8
<1>12. s.activeDrones \subseteq all
  BY DEF all
<1> QED
  BY <1>2, <1>3, <1>7, <1>9, <1>10, <1>11, <1>12, GoodExtended DEF n

\* ... and without a drone.
LEMMA NoticesAdded ==
    ASSUME NEW s, Good(s, uids), uids \in Nat, NEW lines \in Seq(LineKinds),
           \A i \in 1..Len(lines) : lines[i].kind # "new"
    PROVE  Good(AddLogs(s, lines), uids + Len(lines))
<1>1. s \in States
  BY DEF Good
<1>2. AddActiveDrone(s, None) = s
  BY <1>1 DEF AddActiveDrone, States
<1> QED
  BY <1>2, LinesAdded

\* The history answer adds the events that are on no line.
LEMMA HistoryAdded ==
    ASSUME NEW s, Good(s, uids), uids \in Nat, NEW U \in SUBSET Events,
           \A e \in U : \A i \in DOMAIN s.logs : s.logs[i].id # <<"event", e>>,
           NEW news \in InTimeOrder(U), NEW all \in SUBSET Drones, s.activeDrones \subseteq all,
           NEW r, r = [s EXCEPT !.activeDrones = all, !.logs = Newest(s.logs \o
             [i \in DOMAIN news |-> [id |-> <<"event", news[i]>>, kind |-> "event", of |-> news[i]]])]
    PROVE  Good(r, uids)
<1> DEFINE more == [i \in DOMAIN news |->
                     [id |-> <<"event", news[i]>>, kind |-> "event", of |-> news[i]]]
           n == Cardinality(U)
<1>1. n \in Nat
  <2>1. IsFiniteSet(Events)
    <3>1. MaxEvents \in Int /\ 1 \in Int
      BY Constants
    <3> QED
      BY <3>1, FS_Interval DEF Events
  <2>2. IsFiniteSet(U)
    BY <2>1, FS_Subset
  <2> QED
    BY <2>2, FS_CardinalityType
<1>2. /\ DOMAIN news = 1..n /\ \A i \in 1..n : news[i] \in U /\ news[i] \in Nat
      /\ \A i, j \in 1..n : i < j => news[i] < news[j]
  BY Constants DEF InTimeOrder, Events
<1> HIDE DEF n
<1>3. \A i \in 1..n :
        [id |-> <<"event", news[i]>>, kind |-> "event", of |-> news[i]] \in LogLine
  BY <1>2 DEF LogLine, Ids
<1>4. more \in Seq(LogLine) /\ Len(more) = n
  BY <1>1, <1>2, <1>3, IsASeq
<1>5. \A i \in 1..Len(more) : more[i].id = <<"event", news[i]>> /\ more[i].kind = "event"
  BY <1>2, <1>4
<1>r. r = [s EXCEPT !.activeDrones = all, !.logs = Newest(s.logs \o more)]
  OBVIOUS
<1> HIDE DEF more
<1>6. \A i, j \in 1..n : i # j => news[i] # news[j]
  <2> SUFFICES ASSUME NEW i \in 1..n, NEW j \in 1..n, i # j PROVE news[i] # news[j]
    OBVIOUS
  <2>1. i < j \/ j < i
    BY <1>1
  <2>2. news[i] < news[j] \/ news[j] < news[i]
    BY <2>1, <1>2
  <2> QED
    BY <2>2, <1>2
<1>8. s.logs \in Seq(LogLine) /\ DOMAIN s.logs = 1..Len(s.logs)
  BY DEF Good, States
<1>9. \A i \in 1..Len(s.logs), j \in 1..Len(more) :
        /\ s.logs[i].id # more[j].id
        /\ s.logs[i].kind = "new" /\ more[j].kind = "new" => s.logs[i].of # more[j].of
  BY <1>2, <1>4, <1>5, <1>8
<1>10. LogOK(more, all, uids)
  BY <1>4, <1>5, <1>6 DEF LogOK
<1> QED
  <2>1. uids <= uids
    OBVIOUS
  <2> QED
    BY <2>1, <1>r, <1>4, <1>9, <1>10, GoodExtended

LEMMA OthersReplaced ==
    ASSUME NEW s, Good(s, uids), NEW x
    PROVE  /\ x \in SUBSET FilterKeys => Good([s EXCEPT !.filters = x], uids)
           /\ x \in Nat => Good([s EXCEPT !.metrics = x], uids)
           /\ x \in {ALL} \cup s.activeDrones => Good([s EXCEPT !.target = x], uids)
<1> DEFINE f == [s EXCEPT !.filters = x]
           m == [s EXCEPT !.metrics = x]
           t == [s EXCEPT !.target = x]
<1>1. s \in States
  BY DEF Good
<1>2. s.activeDrones \in SUBSET Drones
  BY <1>1 DEF States
<1>3. /\ f.logs = s.logs /\ f.target = s.target /\ f.activeDrones = s.activeDrones
      /\ m.logs = s.logs /\ m.target = s.target /\ m.activeDrones = s.activeDrones
      /\ t.logs = s.logs /\ t.target = x /\ t.activeDrones = s.activeDrones
  BY <1>1 DEF States
<1>4. /\ x \in SUBSET FilterKeys => f \in States
      /\ x \in Nat => m \in States
      /\ x \in {ALL} \cup s.activeDrones => t \in States
  BY <1>1, <1>2 DEF States
<1> HIDE DEF f, m, t
<1>5. /\ x \in SUBSET FilterKeys => Good(f, uids)
      /\ x \in Nat => Good(m, uids)
      /\ x \in {ALL} \cup s.activeDrones => Good(t, uids)
  BY <1>3, <1>4 DEF Good
<1> QED
  BY <1>5 DEF f, m, t

LEMMA BootGood ==
    ASSUME uids \in Nat
    PROVE  Good(Initial, uids)
<1>1. Boot \in LogLine
  BY DEF Boot, LogLine, Ids
<1>2. <<Boot>> \in Seq(LogLine) /\ Len(<<Boot>>) = 1 /\ <<Boot>>[1] = Boot
  BY <1>1
<1>3. Boot.kind = "boot" /\ Boot.id[1] = "boot"
  BY DEF Boot
<1> DEFINE l == <<Boot>>
<1> HIDE DEF Boot
<1>4. LogOK(l, {}, uids)
  BY <1>2, <1>3 DEF LogOK
<1>5. Initial = [logs |-> l, activeDrones |-> {}, filters |-> FilterKeys,
                 target |-> ALL, metrics |-> 0]
  BY DEF Initial
<1> HIDE DEF l
<1>6. Initial \in States
  BY <1>2, <1>5 DEF States, l
<1>7. Initial.logs = l /\ Initial.target = ALL /\ Initial.activeDrones = {}
  BY <1>5
<1> QED
  BY <1>2, <1>4, <1>6, <1>7, Constants DEF Good, l

\* What has a line is loaded as it is.
LEMMA LoadsSame ==
    ASSUME NEW s, Good(s, uids)
    PROVE  [s EXCEPT !.logs = IF @ = <<>> THEN <<Boot>> ELSE @] = s
<1>1. s \in States /\ s.logs # <<>>
  BY DEF Good, States
<1> QED
  BY <1>1 DEF States

-----------------------------------------------------------------------------
\* The actions.

LEMMA InitStore == Init => Inv
<1> SUFFICES ASSUME Init PROVE Inv
  OBVIOUS
<1>1. EventsInv
  BY DEF Init, EventsInv
<1>2. Good(state, uids)
  BY BootGood DEF Init
<1>3. PersistPending
  BY DEF Init, PersistPending, LoadInitialState
<1> QED
  BY <1>1, <1>2, <1>3 DEF Init, Inv, StoreInv

\* A state that was updated, and one that was left alone.
LEMMA StoreUpdated ==
    ASSUME Inv, NEW next, UpdateState(next), storage' = storage,
           uids' \in Nat, uids <= uids', Good(next, uids')
    PROVE  StoreInv'
<1>1. storage = None \/ Good(storage, uids')
  BY GoodLonger DEF Inv, EventsInv, StoreInv
<1>2. PersistPending'
  BY DEF UpdateState, PersistPending
<1> QED
  BY <1>1, <1>2 DEF UpdateState, StoreInv

LEMMA StoreCalm ==
    ASSUME Inv, Unchanged, storage' = storage, uids' = uids
    PROVE  StoreInv'
BY DEF Inv, StoreInv, Unchanged, PersistPending, LoadInitialState

LEMMA EventsUpdated ==
    ASSUME Inv, historyAsked' \in BOOLEAN, uids' \in Nat,
           (\E next : UpdateState(next)) \/ Unchanged,
           happened' \subseteq Events, wire' \subseteq happened',
           logged' \subseteq Drones, counted' \subseteq Drones \cup {None}
    PROVE  EventsInv'
BY DEF Inv, EventsInv, UpdateState, Unchanged

LEMMA Known ==
    ASSUME Inv
    PROVE  /\ Good(state, uids) /\ uids \in Nat /\ historyAsked \in BOOLEAN
           /\ happened \subseteq Events /\ wire \subseteq happened
           /\ logged \subseteq Drones /\ counted \subseteq Drones \cup {None}
BY DEF Inv, StoreInv, EventsInv

LEMMA Pairs ==
    ASSUME NEW a, NEW b
    PROVE  <<a>> \o <<>> = <<a>> /\ <<a>> \o <<b>> = <<a, b>>
<1> DEFINE S == {a, b}
<1>1. <<a>> \in Seq(S) /\ <<b>> \in Seq(S) /\ <<a, b>> \in Seq(S)
  OBVIOUS
<1>2. /\ <<a>> \o <<b>> \in Seq(S) /\ Len(<<a>> \o <<b>>) = 2
      /\ \A i \in 1..2 : (<<a>> \o <<b>>)[i] = IF i <= 1 THEN <<a>>[i] ELSE <<b>>[i - 1]
  BY <1>1, ConcatProperties
<1>3. \A i \in 1..2 : (<<a>> \o <<b>>)[i] = <<a, b>>[i]
  BY <1>2
<1>4. <<a>> \o <<b>> = <<a, b>>
  BY <1>1, <1>2, <1>3, SeqEqual
<1> QED
  BY <1>1, <1>4, ConcatEmptySeq

LEMMA TelemetryStep ==
    ASSUME Inv, NEW d \in Drones, HandleTelemetry(d)
    PROVE  Inv'
<1> DEFINE lines == TelemetryLines(d)
<1>1. /\ lines \in Seq(LineKinds)
      /\ \A i \in 1..Len(lines) : lines[i].kind = "new" =>
           i = 1 /\ lines[i].of = d /\ d \notin state.activeDrones
  <2> DEFINE one == Line("new", d)
             two == Line("telemetry", d)
  <2>1. one \in LineKinds /\ two \in LineKinds
    BY DEF Line, LineKinds
  <2>2. two.kind # "new" /\ one.of = d
    BY DEF Line
  <2> HIDE DEF one, two
  <2>3. /\ lines \in {<<>>, <<one>>, <<two>>, <<one, two>>}
        /\ lines \in {<<one>>, <<one, two>>} => d \notin state.activeDrones \/ one = two
    <3>1. lines = (IF d \in state.activeDrones THEN <<>> ELSE <<one>>)
                    \o (IF d \in logged THEN <<>> ELSE <<two>>)
      BY DEF TelemetryLines, one, two
    <3>2. one # two
      BY <2>2 DEF one, Line
    <3> HIDE DEF lines
    <3>3. CASE d \in state.activeDrones
      <4>1. lines = <<>> \o (IF d \in logged THEN <<>> ELSE <<two>>)
        BY <3>1, <3>3
      <4>2. lines = <<>> \/ lines = <<two>>
        BY <4>1, <2>1
      <4> QED
        BY <4>2, <3>2
    <3>4. CASE d \notin state.activeDrones
      <4>1. lines = <<one>> \o <<>> \/ lines = <<one>> \o <<two>>
        BY <3>1, <3>4
      <4>2. lines = <<one>> \/ lines = <<one, two>>
        BY <4>1, Pairs
      <4> QED
        BY <4>2, <3>4
    <3> QED
      BY <3>3, <3>4
  <2> HIDE DEF lines
  <2>4. one # two
    BY <2>2 DEF one, Line
  <2>5. CASE lines = <<>>
    BY <2>5
  <2>6. CASE lines = <<two>>
    BY <2>1, <2>2, <2>6
  <2>7. CASE lines = <<one>>
    BY <2>1, <2>2, <2>3, <2>4, <2>7
  <2>8. CASE lines = <<one, two>>
    BY <2>1, <2>2, <2>3, <2>4, <2>8
  <2> QED
    BY <2>3, <2>5, <2>6, <2>7, <2>8
<1> HIDE DEF lines
<1> DEFINE next == AddLogs(AddActiveDrone(state, d), lines)
<1>2. Len(lines) \in Nat /\ uids' = uids + Len(lines)
  BY <1>1 DEF HandleTelemetry, Draw, lines
<1>3. d # None /\ d \in Drones \cup {None}
  BY Constants
<1>4. Good(next, uids')
  BY <1>1, <1>2, <1>3, Known, LinesAdded
<1>5. UpdateState(next) /\ storage' = storage
  BY DEF HandleTelemetry, lines
<1>6. uids' \in Nat /\ uids <= uids'
  BY <1>2, Known
<1> HIDE DEF next
<1>7. StoreInv'
  BY <1>4, <1>5, <1>6, StoreUpdated
<1>8. EventsInv'
  BY <1>5, <1>6, Known, EventsUpdated DEF HandleTelemetry
<1> QED
  BY <1>7, <1>8 DEF Inv

LEMMA DroneAdded ==
    ASSUME NEW s, Good(s, uids), NEW d \in Drones \cup {None}
    PROVE  Good(AddActiveDrone(s, d), uids)
<1> DEFINE r == AddActiveDrone(s, d)
<1>1. s \in States
  BY DEF Good
<1>2. s.activeDrones \in SUBSET Drones
  BY <1>1 DEF States
<1>3. s.activeDrones \cup ({d} \ {None}) \in SUBSET Drones
  BY <1>2
<1>4. /\ r \in States /\ r.activeDrones = s.activeDrones \cup ({d} \ {None})
      /\ r.logs = s.logs /\ r.target = s.target
  BY <1>1, <1>3 DEF States, AddActiveDrone
<1> HIDE DEF r
<1>5. LogOK(r.logs, r.activeDrones, uids)
  BY <1>4 DEF Good, LogOK
<1>6. /\ Len(s.logs) >= 1 /\ Len(s.logs) <= MaxLogCount
      /\ s.target \in {ALL} \cup s.activeDrones
  BY DEF Good
<1>7. Good(r, uids)
  BY <1>4, <1>5, <1>6 DEF Good
<1> QED
  BY <1>7 DEF r

\* One line that announces nothing, or two.
LEMMA OneNotice ==
    ASSUME NEW kind \in {"event", "notice"}, NEW of \in Events \cup {None}
    PROVE  /\ <<Line(kind, of)>> \in Seq(LineKinds) /\ Len(<<Line(kind, of)>>) = 1
           /\ <<Line(kind, of), Line(kind, of)>> \in Seq(LineKinds)
           /\ Len(<<Line(kind, of), Line(kind, of)>>) = 2
           /\ \A i \in 1..1 : <<Line(kind, of)>>[i].kind # "new"
           /\ \A i \in 1..2 : <<Line(kind, of), Line(kind, of)>>[i].kind # "new"
<1> DEFINE l == Line(kind, of)
<1>1. l \in LineKinds /\ l.kind # "new"
  BY DEF Line, LineKinds
<1> HIDE DEF l
<1>2. /\ <<l>> \in Seq(LineKinds) /\ Len(<<l>>) = 1
      /\ <<l, l>> \in Seq(LineKinds) /\ Len(<<l, l>>) = 2
      /\ \A i \in 1..1 : <<l>>[i].kind # "new"
      /\ \A i \in 1..2 : <<l, l>>[i].kind # "new"
  BY <1>1
<1> QED
  BY <1>2 DEF l

LEMMA OpsStep ==
    ASSUME Inv, NEW e \in Events, HandleOpsEvent(e)
    PROVE  Inv'
<1> DEFINE d == SourceOf[e]
           known == AddActiveDrone(state, d)
           lines == <<Line("event", e)>>
           next == AddLogs(known, lines)
<1>0. d \in Drones \cup {None} /\ uids \in Nat
  BY Constants, Known
<1>1. Good(known, uids)
  BY <1>0, Known, DroneAdded
<1>2. Good(next, uids + 1)
  <2>1. lines \in Seq(LineKinds) /\ Len(lines) = 1 /\ \A i \in 1..Len(lines) : lines[i].kind # "new"
    BY OneNotice
  <2> HIDE DEF known, lines
  <2>2. Good(next, uids + Len(lines))
    BY <1>0, <1>1, <2>1, NoticesAdded
  <2> QED
    BY <2>1, <2>2
<1>3. /\ \/ Unchanged /\ uids' = uids
         \/ UpdateState(known) /\ uids' = uids
         \/ UpdateState(next) /\ uids' = uids + 1
      /\ counted' \subseteq counted \cup {d}
      /\ storage' = storage /\ historyAsked' = historyAsked /\ happened' = happened
      /\ logged' = logged /\ wire' = wire \ {e}
  BY DEF HandleOpsEvent, Draw
<1> HIDE DEF known, next, d
<1>4. uids + 1 \in Nat /\ uids <= uids + 1 /\ uids <= uids
  BY <1>0
<1>5. StoreInv'
  <2>1. CASE Unchanged /\ uids' = uids
    BY <2>1, <1>3, StoreCalm
  <2>2. CASE UpdateState(known) /\ uids' = uids
    BY <2>2, <1>0, <1>1, <1>3, <1>4, StoreUpdated
  <2>3. CASE UpdateState(next) /\ uids' = uids + 1
    BY <2>3, <1>2, <1>3, <1>4, StoreUpdated
  <2> QED
    BY <1>3, <2>1, <2>2, <2>3
<1>6. EventsInv'
  BY <1>0, <1>3, <1>4, Known, EventsUpdated
<1> QED
  BY <1>5, <1>6 DEF Inv

LEMMA NoticeStep ==
    ASSUME Inv, HandleNotice \/ ExecuteTerminalCommand
    PROVE  Inv'
<1> DEFINE one == <<Line("notice", None)>>
           two == <<Line("notice", None), Line("notice", None)>>
<1>1. /\ one \in Seq(LineKinds) /\ Len(one) = 1
      /\ two \in Seq(LineKinds) /\ Len(two) = 2
      /\ \A i \in 1..1 : one[i].kind # "new"
      /\ \A i \in 1..2 : two[i].kind # "new"
  BY OneNotice
<1>2. /\ \/ UpdateState(AddLogs(state, one)) /\ uids' = uids + 1
         \/ UpdateState(AddLogs(state, two)) /\ uids' = uids + 2
      /\ UNCHANGED <<storage, historyAsked, happened, wire, logged, counted>>
  BY DEF HandleNotice, ExecuteTerminalCommand, Draw
<1> HIDE DEF one, two
<1>3. Good(AddLogs(state, one), uids + 1)
  <2>1. Good(AddLogs(state, one), uids + Len(one))
    BY <1>1, Known, NoticesAdded
  <2> QED
    BY <1>1, <2>1
<1>4. Good(AddLogs(state, two), uids + 2)
  <2>1. Good(AddLogs(state, two), uids + Len(two))
    BY <1>1, Known, NoticesAdded
  <2> QED
    BY <1>1, <2>1
<1>5. uids' \in Nat /\ uids <= uids'
  BY <1>2, Known
<1>6. PICK next : UpdateState(next) /\ Good(next, uids')
  BY <1>2, <1>3, <1>4
<1>7. StoreInv'
  BY <1>2, <1>5, <1>6, StoreUpdated
<1>8. EventsInv'
  BY <1>2, <1>5, <1>6, Known, EventsUpdated
<1> QED
  BY <1>7, <1>8 DEF Inv

LEMMA ClearStep ==
    ASSUME Inv, ExecuteClear
    PROVE  Inv'
<1> DEFINE m == [id |-> <<"uid", uids + 2>>, kind |-> "notice", of |-> None]
           next == [state EXCEPT !.logs = <<m>>]
<1>1. /\ UpdateState(next) /\ uids' = uids + 2
      /\ UNCHANGED <<storage, historyAsked, happened, wire, logged, counted>>
  BY DEF ExecuteClear, Draw
<1>2. uids' \in Nat /\ uids <= uids' /\ uids + 2 \in Nat
  BY <1>1, Known
<1>3. <<"uid", uids + 2>> \in Ids
  BY <1>2 DEF Ids
<1>4. m \in LogLine /\ m.id = <<"uid", uids + 2>> /\ m.kind = "notice"
  BY <1>3 DEF LogLine
<1>5. state \in States /\ state.target \in {ALL} \cup state.activeDrones
  BY Known DEF Good
<1> HIDE DEF m
<1> DEFINE l == <<m>>
<1>6. l \in Seq(LogLine) /\ Len(l) = 1 /\ l[1] = m
  BY <1>4
<1>7. next = [state EXCEPT !.logs = l]
  OBVIOUS
<1> HIDE DEF l
<1>8. /\ next \in States /\ next.logs = l /\ next.target = state.target
      /\ next.activeDrones = state.activeDrones
  BY <1>5, <1>6, <1>7 DEF States
<1> HIDE DEF next
<1>9. LogOK(l, state.activeDrones, uids + 2)
  BY <1>2, <1>4, <1>6 DEF LogOK
<1>10. Good(next, uids')
  <2>1. MaxLogCount \in Nat /\ MaxLogCount >= 1
    BY Constants
  <2>2. LogOK(next.logs, next.activeDrones, uids')
    BY <1>1, <1>8, <1>9
  <2>3. Len(next.logs) >= 1 /\ Len(next.logs) <= MaxLogCount
    <3>1. Len(next.logs) = 1
      BY <1>6, <1>8
    <3> QED
      BY <2>1, <3>1
  <2>4. next \in States /\ next.target \in {ALL} \cup next.activeDrones
    BY <1>5, <1>8
  <2> QED
    BY <2>2, <2>3, <2>4 DEF Good
<1>11. StoreInv'
  BY <1>1, <1>2, <1>10, StoreUpdated
<1>12. EventsInv'
  BY <1>1, <1>2, Known, EventsUpdated
<1> QED
  BY <1>11, <1>12 DEF Inv

LEMMA HistoryStep ==
    ASSUME Inv, FetchEventHistory
    PROVE  Inv'
<1>1. UNCHANGED <<storage, uids, happened, wire, logged, counted>> /\ historyAsked' \in BOOLEAN
  BY DEF FetchEventHistory
<1>2. CASE Unchanged
  <2>1. StoreInv'
    BY <1>1, <1>2, StoreCalm
  <2>2. EventsInv'
    BY <1>1, <1>2, Known, EventsUpdated
  <2> QED
    BY <2>1, <2>2 DEF Inv
<1>3. CASE ~ Unchanged
  <2>0. PICK S \in SUBSET happened : \E news \in InTimeOrder(UnknownEvents(S)) :
          UpdateState([state EXCEPT
            !.activeDrones = @ \cup ({SourceOf[e] : e \in S} \ {None}),
            !.logs = Newest(@ \o [i \in DOMAIN news |->
              [id |-> <<"event", news[i]>>, kind |-> "event", of |-> news[i]]])])
    BY <1>3 DEF FetchEventHistory
  <2>1. PICK news \in InTimeOrder(UnknownEvents(S)) :
          UpdateState([state EXCEPT
            !.activeDrones = @ \cup ({SourceOf[e] : e \in S} \ {None}),
            !.logs = Newest(@ \o [i \in DOMAIN news |->
              [id |-> <<"event", news[i]>>, kind |-> "event", of |-> news[i]]])])
    BY <2>0
  <2> DEFINE U == UnknownEvents(S)
             all == state.activeDrones \cup ({SourceOf[e] : e \in S} \ {None})
             next == [state EXCEPT !.activeDrones = all, !.logs = Newest(state.logs \o
               [i \in DOMAIN news |->
                 [id |-> <<"event", news[i]>>, kind |-> "event", of |-> news[i]]])]
  <2>2. S \in SUBSET Events
    BY Known
  <2>3. U \in SUBSET Events /\ \A e \in U : \A i \in DOMAIN state.logs : state.logs[i].id # <<"event", e>>
    BY <2>2 DEF UnknownEvents
  <2>4. state.activeDrones \in SUBSET Drones
    BY Known DEF Good, States
  <2>5. all \in SUBSET Drones /\ state.activeDrones \subseteq all
    BY <2>2, <2>4, Constants
  <2>6. UpdateState(next)
    BY <2>1
  <2>7. news \in InTimeOrder(U) /\ Good(state, uids) /\ uids \in Nat
    BY Known
  <2>12. next = [state EXCEPT !.activeDrones = all, !.logs = Newest(state.logs \o
               [i \in DOMAIN news |->
                 [id |-> <<"event", news[i]>>, kind |-> "event", of |-> news[i]]])]
    OBVIOUS
  <2> HIDE DEF U, all, next
  <2>8. Good(next, uids)
    BY <2>3, <2>5, <2>7, <2>12, HistoryAdded
  <2>9. uids' \in Nat /\ uids <= uids' /\ Good(next, uids')
    BY <1>1, <2>7, <2>8
  <2>10. StoreInv'
    BY <1>1, <2>6, <2>9, StoreUpdated
  <2>11. EventsInv'
    BY <1>1, <2>6, <2>9, Known, EventsUpdated
  <2> QED
    BY <2>10, <2>11 DEF Inv
<1> QED
  BY <1>2, <1>3

\* What the operator switches, and the counter the server reports.
LEMMA SwitchStep ==
    ASSUME Inv,
           \/ \E k \in FilterKeys : ToggleTerminalFilter(k)
           \/ \E t \in Drones \cup {ALL} : SetTerminalTargetFilter(t)
           \/ \E n \in Counts : HandleSystemHealth(n)
    PROVE  Inv'
<1>0. state \in States /\ Good(state, uids)
  BY Known DEF Good
<1>1. UNCHANGED <<storage, uids, happened, wire, logged, counted, historyAsked>>
  BY DEF ToggleTerminalFilter, SetTerminalTargetFilter, HandleSystemHealth
<1>2. \E next : UpdateState(next) /\ Good(next, uids)
  <2>1. ASSUME NEW k \in FilterKeys, ToggleTerminalFilter(k)
        PROVE  \E next : UpdateState(next) /\ Good(next, uids)
    <3> DEFINE x == IF k \in state.filters THEN state.filters \ {k} ELSE state.filters \cup {k}
    <3>1. x \in SUBSET FilterKeys
      BY <1>0 DEF States
    <3>2. UpdateState([state EXCEPT !.filters = x])
      BY <2>1 DEF ToggleTerminalFilter
    <3> HIDE DEF x
    <3> QED
      BY <1>0, <3>1, <3>2, OthersReplaced
  <2>2. ASSUME NEW t \in Drones \cup {ALL}, SetTerminalTargetFilter(t)
        PROVE  \E next : UpdateState(next) /\ Good(next, uids)
    BY <1>0, <2>2, OthersReplaced DEF SetTerminalTargetFilter, Offered
  <2>3. ASSUME NEW n \in Counts, HandleSystemHealth(n)
        PROVE  \E next : UpdateState(next) /\ Good(next, uids)
    <3> DEFINE x == IF n = 0 THEN state.metrics ELSE n
    <3>1. x \in Nat
      BY <1>0, TerminalAssumption DEF States
    <3>2. UpdateState([state EXCEPT !.metrics = x])
      BY <2>3 DEF HandleSystemHealth
    <3> HIDE DEF x
    <3> QED
      BY <1>0, <3>1, <3>2, OthersReplaced
  <2> QED
    BY <2>1, <2>2, <2>3
<1>3. PICK next : UpdateState(next) /\ Good(next, uids)
  BY <1>2
<1>4. uids' \in Nat /\ uids <= uids' /\ uids' = uids
  BY <1>1, Known
<1>5. StoreInv'
  BY <1>1, <1>3, <1>4, StoreUpdated
<1>6. EventsInv'
  BY <1>1, <1>3, <1>4, Known, EventsUpdated
<1> QED
  BY <1>5, <1>6 DEF Inv

LEMMA PersistStep ==
    ASSUME Inv, Persist
    PROVE  Inv'
<1>1. EventsInv'
  BY DEF Persist, Inv, EventsInv
<1>2. CASE storage' = state /\ writeFailed' = writeFailed
  <2>1. Good(state, uids) /\ state # None
    BY Known, Constants DEF Good
  <2>2. LoadInitialState' = state
    BY <1>2, <2>1, LoadsSame DEF LoadInitialState
  <2> QED
    BY <1>1, <1>2, <2>1, <2>2 DEF Persist, Inv, StoreInv, PersistPending
<1>3. CASE storage' = storage /\ writeFailed' = TRUE
  BY <1>1, <1>3 DEF Persist, Inv, StoreInv, PersistPending
<1> QED
  BY <1>2, <1>3 DEF Persist

LEMMA ReloadStep ==
    ASSUME Inv, Reload
    PROVE  Inv'
<1>1. EventsInv'
  BY DEF Reload, Inv, EventsInv
<1>2. Good(LoadInitialState, uids)
  <2>1. CASE storage = None
    BY <2>1, Known, BootGood DEF LoadInitialState
  <2>2. CASE storage # None
    BY <2>2, LoadsSame DEF LoadInitialState, Inv, StoreInv
  <2> QED
    BY <2>1, <2>2
<1>3. LoadInitialState' = state'
  BY DEF Reload, LoadInitialState
<1> QED
  BY <1>1, <1>2, <1>3 DEF Reload, Inv, StoreInv, PersistPending

LEMMA NextStore == Inv /\ [Next]_vars => Inv'
<1> SUFFICES ASSUME Inv, [Next]_vars PROVE Inv'
  OBVIOUS
<1>1. CASE \E d \in Drones : HandleTelemetry(d)
  BY <1>1, TelemetryStep
<1>2. CASE \E e \in Events : HandleOpsEvent(e)
  BY <1>2, OpsStep
<1>3. CASE HandleNotice \/ ExecuteTerminalCommand
  BY <1>3, NoticeStep
<1>4. CASE \/ \E k \in FilterKeys : ToggleTerminalFilter(k)
           \/ \E t \in Drones \cup {ALL} : SetTerminalTargetFilter(t)
           \/ \E n \in Counts : HandleSystemHealth(n)
  BY <1>4, SwitchStep
<1>5. CASE \E e \in Events : PublishEvent(e)
  <2>1. StoreInv'
    BY <1>5, StoreCalm DEF PublishEvent, Unchanged
  <2>2. EventsInv'
    BY <1>5 DEF PublishEvent, Inv, EventsInv
  <2> QED
    BY <2>1, <2>2 DEF Inv
<1>6. CASE ThrottlesEnd \/ UNCHANGED vars
  <2>1. StoreInv'
    BY <1>6, StoreCalm DEF ThrottlesEnd, vars, Unchanged
  <2>2. EventsInv'
    BY <1>6 DEF ThrottlesEnd, vars, Inv, EventsInv
  <2> QED
    BY <2>1, <2>2 DEF Inv
<1> QED
  BY <1>1, <1>2, <1>3, <1>4, <1>5, <1>6, ClearStep, HistoryStep, PersistStep, ReloadStep
  DEF Next

LEMMA AlwaysStore == Spec => []Inv
BY InitStore, NextStore, PTL DEF Spec

\* For any number of drones, events, failing writes and reloads: log, drones,
\* filters and target keep their types, and the log its limit
\* (terminalEngineStore.js, updateState, loadInitialState).
THEOREM TerminalTypeCorrect == Spec => []TypeOK
<1>1. Inv => TypeOK
  BY DEF Inv, EventsInv, StoreInv, Good, TypeOK
<1> QED
  BY <1>1, AlwaysStore, PTL

\* The target is always one the list offers, after a reload too
\* (terminalEngineStore.js, loadInitialState, persistState).
THEOREM TargetStaysOffered == Spec => []TargetSelectable
<1>1. Inv => TargetSelectable
  BY DEF Inv, StoreInv, Good, TargetSelectable, Offered
<1> QED
  BY <1>1, AlwaysStore, PTL

\* No two lines of the log have one identifier, although events reach it live and
\* through the history answer, and a reload brings old lines back
\* (terminalEngineStore.js, fetchEventHistory, createLogEntry).
THEOREM LinesAreDistinct == Spec => []UniqueIds
<1>1. Inv => UniqueIds
  <2> SUFFICES ASSUME Inv PROVE UniqueIds
    OBVIOUS
  <2>1. state.logs \in Seq(LogLine) /\ LogOK(state.logs, state.activeDrones, uids)
    BY Known DEF Good, States
  <2>2. DOMAIN state.logs = 1..Len(state.logs)
    BY <2>1
  <2> QED
    BY <2>1, <2>2 DEF UniqueIds, LogOK
<1> QED
  BY <1>1, AlwaysStore, PTL

\* A drone is announced as new once, and never without being in the list
\* (terminalEngineStore.js, handleTelemetry, addActiveDrone).
THEOREM DronesAnnouncedOnce == Spec => []AnnouncedOnce
<1>1. Inv => AnnouncedOnce
  <2> SUFFICES ASSUME Inv, NEW d \in Drones
               PROVE  LET lines == {i \in DOMAIN state.logs :
                                      state.logs[i].kind = "new" /\ state.logs[i].of = d}
                      IN  Cardinality(lines) <= 1 /\ (lines # {} => d \in state.activeDrones)
    BY DEF AnnouncedOnce
  <2> DEFINE lines == {i \in DOMAIN state.logs :
                         state.logs[i].kind = "new" /\ state.logs[i].of = d}
  <2>1. state.logs \in Seq(LogLine) /\ LogOK(state.logs, state.activeDrones, uids)
    BY Known DEF Good, States
  <2>2. DOMAIN state.logs = 1..Len(state.logs)
    BY <2>1
  <2>3. \A i, j \in lines : i = j
    BY <2>1, <2>2 DEF LogOK
  <2>4. \A i \in lines : d \in state.activeDrones
    BY <2>1, <2>2 DEF LogOK
  <2> HIDE DEF lines
  <2>5. Cardinality(lines) <= 1
    <3>1. CASE lines = {}
      BY <3>1, FS_EmptySet
    <3>2. CASE lines # {}
      <4>1. PICK i \in lines : TRUE
        BY <3>2
      <4>2. lines = {i}
        BY <4>1, <2>3
      <4>3. Cardinality({i}) = 1
        BY FS_Singleton
      <4> QED
        BY <4>2, <4>3
    <3> QED
      BY <3>1, <3>2
  <2>6. lines # {} => d \in state.activeDrones
    BY <2>4
  <2> QED
    BY <2>5, <2>6 DEF lines
<1> QED
  BY <1>1, AlwaysStore, PTL

\* What a reload would lose is about to be saved, unless the browser refused the
\* last write (terminalEngineStore.js, schedulePersist).
THEOREM ChangesWillBeSaved == Spec => []PersistPending
<1>1. Inv => PersistPending
  BY DEF Inv, StoreInv
<1> QED
  BY <1>1, AlwaysStore, PTL
=============================================================================
