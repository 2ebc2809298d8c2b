---------------------- MODULE DurationStatistics_proofs ----------------------
(***************************************************************************)
(* Proofs about DurationStatistics, for every value of its constants.      *)
(***************************************************************************)
EXTENDS DurationStatistics, TLAPS

-----------------------------------------------------------------------------
(* The operations of DurPersistence.                                       *)

\* Giving an event its id (AddOrMergeEvent writes event.id) keeps it an event.
LEMMA EventWithId ==
    ASSUME NEW e \in DurEvent, NEW id \in Nat
    PROVE  /\ [e EXCEPT !.id = id] \in DurEvent
           /\ [e EXCEPT !.id = id].id = id
           /\ [e EXCEPT !.id = id].action = e.action
           /\ [e EXCEPT !.id = id].session = e.session
  BY DEF DurEvent

\* AddOrMergeEvent: what the table holds afterwards.
LEMMA AddOrMergeType ==
    ASSUME TablesOK, NEW e \in DurEvent, NEW id \in EventId(e), AddOrMergeEvent(e, id)
    PROVE  /\ TablesOK'
           /\ id \in Nat \ {0}
           /\ DOMAIN dur_event' = DOMAIN dur_event \cup {id}
           /\ dur_event'[id] = [e EXCEPT !.id = id]
           /\ \A i \in DOMAIN dur_event : i # id => dur_event'[i] = dur_event[i]
           /\ id <= sqlite_seq' /\ sqlite_seq <= sqlite_seq'
           /\ UNCHANGED <<session_row, config_row>>
  <1>1. id \in Nat \ {0} /\ id \in 1..(sqlite_seq + 1)
    BY DEF EventId, TablesOK
  <1>2. [e EXCEPT !.id = id] \in DurEvent
    BY <1>1, EventWithId
  <1>3. sqlite_seq' \in Nat /\ id <= sqlite_seq' /\ sqlite_seq <= sqlite_seq'
    BY <1>1 DEF AddOrMergeEvent, TablesOK
  <1>4. DOMAIN dur_event' = DOMAIN dur_event \cup {id}
    BY DEF AddOrMergeEvent
  <1>5. \A i \in DOMAIN dur_event' :
           dur_event'[i] = IF i = id THEN [e EXCEPT !.id = id] ELSE dur_event[i]
    BY DEF AddOrMergeEvent
  <1>6. dur_event' \in [DOMAIN dur_event' -> DurEvent]
    BY <1>2, <1>4 DEF AddOrMergeEvent, TablesOK
  <1>7. DOMAIN dur_event' \subseteq 1..sqlite_seq'
    BY <1>1, <1>3, <1>4 DEF TablesOK
  <1> QED
    BY <1>1, <1>3, <1>4, <1>5, <1>6, <1>7 DEF AddOrMergeEvent, TablesOK

\* Delete: only rows of the given events go, and no other row changes.
LEMMA DeleteType ==
    ASSUME TablesOK, NEW events \in Seq(DurEvent), Delete(events)
    PROVE  /\ TablesOK'
           /\ DOMAIN dur_event' \subseteq DOMAIN dur_event
           /\ \A i \in DOMAIN dur_event' : dur_event'[i] = dur_event[i]
           /\ \A i \in DOMAIN dur_event \ DOMAIN dur_event' :
                 \E k \in DOMAIN events : events[k].id = i
           /\ UNCHANGED <<sqlite_seq, session_row, config_row>>
  BY DEF Delete, TablesOK

\* UpdateSession and UpdateConfig leave the events alone.
LEMMA UpdateType ==
    /\ \A s \in GameSession : TablesOK /\ UpdateSession(s) => TablesOK'
    /\ \A c \in ReportConfig : TablesOK /\ UpdateConfig(c) => TablesOK'
  BY DEF UpdateSession, UpdateConfig, TablesOK

-----------------------------------------------------------------------------
(* Type correctness.                                                       *)

\* The values the members start from have their types.
LEMMA DefaultsType ==
    /\ NoSession \in GameSession
    /\ \A g \in Games : EarlierSession(g) \in GameSession /\ EarlierSession(g).session = 0
    /\ NoEvent \in DurEvent
    /\ DefaultConfig \in ReportConfig
  BY DEF NoSession, EarlierSession, NoEvent, DefaultConfig, GameSession, DurEvent,
         ReportConfig, EventAction

\* The cache directory and a process that is down are well typed.
LEMMA InitType == Init => TypeOK
  <1> SUFFICES ASSUME Init PROVE TypeOK
    OBVIOUS
  <1>1. TablesOK
    <2>1. DOMAIN dur_event = {}
      BY DEF Init, InitDB
    <2>2. dur_event \in [DOMAIN dur_event -> DurEvent]
      BY <2>1 DEF Init, InitDB
    <2>3. session_row \in GameSession \cup {NoRow} /\ config_row \in ReportConfig \cup {NoRow}
      BY DefaultsType, DurAssumption DEF Init, InitDB
    <2> QED
      BY <2>1, <2>2, <2>3 DEF Init, InitDB, TablesOK
  <1>2. report_queue \in Seq(DurEvent) /\ batch \in Seq(DurEvent)
    BY DEF Init
  <1>3. /\ local_session \in GameSession /\ app_event \in DurEvent
        /\ report_config \in ReportConfig
    BY DefaultsType DEF Init
  <1> QED
    BY <1>1, <1>2, <1>3 DEF Init, TypeOK

\* The event a handler composes.
LEMMA EventOfType ==
    ASSUME TypeOK, NEW a \in EventAction, NEW u \in Users \cup {NoUser},
           NEW g \in Games \cup {NoGame}, NEW t \in Nat
    PROVE  EventOf(a, u, g, t) \in DurEvent
  BY DEF TypeOK, EventOf, DurEvent

\* The sessions a step composes, and the GAME_END of a launch.
LEMMA RecordTypes ==
    ASSUME TypeOK
    PROVE  /\ \A t \in Nat : [local_session EXCEPT !.last_beats = t] \in GameSession
           /\ \A t \in Nat : [local_session EXCEPT !.last_timestamp = t] \in GameSession
           /\ \A n \in Nat : [local_session EXCEPT !.session = n] \in GameSession
           /\ [local_session EXCEPT !.user = user_id] \in GameSession
           /\ Stamped(local_session) \in GameSession
           /\ [Stamped(local_session) EXCEPT !.user = NoUser] \in GameSession
           /\ \A t \in Nat : [local_session EXCEPT !.game = game_id, !.last_beats = t,
                                !.last_timestamp = t] \in GameSession
           /\ session_row # NoRow => GameEnd \in DurEvent
  BY DEF TypeOK, TablesOK, GameSession, DurEvent, Stamped, EventOf, GameEnd, EventAction

\* Take moves a prefix of the queue into the batch, or nothing at all.
LEMMA TakeSplits ==
    ASSUME TypeOK, Take
    PROVE  \/ batch' = batch /\ report_queue' = report_queue
           \/ \E n \in 1..Len(report_queue) :
                 /\ batch' \in Seq(DurEvent) /\ report_queue' \in Seq(DurEvent)
                 /\ Len(batch') = n /\ Len(report_queue') = Len(report_queue) - n
                 /\ \A k \in 1..n : batch'[k] = report_queue[k]
                 /\ \A k \in 1..Len(report_queue') : report_queue'[k] = report_queue[n + k]
  <1>1. CASE stopped
    BY <1>1 DEF Take, queue
  <1>2. CASE ~stopped
    <2> DEFINE n == IF Len(report_queue) < MaxReport THEN Len(report_queue) ELSE MaxReport
    <2>1. /\ batch' = SubSeq(report_queue, 1, n)
          /\ report_queue' = SubSeq(report_queue, n + 1, Len(report_queue))
      BY <1>2 DEF Take
    <2>2. report_queue \in Seq(DurEvent) /\ report_queue # <<>>
      BY <1>2 DEF Take, TakeReady, TypeOK
    <2>3. Len(report_queue) \in Nat \ {0}
      BY <2>2
    <2>4. n \in 1..Len(report_queue)
      BY <2>3, DurAssumption
    <2> HIDE DEF n
    <2>5. batch' \in Seq(DurEvent) /\ Len(batch') = n /\ \A k \in 1..n : batch'[k] = report_queue[k]
      BY <2>1, <2>2, <2>3, <2>4
    <2>6. /\ report_queue' \in Seq(DurEvent) /\ Len(report_queue') = Len(report_queue) - n
          /\ \A k \in 1..Len(report_queue') : report_queue'[k] = report_queue[n + k]
      BY <2>1, <2>2, <2>3, <2>4
    <2> QED
      BY <2>4, <2>5, <2>6
  <1> QED
    BY <1>1, <1>2

\* A step that leaves the database alone leaves it well typed.
LEMMA TablesFrame == TablesOK /\ UNCHANGED tables => TablesOK'
  BY DEF TablesOK, tables

\* Every step, one case per action, keeps the types.
LEMMA NextType == TypeOK /\ [Next]_vars => TypeOK'
  <1> SUFFICES ASSUME TypeOK, [Next]_vars PROVE TypeOK'
    OBVIOUS
  <1> USE DEF session, control, queue, handler, timers, reporter, history
  <1>1. CASE EndPreviousSession
    <2>1. stored' \subseteq DurEvent
      <3>1. CASE session_row = NoRow
        BY <1>1, <3>1 DEF EndPreviousSession, TypeOK
      <3>2. CASE session_row # NoRow
        <4>1. PICK id \in EventId(GameEnd) : /\ AddOrMergeEvent(GameEnd, id)
                                             /\ stored' = stored \cup {[GameEnd EXCEPT !.id = id]}
          BY <1>1, <3>2 DEF EndPreviousSession
        <4>2. GameEnd \in DurEvent
          BY <3>2, RecordTypes
        <4>3. id \in Nat
          BY <4>1, <4>2, AddOrMergeType DEF TypeOK
        <4> QED
          BY <4>1, <4>2, <4>3, EventWithId DEF TypeOK
      <3> QED
        BY <3>1, <3>2
    <2>2. user_id' \in Users \cup {NoUser}
      BY <1>1 DEF EndPreviousSession, TypeOK, TablesOK, GameSession
    <2>3. TablesOK'
      BY <1>1, RecordTypes, AddOrMergeType, TablesFrame DEF EndPreviousSession, TypeOK, tables
    <2>4. clock' \in Nat
      BY <1>1 DEF EndPreviousSession, StepClock, TypeOK
    <2> QED
      BY <1>1, <2>1, <2>2, <2>3, <2>4 DEF EndPreviousSession, TypeOK
  <1>2. CASE StartSession
    <2>1. local_session' \in GameSession
      <3>1. launches + 1 \in Nat
        BY DEF TypeOK
      <3> QED
        BY <1>2, <3>1, RecordTypes DEF StartSession, NewGameSession, InitHistory
    <2>2. report_config' \in ReportConfig
      BY <1>2 DEF StartSession, NewGameSession, InitHistory, TypeOK, TablesOK
    <2>3. report_queue' \in Seq(DurEvent)
      <3> DEFINE live == {i \in DOMAIN dur_event : ~EventExpired(dur_event[i], report_config')}
      <3>1. PICK n \in 0..sqlite_seq : \E ids \in [1..n -> live] :
               report_queue' = [i \in 1..n |-> dur_event[ids[i]]]
        BY <1>2 DEF StartSession, NewGameSession, InitHistory
      <3>2. PICK ids \in [1..n -> live] : report_queue' = [i \in 1..n |-> dur_event[ids[i]]]
        BY <3>1
      <3>3. n \in Nat
        BY <3>1 DEF TypeOK, TablesOK
      <3>4. \A i \in 1..n : dur_event[ids[i]] \in DurEvent
        BY <3>2 DEF TypeOK, TablesOK
      <3> QED
        BY <3>2, <3>3, <3>4
    <2>4. TablesOK'
      BY <1>2, <2>1, UpdateType DEF StartSession, NewGameSession, InitHistory, TypeOK
    <2> QED
      BY <1>2, <2>1, <2>2, <2>3, <2>4 DEF StartSession, NewGameSession, InitHistory, TypeOK
  <1>3. CASE Crash
    <2>1. local_session' \in GameSession /\ app_event' \in DurEvent /\ report_config' \in ReportConfig
      BY <1>3, DefaultsType DEF Crash, Reset
    <2>2. report_queue' \in Seq(DurEvent) /\ batch' \in Seq(DurEvent)
      BY <1>3 DEF Crash, Reset
    <2>3. TablesOK'
      BY <1>3, TablesFrame DEF Crash, TypeOK
    <2> QED
      BY <1>3, <2>1, <2>2, <2>3 DEF Crash, Reset, TypeOK
  <1>4. CASE Joined
    <2>1. local_session' \in GameSession /\ app_event' \in DurEvent /\ report_config' \in ReportConfig
      BY <1>4, DefaultsType DEF Joined, Reset
    <2>2. report_queue' \in Seq(DurEvent) /\ batch' \in Seq(DurEvent)
      BY <1>4 DEF Joined, Reset
    <2>3. TablesOK'
      BY <1>4, TablesFrame DEF Joined, TypeOK
    <2> QED
      BY <1>4, <2>1, <2>2, <2>3 DEF Joined, Reset, TypeOK
  <1>5. CASE Close
    <2>1. TablesOK'
      BY <1>5, TablesFrame DEF Close, TypeOK
    <2>2. running' \in BOOLEAN /\ stopped' \in BOOLEAN /\ UNCHANGED set_back
      BY <1>5 DEF Close, Stop, TypeOK
    <2> QED
      BY <1>5, <2>1, <2>2 DEF Close, TypeOK
  <1>6. CASE Tick
    <2>1. TablesOK'
      BY <1>6, TablesFrame DEF Tick, TypeOK
    <2> QED
      BY <1>6, <2>1 DEF Tick, TypeOK
  <1>7. ASSUME NEW g \in Games, GameStart(g)
         PROVE  TypeOK'
    <2>1. app_event' \in DurEvent
      BY <1>7, EventOfType DEF GameStart, TypeOK, EventAction
    <2>2. TablesOK'
      BY <1>7, TablesFrame DEF GameStart, TypeOK
    <2> QED
      BY <1>7, <2>1, <2>2 DEF GameStart, TypeOK
  <1>8. CASE OnBackground \/ OnForeground
    <2>1. local_session' \in GameSession
      BY <1>8, RecordTypes DEF OnBackground, OnForeground, OnWindow
    <2>2. app_event' \in DurEvent
      <3>1. local_session.last_timestamp \in Nat
        BY DEF TypeOK, GameSession
      <3>2. PICK a \in EventAction :
               app_event' = EventOf(a, user_id, game_id, local_session.last_timestamp)
        BY <1>8 DEF OnBackground, OnForeground, OnWindow, EventAction
      <3>3. user_id \in Users \cup {NoUser} /\ game_id \in Games \cup {NoGame}
        BY DEF TypeOK
      <3> QED
        BY <3>1, <3>2, <3>3, EventOfType
    <2>3. TablesOK'
      BY <1>8, RecordTypes, UpdateType DEF OnBackground, OnForeground, OnWindow, TypeOK
    <2>4. /\ UNCHANGED <<proc, clock, launches, game_id, user_id, control, queue, timers, reporter, history>>
          /\ foreground' \in BOOLEAN /\ app' = "store"
      BY <1>8 DEF OnBackground, OnForeground, OnWindow
    <2> QED
      BY <2>1, <2>2, <2>3, <2>4 DEF TypeOK
  <1>9. ASSUME NEW u \in Users, Login(u)
         PROVE  TypeOK'
    <2>1. local_session' \in GameSession
      BY <1>9, RecordTypes DEF Login
    <2>2. app_event' \in DurEvent
      BY <1>9, EventOfType DEF Login, TypeOK, EventAction, GameSession
    <2>3. TablesOK'
      BY <1>9, RecordTypes, UpdateType DEF Login, TypeOK
    <2> QED
      BY <1>9, <2>1, <2>2, <2>3 DEF Login, TypeOK
  <1>10. CASE LoginAgain
    <2>1. TablesOK'
      BY <1>10, TablesFrame DEF LoginAgain, TypeOK
    <2> QED
      BY <1>10, <2>1 DEF LoginAgain, TypeOK
  <1>11. CASE Logout
    <2>1. local_session' \in GameSession
      BY <1>11, RecordTypes DEF Logout
    <2>2. app_event' \in DurEvent
      BY <1>11, EventOfType DEF Logout, TypeOK, EventAction, GameSession
    <2>3. TablesOK'
      BY <1>11, RecordTypes, UpdateType DEF Logout, TypeOK
    <2> QED
      BY <1>11, <2>1, <2>2, <2>3 DEF Logout, TypeOK
  <1>12. CASE StoreEvent
    <2>1. app_event' \in DurEvent /\ stored' \subseteq DurEvent
      <3>1. PICK id \in EventId(app_event) : /\ AddOrMergeEvent(app_event, id)
                                             /\ app_event' = [app_event EXCEPT !.id = id]
                                             /\ stored' = stored \cup {[app_event EXCEPT !.id = id]}
        BY <1>12 DEF StoreEvent
      <3>2. app_event \in DurEvent /\ stored \subseteq DurEvent
        BY DEF TypeOK
      <3>3. id \in Nat
        BY <3>1, <3>2, AddOrMergeType DEF TypeOK
      <3> QED
        BY <3>1, <3>2, <3>3, EventWithId
    <2>2. TablesOK'
      BY <1>12, AddOrMergeType DEF StoreEvent, TypeOK
    <2> QED
      BY <1>12, <2>1, <2>2 DEF StoreEvent, TypeOK
  <1>13. CASE PutEvent
    <2>1. report_queue' \in Seq(DurEvent)
      BY <1>13 DEF PutEvent, TypeOK
    <2>2. app_event' \in DurEvent
      BY <1>13, DefaultsType DEF PutEvent, TypeOK
    <2>3. app' \in {"idle", "start", "bind"}
      BY <1>13 DEF PutEvent
    <2>4. TablesOK'
      BY <1>13, TablesFrame DEF PutEvent, TypeOK
    <2> QED
      BY <1>13, <2>1, <2>2, <2>3, <2>4 DEF PutEvent, TypeOK
  <1>14. CASE StartGame
    <2>1. local_session' \in GameSession
      BY <1>14, RecordTypes DEF StartGame, TypeOK, DurEvent
    <2>2. app_event' \in DurEvent
      BY <1>14, DefaultsType DEF StartGame
    <2>3. TablesOK'
      BY <1>14, <2>1, UpdateType DEF StartGame, TypeOK
    <2> QED
      BY <1>14, <2>1, <2>2, <2>3 DEF StartGame, TypeOK
  <1>15. CASE BindUser
    <2>1. local_session' \in GameSession
      BY <1>15, RecordTypes DEF BindUser, TypeOK
    <2>2. TablesOK'
      BY <1>15, <2>1, UpdateType DEF BindUser, TypeOK
    <2> QED
      BY <1>15, <2>1, <2>2 DEF BindUser, TypeOK
  <1>16. CASE LocalHeatBeat
    <2>1. local_session' \in GameSession
      BY <1>16, RecordTypes DEF LocalHeatBeat, TypeOK
    <2>2. TablesOK'
      BY <1>16, <2>1, UpdateType DEF LocalHeatBeat, TypeOK
    <2> QED
      BY <1>16, <2>1, <2>2 DEF LocalHeatBeat, TypeOK
  <1>17. CASE OnlineHeatBeat
    <2>1. TablesOK'
      BY <1>17, TablesFrame DEF OnlineHeatBeat, TypeOK
    <2> QED
      BY <1>17, <2>1 DEF OnlineHeatBeat, TypeOK
  <1>18. CASE PutHeatBeat
    <2>1. report_queue' \in Seq(DurEvent)
      BY <1>18 DEF PutHeatBeat, TypeOK, DurEvent, EventAction
    <2>2. TablesOK'
      BY <1>18, TablesFrame DEF PutHeatBeat, TypeOK
    <2> QED
      BY <1>18, <2>1, <2>2 DEF PutHeatBeat, TypeOK
  <1>19. ASSUME NEW e \in BOOLEAN, NEW s \in StartTimes, RefreshConfig([enable |-> e, available_start_ts |-> s])
         PROVE  TypeOK'
    <2>1. report_config' \in ReportConfig
      BY <1>19, DurAssumption DEF RefreshConfig, ReportConfig
    <2>2. clock' \in Nat /\ config_posts' \in Nat
      BY <1>19 DEF RefreshConfig, StepClock, TypeOK
    <2>3. /\ proc' \in {"up", "aborted"} /\ thread' \in {thread, "loop"}
             /\ running' \in BOOLEAN /\ stopped' \in BOOLEAN
      BY <1>19 DEF RefreshConfig, InitReportThread, Stop, TypeOK
    <2>4. TablesOK'
      BY <1>19, <2>1, UpdateType, TablesFrame DEF RefreshConfig, TypeOK
    <2> QED
      BY <1>19, <2>1, <2>2, <2>3, <2>4 DEF RefreshConfig, TypeOK
  <1>20. CASE ReportLoop
    <2>1. batch' \in Seq(DurEvent)
      BY <1>20 DEF ReportLoop
    <2>2. TablesOK'
      BY <1>20, TablesFrame DEF ReportLoop, TypeOK
    <2>3. /\ UNCHANGED <<proc, clock, launches, session, control, queue, handler, timers, history>>
          /\ thread' \in {"take", "exited"} /\ ~has_heat_beats' /\ report_now' = 0
          /\ report_success' = "unset"
      BY <1>20 DEF ReportLoop
    <2>4. has_heat_beats' \in BOOLEAN
      BY <1>20 DEF ReportLoop
    <2> QED
      BY <2>1, <2>2, <2>3, <2>4 DEF TypeOK
  <1>21. CASE Take
    <2>1. batch' \in Seq(DurEvent) /\ report_queue' \in Seq(DurEvent)
      BY <1>21, TakeSplits DEF TypeOK
    <2>2. TablesOK'
      BY <1>21, TablesFrame DEF Take, TypeOK
    <2> QED
      BY <1>21, <2>1, <2>2 DEF Take, TypeOK
  <1>22. CASE Compose \/ ComposeNothing
    <2>1. TablesOK'
      BY <1>22, TablesFrame DEF Compose, ComposeNothing, TypeOK
    <2> QED
      BY <1>22, <2>1 DEF Compose, ComposeNothing, TypeOK
  <1>23. CASE PostAccepted \/ PostRefused \/ PostFailed
    <2>1. answered' \subseteq DurEvent
      BY <1>23 DEF PostAccepted, PostRefused, PostFailed, BatchStored, TypeOK
    <2>2. TablesOK'
      BY <1>23, TablesFrame DEF PostAccepted, PostRefused, PostFailed, TypeOK
    <2> QED
      BY <1>23, <2>1, <2>2 DEF PostAccepted, PostRefused, PostFailed, AfterFailure, TypeOK
  <1>24. CASE DeleteReported \/ DropRefused
    <2>1. TablesOK'
      BY <1>24, DeleteType DEF DeleteReported, DropRefused, TypeOK
    <2> QED
      BY <1>24, <2>1 DEF DeleteReported, DropRefused, TypeOK
  <1>25. CASE AckHeatBeat
    <2>1. local_session' \in GameSession
      BY <1>25, RecordTypes DEF AckHeatBeat, TypeOK
    <2>2. TablesOK'
      BY <1>25, <2>1, UpdateType, TablesFrame, RecordTypes DEF AckHeatBeat, TypeOK, tables
    <2> QED
      BY <1>25, <2>1, <2>2 DEF AckHeatBeat, TypeOK
  <1>26. CASE Retry
    <2>1. TablesOK'
      BY <1>26, TablesFrame DEF Retry, TypeOK
    <2> QED
      BY <1>26, <2>1 DEF Retry, TypeOK
  <1>27. CASE UNCHANGED vars
    <2>1. TablesOK'
      BY <1>27, TablesFrame DEF vars, TypeOK
    <2> QED
      BY <1>27, <2>1 DEF vars, TypeOK
  <1> QED
    BY <1>1, <1>2, <1>3, <1>4, <1>5, <1>6, <1>7, <1>8, <1>9, <1>10, <1>11,
       <1>12, <1>13, <1>14, <1>15, <1>16, <1>17, <1>18, <1>19, <1>20, <1>21,
       <1>22, <1>23, <1>24, <1>25, <1>26, <1>27
    DEF Next, Life, AppCall, AppStep, TimerStep, Config, Report, Post

\* Every variable of the duration statistics keeps its type.
THEOREM TypeCorrect == Spec => []TypeOK
  BY InitType, NextType, PTL DEF Spec

-----------------------------------------------------------------------------
(* The disk is an outbox.  KeptUntilAnswered is not inductive alone: it     *)
(* needs that Delete is reached only with events the collector answered,    *)
(* that a heart beat has no id Delete could act on, that everything on its  *)
(* way was stored, and that events share an id only as repetitions of one   *)
(* another (SharedRows), which in turn needs that an id is never given out  *)
(* twice.                                                                   *)

Outgoing(e) == IF Is(e, "HEAT_BEAT") THEN e.id = 0 ELSE e \in stored

RowsStored == \A i \in DOMAIN dur_event : dur_event[i] \in stored /\ dur_event[i].id = i

SharedRows ==
    /\ \A e \in stored : e.id <= sqlite_seq
    /\ \A e, g \in stored : e.id = g.id => e.action = g.action /\ e.session = g.session

\* The events of row i: one of them is answered or is the row.
Accounted(i) == i \in DOMAIN dur_event \/ \E g \in answered : g.id = i

OutboxInv ==
    /\ RowsStored
    /\ SharedRows
    /\ answered \subseteq stored
    /\ \A e \in stored : Accounted(e.id)
    /\ \A k \in DOMAIN report_queue : Outgoing(report_queue[k])
    /\ \A k \in DOMAIN batch : Outgoing(batch[k])
    /\ \A e \in stored : ~Is(e, "HEAT_BEAT")
    /\ app = "store" => ~Is(app_event, "HEAT_BEAT")
    /\ app = "put" => app_event \in stored
    /\ thread \in {"delete", "drop"} => BatchStored \subseteq answered

\* A step that moves no event keeps the invariant.
LEMMA OutboxQuiet ==
    ASSUME OutboxInv,
           UNCHANGED <<dur_event, sqlite_seq, stored, answered, report_queue, batch>>,
           app' = "put" => app = "put" /\ app_event' = app_event,
           app' = "store" => ~Is(app_event', "HEAT_BEAT"),
           thread' \in {"delete", "drop"} => thread \in {"delete", "drop"}
    PROVE  OutboxInv'
  BY DEF OutboxInv, RowsStored, SharedRows, Accounted, Outgoing, BatchStored, Is

\* AddOrMergeEvent with the event recorded keeps the table's part of it.
LEMMA OutboxStore ==
    ASSUME TypeOK, RowsStored, SharedRows, \A e \in stored : Accounted(e.id), NEW e \in DurEvent,
           NEW id \in EventId(e), AddOrMergeEvent(e, id),
           stored' = stored \cup {[e EXCEPT !.id = id]}, answered' = answered
    PROVE  RowsStored' /\ SharedRows' /\ \A g \in stored' : Accounted(g.id)'
  <1> DEFINE new == [e EXCEPT !.id = id]
  <1>1. /\ DOMAIN dur_event' = DOMAIN dur_event \cup {id}
        /\ dur_event'[id] = new
        /\ \A i \in DOMAIN dur_event : i # id => dur_event'[i] = dur_event[i]
        /\ id \in Nat /\ id <= sqlite_seq' /\ sqlite_seq <= sqlite_seq'
    BY AddOrMergeType DEF TypeOK
  <1>2. new.id = id /\ new.action = e.action /\ new.session = e.session
    BY <1>1, EventWithId
  <1>3. sqlite_seq \in Nat /\ sqlite_seq' \in Nat /\ \A g \in stored : g.id \in Nat
    BY AddOrMergeType DEF TypeOK, TablesOK, DurEvent
  <1>4. \A g \in stored : g.id = id => g.action = e.action /\ g.session = e.session
    <2>1. CASE id \in MergeTarget(e)
      BY <2>1 DEF MergeTarget, RowsStored, SharedRows
    <2>2. CASE id = sqlite_seq + 1
      BY <1>3, <2>2 DEF SharedRows
    <2> QED
      BY <2>1, <2>2 DEF EventId
  <1> HIDE DEF new
  <1>5. stored' = stored \cup {new}
    BY DEF new
  <1>6. RowsStored'
    BY <1>1, <1>2, <1>5 DEF RowsStored
  <1>7. SharedRows'
    <2>1. \A g \in stored' : g.id <= sqlite_seq'
      BY <1>1, <1>2, <1>3, <1>5 DEF SharedRows
    <2>2. \A g, h \in stored' : g.id = h.id => g.action = h.action /\ g.session = h.session
      BY <1>2, <1>4, <1>5 DEF SharedRows
    <2> QED
      BY <2>1, <2>2 DEF SharedRows
  <1>8. \A g \in stored' : Accounted(g.id)'
    BY <1>1, <1>2, <1>5 DEF Accounted
  <1> QED
    BY <1>6, <1>7, <1>8

\* Before the first launch nothing is stored, queued or in flight.
LEMMA OutboxInit == Init => OutboxInv
  BY DEF Init, InitDB, OutboxInv, RowsStored, SharedRows

\* Every handler, timer and reporter step keeps each row answered for or on disk.
LEMMA OutboxNext == TypeOK /\ OutboxInv /\ [Next]_vars => OutboxInv'
  <1> SUFFICES ASSUME TypeOK, OutboxInv, [Next]_vars PROVE OutboxInv'
    OBVIOUS
  <1> USE DEF tables, session, control, queue, handler, timers, reporter, history
  <1>0. app = "store" => ~Is(app_event, "HEAT_BEAT")
    BY DEF OutboxInv
  <1>1. CASE EndPreviousSession
    <2>1. CASE session_row = NoRow
      BY <1>0, <1>1, <2>1, OutboxQuiet DEF EndPreviousSession, Is
    <2>2. CASE session_row # NoRow
      <3>1. PICK id \in EventId(GameEnd) : /\ AddOrMergeEvent(GameEnd, id)
                                           /\ stored' = stored \cup {[GameEnd EXCEPT !.id = id]}
        BY <1>1, <2>2 DEF EndPreviousSession
      <3>2. GameEnd \in DurEvent /\ id \in Nat
        BY <2>2, <3>1, RecordTypes, AddOrMergeType DEF TypeOK
      <3>3. UNCHANGED <<answered, report_queue, batch, app, app_event, thread>>
        BY <1>1 DEF EndPreviousSession
      <3>4. RowsStored' /\ SharedRows' /\ \A g \in stored' : Accounted(g.id)'
        BY <3>1, <3>2, <3>3, OutboxStore DEF OutboxInv
      <3>5. ~Is([GameEnd EXCEPT !.id = id], "HEAT_BEAT")
        BY <3>2, EventWithId DEF GameEnd, Is
      <3> QED
        BY <3>1, <3>3, <3>4, <3>5 DEF OutboxInv, Outgoing, BatchStored, Is
    <2> QED
      BY <2>1, <2>2
  <1>2. CASE StartSession
    <2> DEFINE live == {i \in DOMAIN dur_event : ~EventExpired(dur_event[i], report_config')}
    <2>1. PICK n \in 0..sqlite_seq : \E ids \in [1..n -> live] :
             report_queue' = [i \in 1..n |-> dur_event[ids[i]]]
      BY <1>2 DEF StartSession, NewGameSession, InitHistory
    <2>2. PICK ids \in [1..n -> live] : report_queue' = [i \in 1..n |-> dur_event[ids[i]]]
      BY <2>1
    <2>3. UNCHANGED <<dur_event, sqlite_seq, stored, answered, batch, app, app_event>>
      BY <1>2 DEF StartSession, NewGameSession, InitHistory, UpdateSession
    <2>4. thread' \notin {"delete", "drop"}
      BY <1>2 DEF StartSession, NewGameSession, InitHistory
    <2>5. \A k \in DOMAIN report_queue' : report_queue'[k] \in stored
      BY <2>2 DEF OutboxInv, RowsStored
    <2>6. \A k \in DOMAIN report_queue' : Outgoing(report_queue'[k])
      BY <2>3, <2>5 DEF OutboxInv, Outgoing
    <2> QED
      BY <2>3, <2>4, <2>6 DEF OutboxInv, RowsStored, SharedRows, Accounted, Outgoing, BatchStored, Is
  <1>3. CASE Crash \/ Joined
    BY <1>3 DEF Crash, Joined, Reset, OutboxInv, RowsStored, SharedRows, Accounted, Outgoing
  <1>4. CASE Close \/ Tick \/ LoginAgain
    BY <1>0, <1>4, OutboxQuiet DEF Close, Tick, LoginAgain, Is
  <1>5. ASSUME NEW g \in Games, GameStart(g) PROVE OutboxInv'
    BY <1>5, OutboxQuiet DEF GameStart, EventOf, Is
  <1>6. CASE OnBackground \/ OnForeground
    BY <1>6, OutboxQuiet DEF OnBackground, OnForeground, OnWindow, UpdateSession, EventOf, Is
  <1>7. ASSUME NEW u \in Users, Login(u) PROVE OutboxInv'
    BY <1>7, OutboxQuiet DEF Login, UpdateSession, EventOf, Is
  <1>8. CASE Logout
    BY <1>8, OutboxQuiet DEF Logout, UpdateSession, EventOf, Is
  <1>9. CASE StoreEvent
    <2>1. PICK id \in EventId(app_event) : /\ AddOrMergeEvent(app_event, id)
                                           /\ app_event' = [app_event EXCEPT !.id = id]
                                           /\ stored' = stored \cup {[app_event EXCEPT !.id = id]}
      BY <1>9 DEF StoreEvent
    <2>2. app_event \in DurEvent /\ id \in Nat
      BY <2>1, AddOrMergeType DEF TypeOK
    <2>3. UNCHANGED <<answered, report_queue, batch, thread>> /\ app' = "put"
      BY <1>9 DEF StoreEvent
    <2>4. RowsStored' /\ SharedRows' /\ \A g \in stored' : Accounted(g.id)'
      BY <2>1, <2>2, <2>3, OutboxStore DEF OutboxInv
    <2>5. ~Is([app_event EXCEPT !.id = id], "HEAT_BEAT")
      BY <1>0, <1>9, <2>2, EventWithId DEF StoreEvent, Is
    <2> QED
      BY <2>1, <2>3, <2>4, <2>5 DEF OutboxInv, Outgoing, BatchStored, Is
  <1>10. CASE PutEvent
    <2>1. /\ UNCHANGED <<dur_event, sqlite_seq, stored, answered, batch, thread>>
          /\ app' \notin {"store", "put"}
          /\ report_queue' = Append(report_queue, app_event)
      BY <1>10 DEF PutEvent
    <2>2. app_event \in stored /\ Outgoing(app_event)
      BY <1>10 DEF PutEvent, OutboxInv, Outgoing
    <2>3. \A k \in DOMAIN report_queue' : Outgoing(report_queue'[k])
      BY <2>1, <2>2 DEF OutboxInv, TypeOK
    <2> QED
      BY <2>1, <2>3 DEF OutboxInv, RowsStored, SharedRows, Accounted, Outgoing, BatchStored, Is
  <1>11. CASE StartGame \/ BindUser
    BY <1>11, OutboxQuiet DEF StartGame, BindUser, UpdateSession
  <1>12. CASE LocalHeatBeat \/ OnlineHeatBeat
    BY <1>0, <1>12, OutboxQuiet DEF LocalHeatBeat, OnlineHeatBeat, UpdateSession, Is
  <1>13. CASE PutHeatBeat
    <2> DEFINE beat == [id |-> 0, action |-> "HEAT_BEAT", session |-> launches, user |-> user_id,
                        game |-> game_id, timestamp |-> 0, last_timestamp |-> 0]
    <2>1. /\ UNCHANGED <<dur_event, sqlite_seq, stored, answered, batch, thread, app, app_event>>
          /\ report_queue' = Append(report_queue, beat)
      BY <1>13 DEF PutHeatBeat
    <2>2. Outgoing(beat)
      BY DEF Outgoing, Is
    <2> HIDE DEF beat
    <2>3. \A k \in DOMAIN report_queue' : Outgoing(report_queue'[k])
      BY <2>1, <2>2 DEF OutboxInv, TypeOK
    <2> QED
      BY <2>1, <2>3 DEF OutboxInv, RowsStored, SharedRows, Accounted, Outgoing, BatchStored, Is
  <1>14. ASSUME NEW e \in BOOLEAN, NEW s \in StartTimes,
                RefreshConfig([enable |-> e, available_start_ts |-> s])
         PROVE  OutboxInv'
    <2>1. /\ UNCHANGED <<dur_event, sqlite_seq, stored, answered, report_queue, batch, app, app_event>>
          /\ thread' \in {thread, "loop"}
      BY <1>14 DEF RefreshConfig, UpdateConfig, InitReportThread, Stop
    <2> QED
      BY <1>0, <2>1, OutboxQuiet DEF Is
  <1>15. CASE ReportLoop
    BY <1>15 DEF ReportLoop, OutboxInv, RowsStored, SharedRows, Accounted, Outgoing, Is
  <1>16. CASE Take
    <2>1. UNCHANGED <<dur_event, sqlite_seq, stored, answered, app, app_event>> /\ thread' = "compose"
      BY <1>16 DEF Take
    <2>2. /\ \A k \in DOMAIN batch' : Outgoing(batch'[k])
          /\ \A k \in DOMAIN report_queue' : Outgoing(report_queue'[k])
      <3>1. CASE batch' = batch /\ report_queue' = report_queue
        BY <3>1 DEF OutboxInv
      <3>2. ASSUME NEW n \in 1..Len(report_queue),
                   /\ batch' \in Seq(DurEvent) /\ report_queue' \in Seq(DurEvent)
                   /\ Len(batch') = n /\ Len(report_queue') = Len(report_queue) - n
                   /\ \A k \in 1..n : batch'[k] = report_queue[k]
                   /\ \A k \in 1..Len(report_queue') : report_queue'[k] = report_queue[n + k]
            PROVE  /\ \A k \in DOMAIN batch' : Outgoing(batch'[k])
                   /\ \A k \in DOMAIN report_queue' : Outgoing(report_queue'[k])
        <4>1. /\ DOMAIN batch' = 1..n
              /\ DOMAIN report_queue' = 1..(Len(report_queue) - n)
              /\ DOMAIN report_queue = 1..Len(report_queue) /\ Len(report_queue) \in Nat
          BY <3>2 DEF TypeOK
        <4>2. \A k \in DOMAIN report_queue : Outgoing(report_queue[k])
          BY DEF OutboxInv
        <4>3. \A k \in DOMAIN batch' : Outgoing(batch'[k])
          BY <3>2, <4>1, <4>2
        <4>4. ASSUME NEW k \in DOMAIN report_queue' PROVE Outgoing(report_queue'[k])
          <5>1. n + k \in DOMAIN report_queue /\ report_queue'[k] = report_queue[n + k]
            BY <3>2, <4>1
          <5> QED
            BY <4>2, <5>1
        <4> QED
          BY <4>3, <4>4
      <3> QED
        BY <1>16, <3>1, <3>2, TakeSplits
    <2> QED
      BY <2>1, <2>2 DEF OutboxInv, RowsStored, SharedRows, Accounted, Outgoing, Is
  <1>17. CASE Compose \/ ComposeNothing \/ PostFailed \/ Retry
    BY <1>0, <1>17, OutboxQuiet DEF Compose, ComposeNothing, PostFailed, AfterFailure, Retry, Is
  <1>18. CASE PostAccepted \/ PostRefused
    BY <1>18 DEF PostAccepted, PostRefused, OutboxInv, RowsStored, SharedRows, Accounted, Outgoing,
                 BatchStored, Is
  <1>19. CASE DeleteReported \/ DropRefused
    <2>1. /\ UNCHANGED <<stored, answered, report_queue, batch, app, app_event>>
          /\ thread' \notin {"delete", "drop"} /\ thread \in {"delete", "drop"}
          /\ Delete(batch)
      BY <1>19 DEF DeleteReported, DropRefused
    <2>2. /\ DOMAIN dur_event' \subseteq DOMAIN dur_event
          /\ \A i \in DOMAIN dur_event' : dur_event'[i] = dur_event[i]
          /\ \A i \in DOMAIN dur_event \ DOMAIN dur_event' : \E k \in DOMAIN batch : batch[k].id = i
      BY <2>1, DeleteType DEF TypeOK
    <2>3. \A i \in DOMAIN dur_event \ DOMAIN dur_event' : \E g \in answered : g.id = i
      <3> SUFFICES ASSUME NEW i \in DOMAIN dur_event \ DOMAIN dur_event'
                   PROVE  \E g \in answered : g.id = i
        OBVIOUS
      <3>1. PICK k \in DOMAIN batch : batch[k].id = i
        BY <2>2
      <3>2. i # 0
        BY DEF TypeOK, TablesOK
      <3>3. ~Is(batch[k], "HEAT_BEAT")
        BY <3>1, <3>2 DEF OutboxInv, Outgoing
      <3>4. batch[k] \in BatchStored
        BY <3>3 DEF BatchStored
      <3> QED
        BY <2>1, <3>1, <3>4 DEF OutboxInv
    <2>4. RowsStored'
      BY <2>1, <2>2 DEF OutboxInv, RowsStored
    <2>5. \A e \in stored : Accounted(e.id)'
      BY <2>1, <2>3 DEF OutboxInv, Accounted
    <2>6. SharedRows'
      BY <2>1 DEF Delete, OutboxInv, SharedRows
    <2> QED
      BY <2>1, <2>4, <2>5, <2>6 DEF OutboxInv, Outgoing, Is
  <1>20. CASE AckHeatBeat
    BY <1>0, <1>20, OutboxQuiet DEF AckHeatBeat, UpdateSession, Is
  <1>21. CASE UNCHANGED vars
    BY <1>0, <1>21, OutboxQuiet DEF vars, Is
  <1> QED
    BY <1>1, <1>2, <1>3, <1>4, <1>5, <1>6, <1>7, <1>8, <1>9, <1>10, <1>11, <1>12, <1>13,
       <1>14, <1>15, <1>16, <1>17, <1>18, <1>19, <1>20, <1>21
    DEF Next, Life, AppCall, AppStep, TimerStep, Config, Report, Post

\* An event is on disk until its own answer; with an event it shares its row with,
\* until the answer to either.
THEOREM Kept == Spec => []KeptUntilAnswered
  <1>1. ASSUME OutboxInv PROVE KeptUntilAnswered
    <2> SUFFICES ASSUME NEW e \in stored, ~(e \in answered), ~OnDisk(e)
                 PROVE  \E g \in stored \ {e} :
                           /\ g.id = e.id /\ g.action = e.action /\ g.session = e.session
                           /\ g \in answered \/ OnDisk(g)
      BY DEF KeptUntilAnswered
    <2>1. CASE e.id \in DOMAIN dur_event
      <3>1. dur_event[e.id] \in stored /\ dur_event[e.id].id = e.id /\ dur_event[e.id] # e
        BY <1>1, <2>1 DEF OutboxInv, RowsStored, OnDisk
      <3>2. OnDisk(dur_event[e.id])
        BY <2>1, <3>1 DEF OnDisk
      <3> QED
        BY <1>1, <3>1, <3>2 DEF OutboxInv, SharedRows
    <2>2. CASE \E g \in answered : g.id = e.id
      BY <1>1, <2>2 DEF OutboxInv, SharedRows
    <2> QED
      BY <1>1, <2>1, <2>2 DEF OutboxInv, Accounted
  <1> QED
    BY <1>1, TypeCorrect, OutboxInit, OutboxNext, PTL DEF Spec

\* Waiting: the batch, then the queue, then the event about to be put.
PartsOfWaiting ==
    /\ Waiting \in Seq(DurEvent)
    /\ Len(batch) \in Nat /\ Len(report_queue) \in Nat
    /\ Len(Waiting) = Len(batch) + Len(report_queue) + (IF app = "put" THEN 1 ELSE 0)
    /\ \A k \in 1..Len(batch) : Waiting[k] = batch[k]
    /\ \A k \in 1..Len(report_queue) : Waiting[Len(batch) + k] = report_queue[k]
    /\ app = "put" => Waiting[Len(batch) + Len(report_queue) + 1] = app_event

\* Where an element of three concatenated sequences stands.
LEMMA ThreeParts ==
    ASSUME NEW S, NEW r \in Seq(S), NEW s \in Seq(S), NEW t \in Seq(S),
           NEW w, w = (r \o s) \o t
    PROVE  /\ w \in Seq(S)
           /\ Len(r) \in Nat /\ Len(s) \in Nat /\ Len(t) \in Nat
           /\ Len(w) = Len(r) + Len(s) + Len(t)
           /\ \A k \in 1..Len(r) : w[k] = r[k]
           /\ \A k \in 1..Len(s) : w[Len(r) + k] = s[k]
           /\ \A k \in 1..Len(t) : w[Len(r) + Len(s) + k] = t[k]
  <1>1. /\ r \o s \in Seq(S) /\ Len(r \o s) = Len(r) + Len(s)
        /\ Len(r) \in Nat /\ Len(s) \in Nat /\ Len(t) \in Nat
    OBVIOUS
  <1>2. /\ w \in Seq(S)
        /\ Len(w) = Len(r) + Len(s) + Len(t)
    BY <1>1
  <1>3. \A k \in 1..Len(r) : w[k] = r[k]
    BY <1>1
  <1>4. \A k \in 1..Len(s) : w[Len(r) + k] = s[k]
    BY <1>1
  <1>5. \A k \in 1..Len(t) : w[Len(r) + Len(s) + k] = t[k]
    BY <1>1
  <1> QED
    BY <1>1, <1>2, <1>3, <1>4, <1>5

\* Waiting has its parts in every state,
LEMMA WaitingParts == TypeOK => PartsOfWaiting
  <1> SUFFICES ASSUME TypeOK PROVE PartsOfWaiting
    OBVIOUS
  <1> DEFINE last == IF app = "put" THEN <<app_event>> ELSE <<>>
  <1>1. /\ batch \in Seq(DurEvent) /\ report_queue \in Seq(DurEvent) /\ last \in Seq(DurEvent)
        /\ Waiting = (batch \o report_queue) \o last
    BY DEF TypeOK, Waiting
  <1>2. /\ Len(last) = IF app = "put" THEN 1 ELSE 0
        /\ app = "put" => last[1] = app_event
    OBVIOUS
  <1> HIDE DEF last
  <1>3. app = "put" => 1 \in 1..Len(last)
    BY <1>2
  <1>4. /\ Waiting \in Seq(DurEvent)
        /\ Len(batch) \in Nat /\ Len(report_queue) \in Nat
        /\ Len(Waiting) = Len(batch) + Len(report_queue) + Len(last)
        /\ \A k \in 1..Len(batch) : Waiting[k] = batch[k]
        /\ \A k \in 1..Len(report_queue) : Waiting[Len(batch) + k] = report_queue[k]
        /\ \A k \in 1..Len(last) : Waiting[Len(batch) + Len(report_queue) + k] = last[k]
    BY <1>1, ThreeParts
  <1> QED
    BY <1>2, <1>3, <1>4 DEF PartsOfWaiting

\* and so in the next one.
LEMMA WaitingPartsNext == TypeOK' => PartsOfWaiting'
  BY WaitingParts, PTL

\* Nothing waits but heart beats without an id and events on record.
LEMMA WaitingOutgoing ==
    ASSUME TypeOK, OutboxInv, NEW i \in DOMAIN Waiting
    PROVE  Outgoing(Waiting[i])
  <1> DEFINE b == Len(batch)
             q == Len(report_queue)
  <1>1. b \in Nat /\ q \in Nat /\ i \in 1..(b + q + (IF app = "put" THEN 1 ELSE 0))
    BY WaitingParts DEF PartsOfWaiting
  <1>2. CASE i <= b
    <2>1. i \in 1..b /\ DOMAIN batch = 1..b
      BY <1>1, <1>2 DEF TypeOK
    <2>2. Waiting[i] = batch[i]
      BY <2>1, WaitingParts, WaitingPartsNext DEF PartsOfWaiting
    <2> QED
      BY <2>1, <2>2 DEF OutboxInv
  <1>3. CASE b < i /\ i <= b + q
    <2>1. i - b \in 1..q /\ DOMAIN report_queue = 1..q /\ b + (i - b) = i
      BY <1>1, <1>3 DEF TypeOK
    <2>2. Waiting[b + (i - b)] = report_queue[i - b]
      BY <2>1, WaitingParts, WaitingPartsNext DEF PartsOfWaiting
    <2> QED
      BY <2>1, <2>2 DEF OutboxInv
  <1>4. CASE b + q < i
    <2>1. app = "put" /\ i = b + q + 1
      BY <1>1, <1>4
    <2>2. Waiting[i] = app_event
      BY <2>1, WaitingParts, WaitingPartsNext DEF PartsOfWaiting
    <2> QED
      BY <2>1, <2>2 DEF OutboxInv, Outgoing
  <1> QED
    BY <1>1, <1>2, <1>3, <1>4

\* Everything queued or in flight is on record, and every row is one of the events.
THEOREM StoredBeforeSent == Spec => []StoredFirst
  <1>1. TypeOK /\ OutboxInv => StoredFirst
    BY WaitingOutgoing DEF StoredFirst, OutboxInv, RowsStored, Outgoing
  <1> QED
    BY <1>1, TypeCorrect, OutboxInit, OutboxNext, PTL DEF Spec

-----------------------------------------------------------------------------
(* One GAME_END per session.  The launch that ends a session may be cut off *)
(* before it starts its own, and the next one ends the same session again:  *)
(* the second GAME_END must find the first as the newest row and merge.     *)
(* So the invariant follows that row as long as its session is the latest.  *)

EndIsNewest(e) ==
    /\ proc \in {"down", "init"}
    /\ e.id = sqlite_seq
    /\ sqlite_seq \in DOMAIN dur_event
    /\ dur_event[sqlite_seq].action = "GAME_END"
    /\ dur_event[sqlite_seq].session = launches

SessionInv ==
    /\ \A e \in stored : e.id <= sqlite_seq /\ e.session <= launches
    /\ session_row # NoRow => session_row.session = launches
    /\ proc \in {"up", "closing", "aborted"} => local_session.session = launches
    /\ app = "store" => /\ proc \in {"up", "aborted"}
                        /\ app_event.session = launches /\ ~Is(app_event, "GAME_END")
    /\ \A e \in stored : Is(e, "GAME_END") /\ e.session = launches => EndIsNewest(e)
    /\ SessionEndsOnce

\* A step that stores nothing, outside a launch.
LEMMA SessionQuiet ==
    ASSUME SessionInv,
           UNCHANGED <<stored, launches, sqlite_seq>>,
           \/ proc \notin {"down", "init"}
           \/ dur_event' = dur_event /\ proc' \in {"down", "init"},
           \/ session_row' = session_row
           \/ session_row' = local_session' /\ local_session'.session = launches,
           proc' \in {"up", "closing", "aborted"} => local_session'.session = launches,
           app' = "store" => /\ proc' \in {"up", "aborted"}
                             /\ app_event'.session = launches /\ ~Is(app_event', "GAME_END")
    PROVE  SessionInv'
  BY DEF SessionInv, SessionEndsOnce, EndIsNewest, Is

\* Before the first launch there is no session.
LEMMA SessionInit == Init => SessionInv
  BY DefaultsType DEF Init, InitDB, SessionInv, SessionEndsOnce

\* The GAME_END of a launch gets the newest id: that of an earlier GAME_END of the
\* same session, or a new one.
LEMMA GameEndId ==
    ASSUME TypeOK, RowsStored, SessionInv, session_row # NoRow, proc = "down",
           NEW id \in EventId(GameEnd)
    PROVE  /\ \A e \in stored : e.id <= id
           /\ id >= sqlite_seq
           /\ \A e \in stored : Is(e, "GAME_END") /\ e.session = launches => e.id = id
  <1>1. /\ GameEnd.action = "GAME_END" /\ GameEnd.session = launches
        /\ sqlite_seq \in Nat /\ DOMAIN dur_event \subseteq 1..sqlite_seq
        /\ id \in Nat /\ \A e \in stored : e.id \in Nat
    BY DEF GameEnd, SessionInv, TypeOK, TablesOK, EventId, DurEvent
  <1>2. CASE \E e \in stored : Is(e, "GAME_END") /\ e.session = launches
    <2>1. PICK e \in stored : Is(e, "GAME_END") /\ e.session = launches
      BY <1>2
    <2>2. EndIsNewest(e)
      BY <2>1 DEF SessionInv
    <2>3. sqlite_seq \in MergeTarget(GameEnd)
      BY <1>1, <2>2 DEF MergeTarget, EndIsNewest
    <2>4. \A i \in MergeTarget(GameEnd) : i = sqlite_seq
      BY <1>1, <2>2 DEF MergeTarget, EndIsNewest
    <2>5. id = sqlite_seq
      BY <1>1, <2>3, <2>4 DEF EventId
    <2> QED
      BY <1>1, <2>5 DEF SessionInv, EndIsNewest
  <1>3. CASE \A e \in stored : ~(Is(e, "GAME_END") /\ e.session = launches)
    <2>1. MergeTarget(GameEnd) = {}
      BY <1>1, <1>3 DEF MergeTarget, RowsStored, Is
    <2>2. id = sqlite_seq + 1
      BY <2>1 DEF EventId
    <2> QED
      BY <1>1, <1>3, <2>2 DEF SessionInv
  <1> QED
    BY <1>2, <1>3

\* Launches, handlers and crashes keep the GAME_END the newest row of its session.
LEMMA SessionNext == TypeOK /\ OutboxInv /\ SessionInv /\ [Next]_vars => SessionInv'
  <1> SUFFICES ASSUME TypeOK, OutboxInv, SessionInv, [Next]_vars PROVE SessionInv'
    OBVIOUS
  <1> USE DEF tables, session, control, queue, handler, timers, reporter, history
  <1>0. /\ app = "store" => /\ proc \in {"up", "aborted"}
                            /\ app_event.session = launches /\ ~Is(app_event, "GAME_END")
        /\ proc \in {"up", "closing", "aborted"} => local_session.session = launches
        /\ proc \in {"down", "init", "up", "closing", "aborted"}
        /\ local_session \in GameSession
    BY DEF SessionInv, TypeOK
  <1>1. CASE EndPreviousSession
    <2>1. CASE session_row = NoRow
      BY <1>0, <1>1, <2>1, SessionQuiet DEF EndPreviousSession, Is
    <2>2. CASE session_row # NoRow
      <3>1. PICK id \in EventId(GameEnd) : /\ AddOrMergeEvent(GameEnd, id)
                                           /\ stored' = stored \cup {[GameEnd EXCEPT !.id = id]}
        BY <1>1, <2>2 DEF EndPreviousSession
      <3> DEFINE new == [GameEnd EXCEPT !.id = id]
      <3>2. /\ UNCHANGED <<launches, app, app_event, session_row>>
            /\ proc = "down" /\ proc' = "init"
        BY <1>1, <3>1 DEF EndPreviousSession, AddOrMergeEvent
      <3>3. GameEnd \in DurEvent /\ TablesOK /\ RowsStored
        BY <2>2, RecordTypes DEF TypeOK, OutboxInv
      <3>4. /\ id \in Nat /\ id \in DOMAIN dur_event' /\ dur_event'[id] = new
            /\ stored' = stored \cup {new}
        <4>1. id \in Nat /\ DOMAIN dur_event' = DOMAIN dur_event \cup {id}
          BY <3>1, <3>3, AddOrMergeType
        <4>2. dur_event'[id] = new
          BY <3>1, <3>3, AddOrMergeType
        <4> QED
          BY <3>1, <4>1, <4>2
      <3>5. new.id = id /\ new.action = "GAME_END" /\ new.session = launches
        BY <2>2, <3>3, <3>4, EventWithId DEF GameEnd, SessionInv
      <3>6. /\ \A e \in stored : e.id <= id
            /\ id >= sqlite_seq
            /\ \A e \in stored : Is(e, "GAME_END") /\ e.session = launches => e.id = id
        BY <2>2, <3>2, <3>3, GameEndId
      <3>7. sqlite_seq' = id
        BY <3>1, <3>4, <3>6 DEF AddOrMergeEvent, TypeOK, TablesOK
      <3> HIDE DEF new
      <3>8. \A e \in stored' : e.id <= sqlite_seq' /\ e.session <= launches'
        BY <3>2, <3>4, <3>5, <3>6, <3>7 DEF SessionInv, TypeOK
      <3>9. \A e \in stored' : Is(e, "GAME_END") /\ e.session = launches' => EndIsNewest(e)'
        BY <3>2, <3>4, <3>5, <3>6, <3>7 DEF EndIsNewest
      <3>10. SessionEndsOnce'
        BY <3>4, <3>5, <3>6 DEF SessionEndsOnce, SessionInv, Is
      <3> QED
        BY <1>0, <3>2, <3>8, <3>9, <3>10 DEF SessionInv, Is
    <2> QED
      BY <2>1, <2>2
  <1>2. CASE StartSession
    <2>1. /\ launches' = launches + 1 /\ launches \in Nat
          /\ UNCHANGED <<stored, sqlite_seq, app, app_event>>
          /\ session_row' = local_session' /\ local_session'.session = launches + 1
      BY <1>0, <1>2 DEF StartSession, NewGameSession, InitHistory, UpdateSession, TypeOK, GameSession
    <2>2. \A e \in stored : e.session \in Nat /\ e.session <= launches
      BY DEF SessionInv, TypeOK, DurEvent
    <2>3. app' # "store"
      BY <1>0, <1>2 DEF StartSession, NewGameSession, InitHistory
    <2> QED
      BY <2>1, <2>2, <2>3 DEF SessionInv, SessionEndsOnce, Is
  <1>3. CASE Crash \/ Joined
    BY <1>0, <1>3 DEF Crash, Joined, Reset, SessionInv, SessionEndsOnce, EndIsNewest, Is
  <1>4. CASE Close \/ LoginAgain
    BY <1>0, <1>4, SessionQuiet DEF Close, LoginAgain, Is
  <1>5. CASE Tick
    BY <1>0, <1>5, SessionQuiet DEF Tick, Is
  <1>6. ASSUME NEW g \in Games, GameStart(g) PROVE SessionInv'
    BY <1>0, <1>6, SessionQuiet DEF GameStart, MayHandle, EventOf, Is
  <1>7. CASE OnBackground \/ OnForeground
    <2>1. /\ UNCHANGED <<stored, launches, sqlite_seq, proc>> /\ proc = "up"
          /\ session_row' = local_session' /\ local_session' = Stamped(local_session)
      BY <1>7 DEF OnBackground, OnForeground, OnWindow, MayHandle, UpdateSession
    <2>2. local_session'.session = launches
      BY <1>0, <2>1 DEF Stamped, GameSession
    <2>3. app_event'.session = launches /\ ~Is(app_event', "GAME_END")
      BY <1>7 DEF OnBackground, OnForeground, OnWindow, EventOf, Is
    <2> QED
      BY <2>1, <2>2, <2>3, SessionQuiet
  <1>8. ASSUME NEW u \in Users, Login(u) PROVE SessionInv'
    BY <1>0, <1>8, SessionQuiet DEF Login, MayHandle, UpdateSession, EventOf, Stamped, Is, GameSession
  <1>9. CASE Logout
    BY <1>0, <1>9, SessionQuiet DEF Logout, MayHandle, UpdateSession, EventOf, Stamped, Is, GameSession
  <1>10. CASE StoreEvent
    <2>1. PICK id \in EventId(app_event) : /\ AddOrMergeEvent(app_event, id)
                                           /\ app_event' = [app_event EXCEPT !.id = id]
                                           /\ stored' = stored \cup {[app_event EXCEPT !.id = id]}
      BY <1>10 DEF StoreEvent
    <2> DEFINE new == [app_event EXCEPT !.id = id]
    <2>2. /\ proc = "up" /\ app = "store" /\ app' = "put"
          /\ UNCHANGED <<proc, launches, local_session, session_row>>
      BY <1>10, <2>1 DEF StoreEvent, AddOrMergeEvent
    <2>3. app_event \in DurEvent /\ TablesOK
      BY DEF TypeOK
    <2>4. id \in Nat /\ id <= sqlite_seq' /\ sqlite_seq <= sqlite_seq' /\ sqlite_seq' \in Nat
      BY <2>1, <2>3, AddOrMergeType DEF TablesOK
    <2>5. /\ new.id = id /\ new.session = launches /\ ~Is(new, "GAME_END")
          /\ stored' = stored \cup {new}
      BY <1>0, <2>1, <2>2, <2>3, <2>4, EventWithId DEF Is
    <2>6. \A e \in stored : e.id \in Nat /\ ~(Is(e, "GAME_END") /\ e.session = launches)
      BY <2>2 DEF SessionInv, EndIsNewest, TypeOK, DurEvent
    <2> HIDE DEF new
    <2>7. \A e \in stored' : e.id <= sqlite_seq' /\ e.session <= launches'
      BY <2>2, <2>3, <2>4, <2>5, <2>6 DEF SessionInv, TypeOK, TablesOK
    <2>8. \A e \in stored' : ~(Is(e, "GAME_END") /\ e.session = launches')
      BY <2>2, <2>5, <2>6
    <2>9. SessionEndsOnce'
      BY <2>5, <2>6 DEF SessionEndsOnce, SessionInv
    <2> QED
      BY <1>0, <2>2, <2>7, <2>8, <2>9 DEF SessionInv
  <1>11. CASE PutEvent
    BY <1>0, <1>11, SessionQuiet DEF PutEvent, Is
  <1>12. CASE StartGame \/ BindUser
    BY <1>0, <1>12, SessionQuiet DEF StartGame, BindUser, UpdateSession, GameSession
  <1>13. CASE LocalHeatBeat
    BY <1>0, <1>13, SessionQuiet DEF LocalHeatBeat, MayBeat, UpdateSession, GameSession, Is
  <1>14. CASE OnlineHeatBeat \/ PutHeatBeat
    BY <1>0, <1>14, SessionQuiet DEF OnlineHeatBeat, MayBeat, PutHeatBeat, Is
  <1>15. ASSUME NEW e \in BOOLEAN, NEW s \in StartTimes,
                RefreshConfig([enable |-> e, available_start_ts |-> s])
         PROVE  SessionInv'
    <2>1. /\ UNCHANGED <<stored, launches, sqlite_seq, session_row, local_session, app, app_event>>
          /\ proc = "up" /\ proc' \in {"up", "aborted"}
      BY <1>15 DEF RefreshConfig, UpdateConfig, InitReportThread
    <2> QED
      BY <1>0, <2>1, SessionQuiet DEF Is
  <1>16. CASE ReportLoop \/ Take \/ Compose \/ ComposeNothing \/ Retry
    BY <1>0, <1>16, SessionQuiet DEF ReportLoop, Take, Compose, ComposeNothing, Retry, Alive, Is
  <1>17. CASE PostAccepted \/ PostRefused \/ PostFailed
    BY <1>0, <1>17, SessionQuiet DEF PostAccepted, PostRefused, PostFailed, Alive, Is
  <1>18. CASE DeleteReported \/ DropRefused
    BY <1>0, <1>18, SessionQuiet DEF DeleteReported, DropRefused, Delete, Alive, Is
  <1>19. CASE AckHeatBeat
    BY <1>0, <1>19, SessionQuiet DEF AckHeatBeat, UpdateSession, Alive, GameSession, Is
  <1>20. CASE UNCHANGED vars
    BY <1>20 DEF vars, SessionInv, SessionEndsOnce, EndIsNewest, Is
  <1> QED
    BY <1>1, <1>2, <1>3, <1>4, <1>5, <1>6, <1>7, <1>8, <1>9, <1>10, <1>11, <1>12, <1>13,
       <1>14, <1>15, <1>16, <1>17, <1>18, <1>19, <1>20
    DEF Next, Life, AppCall, AppStep, TimerStep, Config, Report, Post

\* However often launches are interrupted, a session ends once, with its last event.
THEOREM EndsOnce == Spec => []SessionEndsOnce
  <1>1. SessionInv => SessionEndsOnce
    BY DEF SessionInv
  <1> QED
    BY <1>1, TypeCorrect, OutboxInit, OutboxNext, SessionInit, SessionNext, PTL DEF Spec

-----------------------------------------------------------------------------
(* Order and completeness of what is on its way.  Events merge into the     *)
(* newest row, and rows go when their batch is answered; both keep the      *)
(* order because of three facts about the running session.  Its rows are    *)
(* all in Waiting while the reporter may report (OnTheirWay).  No event in  *)
(* Waiting is newer than the newest row, if that is a row of the session    *)
(* (NewestCovers): so an event that merges is not older than those before   *)
(* it.  And a batch the reporter is done with has no row left (BatchGone):  *)
(* so forgetting it takes no row off its way.                               *)

OnTheirWay ==
    Alive /\ thread # "exited" =>
        \A i \in DOMAIN dur_event :
            dur_event[i].session = launches => \E k \in DOMAIN Waiting : Waiting[k] = dur_event[i]

NewestCovers ==
    \A i \in DOMAIN dur_event, k \in DOMAIN Waiting :
        dur_event[i].session = launches =>
            Waiting[k].id <= i \/ \E j \in DOMAIN dur_event : Waiting[k].id <= j

BatchGone ==
    Alive /\ (thread = "ack" \/ (thread = "loop" /\ running)) =>
        \A k \in DOMAIN batch : batch[k].id \notin DOMAIN dur_event

OrderInv ==
    /\ proc \in {"down", "init"} =>
          batch = <<>> /\ report_queue = <<>> /\ app = "idle" /\ thread = "none"
    /\ thread \in {"none", "take"} => batch = <<>>
    /\ BatchGone
    /\ OnTheirWay
    /\ NewestCovers
    /\ ReportedInOrder

\* Two sequences with the same elements are the same sequence.
LEMMA SameSeq ==
    ASSUME NEW S, NEW s \in Seq(S), NEW t \in Seq(S), Len(s) = Len(t),
           \A k \in 1..Len(s) : s[k] = t[k]
    PROVE  s = t
  OBVIOUS

\* A step that changes neither the parts of Waiting nor the handler's place.
LEMMA WaitingSame ==
    ASSUME UNCHANGED <<batch, report_queue>>,
           app' = "put" <=> app = "put", app = "put" => app_event' = app_event
    PROVE  Waiting' = Waiting
  BY DEF Waiting

\* Take and PutEvent only move events along Waiting.
LEMMA WaitingMoves ==
    ASSUME TypeOK, TypeOK', OrderInv, Take \/ PutEvent
    PROVE  Waiting' = Waiting
  <1> USE DEF handler, queue
  <1>0. Waiting \in Seq(DurEvent) /\ Waiting' \in Seq(DurEvent)
    BY WaitingParts, WaitingPartsNext DEF PartsOfWaiting
  <1>1. CASE Take
    <2>1. app' = app /\ app_event' = app_event /\ batch = <<>>
      BY <1>1 DEF Take, OrderInv
    <2>2. CASE batch' = batch /\ report_queue' = report_queue
      BY <2>1, <2>2, WaitingSame
    <2>3. CASE ~(batch' = batch /\ report_queue' = report_queue)
      <3>1. PICK n \in 1..Len(report_queue) :
                 /\ Len(batch') = n /\ Len(report_queue') = Len(report_queue) - n
                 /\ \A k \in 1..n : batch'[k] = report_queue[k]
                 /\ \A k \in 1..Len(report_queue') : report_queue'[k] = report_queue[n + k]
        BY <1>1, <2>3, TakeSplits
      <3>2. Len(batch) = 0 /\ Len(report_queue) \in Nat
        BY <2>1, WaitingParts, WaitingPartsNext DEF PartsOfWaiting
      <3>3. Len(Waiting') = Len(Waiting)
        BY <2>1, <3>1, <3>2, WaitingParts, WaitingPartsNext DEF PartsOfWaiting
      <3>4. ASSUME NEW k \in 1..Len(Waiting) PROVE Waiting'[k] = Waiting[k]
        <4> DEFINE q == Len(report_queue)
        <4>1. n \in Nat /\ q \in Nat /\ n <= q /\ k \in 1..(q + (IF app = "put" THEN 1 ELSE 0))
          BY <3>1, <3>2, <3>4, WaitingParts, WaitingPartsNext DEF PartsOfWaiting
        <4>2. CASE k <= n
          BY <3>1, <3>2, <4>1, <4>2, WaitingParts, WaitingPartsNext DEF PartsOfWaiting
        <4>3. CASE n < k /\ k <= q
          <5>1. k - n \in 1..Len(report_queue') /\ k = n + (k - n) /\ k = 0 + k /\ k \in 1..q
            BY <3>1, <4>1, <4>3
          <5>2. Waiting'[Len(batch') + (k - n)] = report_queue'[k - n]
            BY <5>1, WaitingParts, WaitingPartsNext DEF PartsOfWaiting
          <5>3. Waiting[Len(batch) + k] = report_queue[k]
            BY <5>1, WaitingParts, WaitingPartsNext DEF PartsOfWaiting
          <5>4. report_queue'[k - n] = report_queue[n + (k - n)]
            BY <3>1, <5>1
          <5> QED
            BY <3>1, <3>2, <5>1, <5>2, <5>3, <5>4
        <4>4. CASE q < k
          <5>1. app = "put" /\ k = q + 1
            BY <4>1, <4>4
          <5>2. Waiting[Len(batch) + q + 1] = app_event
            BY <5>1, WaitingParts, WaitingPartsNext DEF PartsOfWaiting
          <5>3. Waiting'[Len(batch') + Len(report_queue') + 1] = app_event'
            BY <2>1, <5>1, WaitingParts, WaitingPartsNext DEF PartsOfWaiting
          <5> QED
            BY <2>1, <3>1, <3>2, <4>1, <5>1, <5>2, <5>3
        <4> QED
          BY <4>1, <4>2, <4>3, <4>4
      <3> QED
        BY <1>0, <3>3, <3>4, SameSeq
    <2> QED
      BY <2>2, <2>3
  <1>2. CASE PutEvent
    <2>1. /\ app = "put" /\ app' # "put" /\ batch' = batch
          /\ report_queue' = Append(report_queue, app_event)
      BY <1>2 DEF PutEvent, reporter
    <2>2. /\ batch \in Seq(DurEvent) /\ report_queue \in Seq(DurEvent) /\ app_event \in DurEvent
      BY DEF TypeOK
    <2>3. /\ Waiting = (batch \o report_queue) \o <<app_event>>
          /\ Waiting' = (batch \o Append(report_queue, app_event)) \o <<>>
      BY <2>1 DEF Waiting
    <2> QED
      BY <2>2, <2>3
  <1> QED
    BY <1>1, <1>2

\* Putting a heart beat and storing an event append to Waiting.
LEMMA WaitingGrows ==
    ASSUME TypeOK, TypeOK', PutHeatBeat \/ StoreEvent
    PROVE  \E e \in DurEvent :
              /\ Waiting' = Append(Waiting, e)
              /\ PutHeatBeat => e.id = 0 /\ Is(e, "HEAT_BEAT")
              /\ StoreEvent => e = app_event'
  <1> USE DEF handler, queue, reporter
  <1>0. batch \in Seq(DurEvent) /\ report_queue \in Seq(DurEvent)
    BY DEF TypeOK
  <1>1. CASE PutHeatBeat
    <2> DEFINE beat == [id |-> 0, action |-> "HEAT_BEAT", session |-> launches, user |-> user_id,
                        game |-> game_id, timestamp |-> 0, last_timestamp |-> 0]
    <2>1. beat \in DurEvent /\ beat.id = 0 /\ Is(beat, "HEAT_BEAT")
      BY DEF TypeOK, DurEvent, EventAction, Is
    <2>2. /\ UNCHANGED <<batch, app>> /\ app = "idle"
          /\ report_queue' = Append(report_queue, beat)
      BY <1>1 DEF PutHeatBeat
    <2>3. ~StoreEvent
      BY <2>2 DEF StoreEvent
    <2> HIDE DEF beat
    <2>4. /\ Waiting = (batch \o report_queue) \o <<>>
          /\ Waiting' = (batch \o Append(report_queue, beat)) \o <<>>
      BY <2>2 DEF Waiting
    <2>5. Waiting' = Append(Waiting, beat)
      BY <1>0, <2>1, <2>4
    <2> QED
      BY <2>1, <2>3, <2>5
  <1>2. CASE StoreEvent
    <2>1. app = "store" /\ app' = "put" /\ UNCHANGED <<batch, report_queue>>
      BY <1>2 DEF StoreEvent
    <2>2. ~PutHeatBeat
      BY <2>1 DEF PutHeatBeat
    <2>3. app_event' \in DurEvent
      BY DEF TypeOK
    <2>4. /\ Waiting = (batch \o report_queue) \o <<>>
          /\ Waiting' = (batch \o report_queue) \o <<app_event'>>
      BY <2>1 DEF Waiting
    <2>5. Waiting' = Append(Waiting, app_event')
      BY <1>0, <2>3, <2>4
    <2> QED
      BY <2>2, <2>3, <2>5
  <1> QED
    BY <1>1, <1>2

\* What waits are events, and they have ids.
LEMMA WaitingTyped ==
    ASSUME TypeOK
    PROVE  /\ Waiting \in Seq(DurEvent) /\ Len(Waiting) \in Nat /\ DOMAIN Waiting = 1..Len(Waiting)
           /\ \A k \in DOMAIN Waiting : Waiting[k] \in DurEvent
           /\ \A k \in DOMAIN Waiting : Waiting[k].id \in Nat
  <1>1. Waiting \in Seq(DurEvent)
    BY WaitingParts DEF PartsOfWaiting
  <1>2. \A k \in DOMAIN Waiting : Waiting[k] \in DurEvent
    BY <1>1
  <1>3. \A k \in DOMAIN Waiting : Waiting[k].id \in Nat
    BY <1>2 DEF DurEvent
  <1> QED
    BY <1>1, <1>2, <1>3

\* The loop forgets the batch: what is left of Waiting is what came after it.
LEMMA WaitingForgets ==
    ASSUME TypeOK, TypeOK', ReportLoop
    PROVE  /\ Len(batch) \in Nat /\ Len(Waiting) \in Nat
           /\ Len(Waiting') = Len(Waiting) - Len(batch)
           /\ \A k \in 1..Len(Waiting') : Waiting'[k] = Waiting[Len(batch) + k]
  <1>1. /\ batch' = <<>> /\ UNCHANGED <<report_queue, app, app_event>>
    BY DEF ReportLoop, queue, handler
  <1> DEFINE b == Len(batch)
             q == Len(report_queue)
  <1>2. /\ b \in Nat /\ q \in Nat /\ Len(batch') = 0
        /\ Len(Waiting) = b + q + (IF app = "put" THEN 1 ELSE 0)
        /\ Len(Waiting') = q + (IF app = "put" THEN 1 ELSE 0)
    BY <1>1, WaitingParts, WaitingPartsNext DEF PartsOfWaiting
  <1>3. ASSUME NEW k \in 1..Len(Waiting') PROVE Waiting'[k] = Waiting[b + k]
    <2>1. CASE k <= q
      <3>1. k \in 1..q /\ Len(batch') + k = k
        BY <1>2, <2>1
      <3>2. Waiting[b + k] = report_queue[k]
        BY <3>1, WaitingParts DEF PartsOfWaiting
      <3>3. Waiting'[Len(batch') + k] = report_queue'[k]
        BY <1>1, <3>1, WaitingPartsNext DEF PartsOfWaiting
      <3> QED
        BY <1>1, <3>1, <3>2, <3>3
    <2>2. CASE q < k
      <3>1. app = "put" /\ k = q + 1 /\ b + k = b + q + 1
        BY <1>2, <2>2
      <3>2. Waiting[b + q + 1] = app_event
        BY <3>1, WaitingParts DEF PartsOfWaiting
      <3>3. Waiting'[Len(batch') + Len(report_queue') + 1] = app_event'
        BY <1>1, <3>1, WaitingPartsNext DEF PartsOfWaiting
      <3> QED
        BY <1>1, <1>2, <3>1, <3>2, <3>3
    <2> QED
      BY <1>2, <2>1, <2>2
  <1> QED
    BY <1>2, <1>3

\* A step that moves no event and no row.
LEMMA OrderQuiet ==
    ASSUME OrderInv, Waiting' = Waiting, UNCHANGED <<dur_event, launches>>,
           proc' \in {"down", "init"} => UNCHANGED <<proc, batch, report_queue, app, thread>>,
           thread' \in {"none", "take"} => batch' = <<>>,
           Alive' /\ thread' # "exited" => Alive /\ thread # "exited",
           BatchGone'
    PROVE  OrderInv'
  <1>1. OnTheirWay' /\ NewestCovers' /\ ReportedInOrder'
    BY DEF OrderInv, OnTheirWay, NewestCovers, ReportedInOrder, Is
  <1> QED
    BY <1>1 DEF OrderInv

\* Nor the reporter.
LEMMA OrderStill ==
    ASSUME OrderInv, Waiting' = Waiting,
           UNCHANGED <<dur_event, launches, proc, batch, thread, running>>,
           proc' \in {"down", "init"} => UNCHANGED <<report_queue, app>>
    PROVE  OrderInv'
  <1>1. BatchGone' /\ (thread' \in {"none", "take"} => batch' = <<>>)
    BY DEF OrderInv, BatchGone, Alive
  <1> QED
    BY <1>1, OrderQuiet DEF Alive

\* An empty Waiting, and a process without a reporter.
LEMMA OrderDown ==
    ASSUME batch' = <<>>, report_queue' = <<>>, app' = "idle", thread' = "none", ~Alive'
    PROVE  OrderInv'
  <1>1. DOMAIN Waiting' = {}
    BY DEF Waiting
  <1> QED
    BY <1>1 DEF OrderInv, BatchGone, OnTheirWay, NewestCovers, ReportedInOrder

\* The event being stored gets an id that is not before any on its way.
LEMMA StoredLast ==
    ASSUME TypeOK, OutboxInv, SessionInv, NewestCovers, app = "store",
           NEW id \in EventId(app_event), NEW k \in DOMAIN Waiting
    PROVE  Waiting[k].id <= id
  <1>1. /\ Waiting[k] \in DurEvent /\ Waiting[k].id \in Nat
        /\ sqlite_seq \in Nat /\ DOMAIN dur_event \subseteq 1..sqlite_seq /\ id \in Nat
    BY WaitingTyped DEF TypeOK, TablesOK, EventId
  <1>2. Waiting[k].id <= sqlite_seq
    BY <1>1, WaitingOutgoing DEF Outgoing, SessionInv
  <1>3. CASE MergeTarget(app_event) = {}
    BY <1>1, <1>2, <1>3 DEF EventId
  <1>4. CASE id \in MergeTarget(app_event)
    <2>1. /\ id \in DOMAIN dur_event /\ dur_event[id].session = launches
          /\ \A j \in DOMAIN dur_event : j <= id
      BY <1>4 DEF MergeTarget, SessionInv
    <2> QED
      BY <1>1, <2>1 DEF NewestCovers
  <1> QED
    BY <1>3, <1>4 DEF EventId

\* Before the first launch nothing waits.
LEMMA OrderInit == Init => OrderInv
  <1> SUFFICES ASSUME Init PROVE OrderInv
    OBVIOUS
  <1>1. DOMAIN Waiting = {}
    BY DEF Init, Waiting
  <1> QED
    BY <1>1 DEF Init, OrderInv, BatchGone, OnTheirWay, NewestCovers, ReportedInOrder, Alive

\* A launch fills the queue with the rows that are not expired, oldest first.
LEMMA OrderStart ==
    ASSUME TypeOK, TypeOK', OutboxInv, SessionInv, OrderInv, StartSession
    PROVE  OrderInv'
  <1> DEFINE live == {i \in DOMAIN dur_event : ~EventExpired(dur_event[i], report_config')}
  <1>1. PICK n \in 0..sqlite_seq : \E ids \in [1..n -> live] :
           /\ IsAscending(ids, live)
           /\ report_queue' = [i \in 1..n |-> dur_event[ids[i]]]
    BY DEF StartSession, NewGameSession, InitHistory
  <1>2. PICK ids \in [1..n -> live] :
           /\ \A i, j \in 1..n : i < j => ids[i] < ids[j]
           /\ report_queue' = [i \in 1..n |-> dur_event[ids[i]]]
    BY <1>1 DEF IsAscending
  <1>3. /\ UNCHANGED <<dur_event, batch, app>> /\ proc' = "up" /\ launches' = launches + 1
        /\ thread' \in {"loop", "none"} /\ batch = <<>> /\ app = "idle"
    BY DEF StartSession, NewGameSession, InitHistory, UpdateSession, handler, OrderInv
  <1>4. /\ Len(Waiting') = n /\ n \in Nat /\ Waiting' \in Seq(DurEvent)
        /\ \A k \in 1..n : Waiting'[k] = dur_event[ids[k]]
    <2>1. n \in Nat /\ Len(report_queue') = n /\ Len(batch') = 0 /\ app' # "put"
      BY <1>2, <1>3 DEF TypeOK, TablesOK
    <2>2. Len(Waiting') = n /\ Waiting' \in Seq(DurEvent)
      BY <2>1, WaitingPartsNext DEF PartsOfWaiting
    <2>3. ASSUME NEW k \in 1..n PROVE Waiting'[k] = dur_event[ids[k]]
      <3>1. Waiting'[0 + k] = report_queue'[k]
        BY <2>1, WaitingPartsNext DEF PartsOfWaiting
      <3> QED
        BY <1>2, <2>1, <3>1
    <2> QED
      BY <2>1, <2>2, <2>3
  <1>5. \A k \in 1..n : ids[k] \in Nat /\ ids[k] \in DOMAIN dur_event /\ Waiting'[k].id = ids[k]
    BY <1>2, <1>4 DEF OutboxInv, RowsStored, TypeOK, TablesOK
  <1>6. ReportedInOrder'
    BY <1>2, <1>4, <1>5 DEF ReportedInOrder
  <1>7. \A i \in DOMAIN dur_event : dur_event[i].session # launches'
    <2>1. \A i \in DOMAIN dur_event : dur_event[i].session \in Nat /\ dur_event[i].session <= launches
      BY DEF OutboxInv, RowsStored, SessionInv, TypeOK, DurEvent
    <2> QED
      BY <1>3, <2>1 DEF TypeOK
  <1>8. OnTheirWay' /\ NewestCovers'
    BY <1>3, <1>7 DEF OnTheirWay, NewestCovers
  <1>9. BatchGone'
    BY <1>3 DEF BatchGone
  <1> QED
    BY <1>3, <1>6, <1>8, <1>9 DEF OrderInv

\* A stored event goes to the end of Waiting, as the row it made or merged into.
LEMMA OrderStore ==
    ASSUME TypeOK, TypeOK', OutboxInv, SessionInv, OrderInv, StoreEvent
    PROVE  OrderInv'
  <1>1. PICK id \in EventId(app_event) : /\ AddOrMergeEvent(app_event, id)
                                         /\ app_event' = [app_event EXCEPT !.id = id]
    BY DEF StoreEvent
  <1>2. /\ UNCHANGED <<proc, launches, batch, thread, running>> /\ proc = "up" /\ app = "store"
    BY DEF StoreEvent, control, reporter
  <1>3. /\ id \in Nat /\ app_event' \in DurEvent /\ app_event'.id = id
        /\ DOMAIN dur_event' = DOMAIN dur_event \cup {id}
        /\ dur_event'[id] = app_event'
        /\ \A i \in DOMAIN dur_event : i # id => dur_event'[i] = dur_event[i]
    BY <1>1, AddOrMergeType, EventWithId DEF TypeOK
  <1>4. /\ Waiting \in Seq(DurEvent) /\ Len(Waiting) \in Nat /\ Waiting' = Append(Waiting, app_event')
        /\ \A k \in DOMAIN Waiting : Waiting[k].id \in Nat
    <2>1. \E e \in DurEvent : Waiting' = Append(Waiting, e) /\ e = app_event'
      BY WaitingGrows
    <2> QED
      BY <2>1, WaitingTyped
  <1> DEFINE n == Len(Waiting)
  <1>5. /\ Len(Waiting') = n + 1 /\ Waiting'[n + 1] = app_event'
        /\ DOMAIN Waiting = 1..n /\ DOMAIN Waiting' = 1..(n + 1)
        /\ \A k \in 1..n : Waiting'[k] = Waiting[k]
    BY <1>3, <1>4
  <1>6. \A k \in DOMAIN Waiting' : Waiting'[k].id <= id
    BY <1>1, <1>2, <1>3, <1>4, <1>5, StoredLast DEF OrderInv
  <1>7. ReportedInOrder'
    <2> SUFFICES ASSUME NEW i \in DOMAIN Waiting', NEW j \in DOMAIN Waiting', i < j,
                        ~Is(Waiting'[i], "HEAT_BEAT"), ~Is(Waiting'[j], "HEAT_BEAT")
                 PROVE  Waiting'[i].id <= Waiting'[j].id
      BY DEF ReportedInOrder, Is
    <2>1. CASE j = n + 1
      BY <1>3, <1>5, <1>6, <2>1
    <2>2. CASE j # n + 1
      BY <1>4, <1>5, <2>2 DEF OrderInv, ReportedInOrder
    <2> QED
      BY <2>1, <2>2
  <1>8. NewestCovers'
    BY <1>3, <1>6 DEF NewestCovers
  <1>9. OnTheirWay'
    <2> SUFFICES ASSUME thread # "exited", NEW i \in DOMAIN dur_event', dur_event'[i].session = launches
                 PROVE  \E k \in DOMAIN Waiting' : Waiting'[k] = dur_event'[i]
      BY <1>2 DEF OnTheirWay
    <2>1. CASE i = id
      BY <1>3, <1>4, <1>5, <2>1
    <2>2. CASE i # id
      <3>1. i \in DOMAIN dur_event /\ dur_event[i] = dur_event'[i]
        BY <1>3, <2>2
      <3>2. \E k \in DOMAIN Waiting : Waiting[k] = dur_event[i]
        BY <1>2, <3>1 DEF OrderInv, OnTheirWay, Alive
      <3> QED
        BY <1>4, <1>5, <3>1, <3>2
    <2> QED
      BY <2>1, <2>2
  <1>10. BatchGone'
    <2> SUFFICES ASSUME thread = "ack" \/ (thread = "loop" /\ running), NEW k \in DOMAIN batch
                 PROVE  batch[k].id \notin DOMAIN dur_event'
      BY <1>2 DEF BatchGone
    <2>1. batch[k].id \notin DOMAIN dur_event
      BY <1>2 DEF OrderInv, BatchGone, Alive
    <2>2. batch[k].id \in Nat /\ batch[k].id <= sqlite_seq /\ sqlite_seq \in Nat
      <3>1. batch[k] \in DurEvent /\ Outgoing(batch[k]) /\ sqlite_seq \in Nat
        BY DEF OutboxInv, TypeOK, TablesOK
      <3>2. batch[k].id \in Nat
        BY <3>1 DEF DurEvent
      <3> QED
        BY <3>1, <3>2 DEF Outgoing, SessionInv
    <2>3. id = sqlite_seq + 1 \/ id \in DOMAIN dur_event
      BY DEF EventId, MergeTarget
    <2> QED
      BY <1>3, <2>1, <2>2, <2>3
  <1> QED
    BY <1>2, <1>7, <1>8, <1>9, <1>10 DEF OrderInv

\* Deleting the rows of an answered batch leaves the rows of what comes after it.
LEMMA OrderDelete ==
    ASSUME TypeOK, TypeOK', OutboxInv, OrderInv, DeleteReported \/ DropRefused
    PROVE  OrderInv'
  <1>1. /\ UNCHANGED <<proc, launches, batch, report_queue, app, app_event>>
        /\ Alive /\ thread \in {"delete", "drop"} /\ thread' \in {"ack", "loop"} /\ Delete(batch)
    BY DEF DeleteReported, DropRefused, queue, handler
  <1>2. Waiting' = Waiting
    BY <1>1, WaitingSame
  <1>3. /\ DOMAIN dur_event' \subseteq DOMAIN dur_event
        /\ \A i \in DOMAIN dur_event' : dur_event'[i] = dur_event[i]
        /\ \A i \in DOMAIN dur_event \ DOMAIN dur_event' :
              \E k \in DOMAIN batch : batch[k].id = i
    BY <1>1, DeleteType DEF TypeOK
  <1>4. \A k \in DOMAIN batch : batch[k].id \notin DOMAIN dur_event'
    <2>1. \A i \in DOMAIN dur_event : i # 0
      BY DEF TypeOK, TablesOK
    <2> QED
      BY <1>1, <2>1 DEF Delete
  <1>5. OnTheirWay'
    BY <1>1, <1>2, <1>3 DEF OrderInv, OnTheirWay, Alive
  <1>6. NewestCovers'
    <2> SUFFICES ASSUME NEW i \in DOMAIN dur_event', NEW k \in DOMAIN Waiting,
                        dur_event'[i].session = launches, ~(Waiting[k].id <= i)
                 PROVE  \E j \in DOMAIN dur_event' : Waiting[k].id <= j
      BY <1>1, <1>2 DEF NewestCovers
    <2>1. i \in DOMAIN dur_event /\ i \in Nat \ {0} /\ dur_event[i].session = launches /\ dur_event[i].id = i
      BY <1>3 DEF TypeOK, TablesOK, OutboxInv, RowsStored
    <2>2. PICK j \in DOMAIN dur_event : Waiting[k].id <= j
      BY <2>1 DEF OrderInv, NewestCovers
    <2>3. PICK m \in DOMAIN Waiting : Waiting[m] = dur_event[i]
      BY <1>1, <2>1 DEF OrderInv, OnTheirWay
    <2>4. ASSUME NEW p \in DOMAIN batch, batch[p].id = j PROVE FALSE
      <3>1. /\ p \in 1..Len(batch) /\ Len(batch) \in Nat /\ p \in DOMAIN Waiting
            /\ Waiting[p] = batch[p] /\ DOMAIN batch = 1..Len(batch)
            /\ \A x \in 1..Len(batch) : Waiting[x] = batch[x]
        <4>1. p \in 1..Len(batch) /\ DOMAIN batch = 1..Len(batch)
          BY DEF TypeOK
        <4> QED
          BY <4>1, WaitingParts, WaitingTyped DEF PartsOfWaiting
      <3>2. j \in Nat \ {0} /\ Waiting[k].id \in Nat
        <4>1. j \in Nat \ {0}
          BY DEF TypeOK, TablesOK
        <4>2. Waiting[k].id \in Nat
          BY WaitingTyped
        <4> QED
          BY <4>1, <4>2
      <3>3. ~(m \in DOMAIN batch)
        BY <1>4, <2>1, <2>3, <3>1
      <3>4. p < m /\ m \in Nat /\ p \in Nat
        BY <3>1, <3>3, WaitingTyped
      <3>5. ~Is(Waiting[p], "HEAT_BEAT") /\ ~Is(Waiting[m], "HEAT_BEAT")
        BY <2>1, <2>3, <2>4, <3>1, <3>2, WaitingOutgoing DEF Outgoing
      <3>6. Waiting[p].id <= Waiting[m].id
        BY <3>1, <3>4, <3>5 DEF OrderInv, ReportedInOrder
      <3> QED
        BY <2>1, <2>2, <2>3, <2>4, <3>1, <3>2, <3>6
    <2>5. j \in DOMAIN dur_event'
      BY <1>3, <2>2, <2>4
    <2> QED
      BY <2>2, <2>5
  <1>7. ReportedInOrder' /\ BatchGone'
    BY <1>1, <1>2, <1>4 DEF OrderInv, ReportedInOrder, BatchGone, Is
  <1> QED
    BY <1>1, <1>5, <1>6, <1>7 DEF OrderInv, Alive

\* Forgetting the batch takes off its way at most a row the reporter gives up.
LEMMA OrderLoop ==
    ASSUME TypeOK, TypeOK', OutboxInv, OrderInv, ReportLoop
    PROVE  OrderInv'
  <1>1. /\ UNCHANGED <<proc, launches, dur_event, running>> /\ batch' = <<>> /\ Alive
        /\ thread = "loop" /\ thread' = IF running THEN "take" ELSE "exited"
    BY DEF ReportLoop, tables, control
  <1> DEFINE b == Len(batch)
             n == Len(Waiting')
  <1>2. /\ b \in Nat /\ Len(Waiting) \in Nat /\ n = Len(Waiting) - b
        /\ \A k \in 1..n : Waiting'[k] = Waiting[b + k]
    BY WaitingForgets
  <1>3. /\ DOMAIN Waiting = 1..Len(Waiting) /\ DOMAIN Waiting' = 1..n /\ n \in Nat
        /\ DOMAIN batch = 1..b /\ \A k \in 1..b : Waiting[k] = batch[k]
    BY WaitingParts, WaitingPartsNext DEF PartsOfWaiting, TypeOK
  <1> HIDE DEF n
  <1>4. \A k \in 1..n : b + k \in DOMAIN Waiting
    BY <1>2, <1>3
  <1>5. ReportedInOrder'
    <2> SUFFICES ASSUME NEW i \in 1..n, NEW j \in 1..n, i < j,
                        ~Is(Waiting'[i], "HEAT_BEAT"), ~Is(Waiting'[j], "HEAT_BEAT")
                 PROVE  Waiting'[i].id <= Waiting'[j].id
      BY <1>3 DEF ReportedInOrder, Is
    <2>1. b + i < b + j /\ b + i \in DOMAIN Waiting /\ b + j \in DOMAIN Waiting
      BY <1>2, <1>3, <1>4
    <2>2. Waiting'[i] = Waiting[b + i] /\ Waiting'[j] = Waiting[b + j]
      BY <1>2
    <2> QED
      BY <2>1, <2>2 DEF OrderInv, ReportedInOrder
  <1>6. NewestCovers'
    BY <1>1, <1>2, <1>3, <1>4 DEF OrderInv, NewestCovers
  <1>7. OnTheirWay'
    <2> SUFFICES ASSUME running, NEW i \in DOMAIN dur_event, dur_event[i].session = launches
                 PROVE  \E k \in DOMAIN Waiting' : Waiting'[k] = dur_event[i]
      BY <1>1 DEF OnTheirWay
    <2>1. PICK k \in DOMAIN Waiting : Waiting[k] = dur_event[i]
      BY <1>1 DEF OrderInv, OnTheirWay
    <2>2. dur_event[i].id = i
      BY DEF OutboxInv, RowsStored
    <2>3. ~(k <= b)
      BY <1>1, <1>2, <1>3, <2>1, <2>2 DEF OrderInv, BatchGone
    <2>4. k - b \in 1..n /\ b + (k - b) = k
      BY <1>2, <1>3, <2>3
    <2>5. Waiting'[k - b] = Waiting[b + (k - b)]
      BY <1>2, <2>4
    <2> QED
      BY <1>3, <2>1, <2>4, <2>5
  <1> QED
    BY <1>1, <1>5, <1>6, <1>7 DEF OrderInv, BatchGone, Alive

\* Every step keeps Waiting in order and complete.
LEMMA OrderNext ==
    ASSUME TypeOK, TypeOK', OutboxInv, SessionInv, OrderInv, [Next]_vars
    PROVE  OrderInv'
  <1> USE DEF tables, session, control, queue, handler, timers, reporter, history
  <1>0. proc \in {"down", "init", "up", "closing", "aborted"}
    BY DEF TypeOK
  <1>1. CASE EndPreviousSession
    BY <1>1, OrderDown DEF EndPreviousSession, OrderInv, Alive
  <1>2. CASE StartSession
    BY <1>2, OrderStart
  <1>3. CASE Crash \/ Joined
    BY <1>3, OrderDown DEF Crash, Joined, Reset, Alive
  <1>4. CASE Close
    <2>1. Waiting' = Waiting
      BY <1>4, WaitingSame DEF Close
    <2>2. BatchGone'
      BY <1>4 DEF Close, Stop, OrderInv, BatchGone, Alive
    <2> QED
      BY <1>4, <2>1, <2>2, OrderQuiet DEF Close, OrderInv, Alive
  <1>5. CASE Tick \/ LoginAgain
    <2>1. Waiting' = Waiting
      BY <1>5, WaitingSame DEF Tick, LoginAgain
    <2> QED
      BY <1>5, <2>1, OrderStill DEF Tick, LoginAgain
  <1>6. CASE AppCall /\ ~LoginAgain
    <2>1. /\ UNCHANGED <<dur_event, launches, proc, batch, thread, running, report_queue>>
          /\ proc = "up" /\ app = "idle" /\ app' = "store"
      BY <1>6 DEF AppCall, GameStart, OnBackground, OnForeground, OnWindow, Login, Logout,
                  MayHandle, UpdateSession
    <2>2. Waiting' = Waiting
      BY <2>1, WaitingSame
    <2> QED
      BY <2>1, <2>2, OrderStill
  <1>7. CASE StoreEvent
    BY <1>7, OrderStore
  <1>8. CASE PutEvent
    <2>1. Waiting' = Waiting
      BY <1>8, WaitingMoves
    <2> QED
      BY <1>8, <2>1, OrderStill DEF PutEvent
  <1>9. CASE StartGame \/ BindUser \/ LocalHeatBeat \/ OnlineHeatBeat
    <2>1. Waiting' = Waiting
      BY <1>9, WaitingSame DEF StartGame, BindUser, LocalHeatBeat, OnlineHeatBeat
    <2> QED
      BY <1>9, <2>1, OrderStill DEF StartGame, BindUser, LocalHeatBeat, OnlineHeatBeat, MayBeat,
                                    UpdateSession
  <1>10. CASE PutHeatBeat
    <2>1. /\ UNCHANGED <<dur_event, launches, proc, batch, thread, running>> /\ proc = "up"
      BY <1>10 DEF PutHeatBeat
    <2>2. PICK e \in DurEvent : Waiting' = Append(Waiting, e) /\ e.id = 0 /\ Is(e, "HEAT_BEAT")
      BY <1>10, WaitingGrows
    <2> DEFINE n == Len(Waiting)
    <2>3. /\ n \in Nat /\ DOMAIN Waiting = 1..n /\ DOMAIN Waiting' = 1..(n + 1)
          /\ Waiting'[n + 1] = e /\ \A k \in 1..n : Waiting'[k] = Waiting[k]
      BY <2>2, WaitingTyped
    <2> HIDE DEF n
    <2>4. ReportedInOrder'
      BY <2>2, <2>3 DEF OrderInv, ReportedInOrder, Is
    <2>5. OnTheirWay'
      BY <2>1, <2>3 DEF OrderInv, OnTheirWay, Alive
    <2>6. \A i \in DOMAIN dur_event : i \in Nat
      BY DEF TypeOK, TablesOK
    <2>7. NewestCovers'
      BY <2>1, <2>2, <2>3, <2>6 DEF OrderInv, NewestCovers
    <2> QED
      BY <2>1, <2>4, <2>5, <2>7 DEF OrderInv, BatchGone, Alive
  <1>11. ASSUME NEW e \in BOOLEAN, NEW s \in StartTimes,
                RefreshConfig([enable |-> e, available_start_ts |-> s])
         PROVE  OrderInv'
    <2>1. /\ UNCHANGED <<dur_event, launches, report_queue, batch, app, app_event>>
          /\ proc = "up" /\ proc' \in {"up", "aborted"}
          /\ \/ thread' = thread /\ (running' => running \/ proc' = "aborted")
             \/ thread = "none" /\ thread' = "loop"
      BY <1>11 DEF RefreshConfig, UpdateConfig, InitReportThread, Stop
    <2>2. Waiting' = Waiting
      BY <2>1, WaitingSame
    <2>3. BatchGone'
      BY <2>1 DEF OrderInv, BatchGone, Alive
    <2> QED
      BY <2>1, <2>2, <2>3, OrderQuiet DEF OrderInv, Alive
  <1>12. CASE ReportLoop
    BY <1>12, OrderLoop
  <1>13. CASE Take
    <2>1. Waiting' = Waiting
      BY <1>13, WaitingMoves
    <2> QED
      BY <1>13, <2>1, OrderQuiet DEF Take, BatchGone, Alive
  <1>14. CASE Compose \/ ComposeNothing \/ Retry \/ Post \/ AckHeatBeat
    <2>1. /\ UNCHANGED <<dur_event, launches, proc, running, batch, report_queue, app, app_event>>
          /\ Alive /\ thread' \notin {"none", "take"} /\ thread # "exited"
      BY <1>14 DEF Compose, ComposeNothing, Retry, Post, PostAccepted, PostRefused, PostFailed,
                   AfterFailure, AckHeatBeat, UpdateSession
    <2>2. Waiting' = Waiting
      BY <2>1, WaitingSame
    <2>3. CASE ComposeNothing
      <3>1. \A k \in DOMAIN batch : batch[k].id = 0
        BY <2>3 DEF ComposeNothing, HasStored, OutboxInv, Outgoing
      <3>2. 0 \notin DOMAIN dur_event
        BY DEF TypeOK, TablesOK
      <3>3. BatchGone'
        BY <2>1, <3>1, <3>2 DEF BatchGone
      <3> QED
        BY <2>1, <2>2, <3>3, OrderQuiet DEF Alive
    <2>4. CASE ~ComposeNothing
      <3>1. thread' \in {"ack", "loop"} => thread = "ack" \/ ~running
        BY <1>14, <2>4 DEF Compose, Retry, RetriesWhile, Post, PostAccepted, PostRefused, PostFailed,
                           AfterFailure, AckHeatBeat
      <3>2. thread' # "ack"
        BY <1>14, <2>4 DEF Compose, Retry, RetriesWhile, Post, PostAccepted, PostRefused, PostFailed,
                           AfterFailure, AckHeatBeat
      <3>3. BatchGone'
        BY <2>1, <3>1, <3>2 DEF OrderInv, BatchGone, Alive
      <3> QED
        BY <2>1, <2>2, <3>3, OrderQuiet DEF Alive
    <2> QED
      BY <2>3, <2>4
  <1>15. CASE DeleteReported \/ DropRefused
    BY <1>15, OrderDelete
  <1>16. CASE UNCHANGED vars
    <2>1. Waiting' = Waiting
      BY <1>16, WaitingSame DEF vars
    <2> QED
      BY <1>16, <2>1, OrderStill DEF vars
  <1> QED
    BY <1>1, <1>2, <1>3, <1>4, <1>5, <1>6, <1>7, <1>8, <1>9, <1>10, <1>11, <1>12, <1>13,
       <1>14, <1>15, <1>16
    DEF Next, Life, AppCall, AppStep, TimerStep, Config, Report

\* The invariants about what waits hold together.
LEMMA OrderHolds == Spec => [](TypeOK /\ OrderInv)
  <1>1. TypeOK /\ TypeOK' /\ OutboxInv /\ SessionInv /\ OrderInv /\ [Next]_vars => OrderInv'
    BY OrderNext
  <1> QED
    BY <1>1, TypeCorrect, OutboxInit, OutboxNext, SessionInit, SessionNext, OrderInit, PTL DEF Spec

\* The collector hears of the rows in the order of their ids, across merges into the
\* newest row, launches that fill the queue from the table, retries and deletes.
THEOREM InOrder == Spec => []ReportedInOrder
  <1>1. OrderInv => ReportedInOrder
    BY DEF OrderInv
  <1> QED
    BY <1>1, OrderHolds, PTL

-----------------------------------------------------------------------------
(* Events, not only rows, are on their way: also one whose row went with    *)
(* the answer to the event it was merged with.  The batch the reporter      *)
(* forgets must then have been answered as a whole.                         *)

WayInv ==
    /\ Alive /\ thread # "exited" =>
          \A e \in stored : e.session = launches =>
              e \in answered \/ \E k \in DOMAIN Waiting : Waiting[k] = e
    /\ Alive /\ (thread = "ack" \/ (thread = "loop" /\ running)) => BatchStored \subseteq answered

\* A step that stores and forgets no event.
LEMMA WayQuiet ==
    ASSUME WayInv, Waiting' = Waiting, UNCHANGED <<stored, launches>>, answered \subseteq answered',
           Alive' /\ thread' # "exited" => Alive /\ thread # "exited",
           Alive' /\ (thread' = "ack" \/ (thread' = "loop" /\ running'))
               => BatchStored' \subseteq answered'
    PROVE  WayInv'
  BY DEF WayInv

\* Nor moves the reporter.
LEMMA WayStill ==
    ASSUME WayInv, Waiting' = Waiting,
           UNCHANGED <<stored, answered, launches, proc, batch, thread, running>>
    PROVE  WayInv'
  <1>1. BatchStored' = BatchStored /\ (Alive' <=> Alive)
    BY DEF BatchStored, Is, Alive
  <1> QED
    BY <1>1 DEF WayInv

\* Every step keeps the events of the session on their way.
LEMMA WayNext ==
    ASSUME TypeOK, TypeOK', OutboxInv, SessionInv, OrderInv, WayInv, [Next]_vars
    PROVE  WayInv'
  <1> USE DEF tables, session, control, queue, handler, timers, reporter, history
  <1>1. CASE EndPreviousSession \/ Crash \/ Joined
    BY <1>1 DEF EndPreviousSession, Crash, Joined, WayInv, Alive
  <1>2. CASE StartSession
    <2>1. UNCHANGED <<stored, answered, batch>> /\ launches' = launches + 1 /\ batch = <<>>
      BY <1>2 DEF StartSession, NewGameSession, OrderInv
    <2>2. \A e \in stored : e.session # launches'
      BY <2>1 DEF SessionInv, TypeOK, DurEvent
    <2>3. BatchStored' = {}
      BY <2>1 DEF BatchStored
    <2> QED
      BY <2>1, <2>2, <2>3 DEF WayInv
  <1>3. CASE Close
    <2>1. Waiting' = Waiting /\ BatchStored' = BatchStored
      BY <1>3, WaitingSame DEF Close, BatchStored, Is
    <2>2. Alive /\ running' => running
      BY <1>3 DEF Close, Stop, Alive
    <2> QED
      BY <1>3, <2>1, <2>2 DEF Close, WayInv, Alive
  <1>4. CASE Tick \/ LoginAgain \/ StartGame \/ BindUser \/ LocalHeatBeat \/ OnlineHeatBeat
    <2>1. Waiting' = Waiting
      BY <1>4, WaitingSame DEF Tick, LoginAgain, StartGame, BindUser, LocalHeatBeat, OnlineHeatBeat
    <2> QED
      BY <1>4, <2>1, WayStill DEF Tick, LoginAgain, StartGame, BindUser, LocalHeatBeat, OnlineHeatBeat
  <1>5. CASE AppCall /\ ~LoginAgain
    <2>1. /\ UNCHANGED <<stored, answered, launches, proc, batch, thread, running, report_queue>>
          /\ app = "idle" /\ app' = "store"
      BY <1>5 DEF AppCall, GameStart, OnBackground, OnForeground, OnWindow, Login, Logout, MayHandle
    <2>2. Waiting' = Waiting
      BY <2>1, WaitingSame
    <2> QED
      BY <2>1, <2>2, WayStill
  <1>6. CASE StoreEvent \/ PutHeatBeat
    <2>1. /\ UNCHANGED <<answered, launches, proc, batch, thread, running>>
          /\ StoreEvent => stored' = stored \cup {app_event'}
          /\ ~StoreEvent => stored' = stored
      BY <1>6 DEF StoreEvent, PutHeatBeat
    <2>2. PICK e \in DurEvent : Waiting' = Append(Waiting, e) /\ (StoreEvent => e = app_event')
      BY <1>6, WaitingGrows
    <2> DEFINE n == Len(Waiting)
    <2>3. /\ n \in Nat /\ DOMAIN Waiting = 1..n /\ DOMAIN Waiting' = 1..(n + 1)
          /\ Waiting'[n + 1] = e /\ \A k \in 1..n : Waiting'[k] = Waiting[k]
      BY <2>2, WaitingTyped
    <2> HIDE DEF n
    <2>4. BatchStored' = BatchStored /\ (Alive' <=> Alive)
      BY <2>1 DEF BatchStored, Is, Alive
    <2>5. n + 1 \in DOMAIN Waiting' /\ \A k \in DOMAIN Waiting : k \in DOMAIN Waiting'
      BY <2>3
    <2>6. stored' \subseteq stored \cup {e}
      BY <2>1, <2>2
    <2> QED
      BY <2>1, <2>3, <2>4, <2>5, <2>6 DEF WayInv
  <1>7. CASE PutEvent
    <2>1. Waiting' = Waiting
      BY <1>7, WaitingMoves
    <2> QED
      BY <1>7, <2>1, WayStill DEF PutEvent
  <1>8. ASSUME NEW e \in BOOLEAN, NEW s \in StartTimes,
               RefreshConfig([enable |-> e, available_start_ts |-> s])
        PROVE  WayInv'
    <2>1. /\ UNCHANGED <<stored, answered, launches, report_queue, batch, app, app_event>>
          /\ proc = "up" /\ proc' \in {"up", "aborted"}
          /\ \/ thread' = thread /\ (running' => running \/ proc' = "aborted")
             \/ thread = "none" /\ thread' = "loop"
      BY <1>8 DEF RefreshConfig, InitReportThread, Stop
    <2>2. Waiting' = Waiting /\ BatchStored' = BatchStored
      BY <2>1, WaitingSame DEF BatchStored, Is
    <2>3. thread = "none" => BatchStored = {}
      BY DEF OrderInv, BatchStored
    <2> QED
      BY <2>1, <2>2, <2>3 DEF WayInv, Alive
  <1>9. CASE ReportLoop
    <2>1. /\ UNCHANGED <<stored, answered, launches, proc, running>> /\ batch' = <<>> /\ Alive
          /\ thread = "loop" /\ thread' = IF running THEN "take" ELSE "exited"
      BY <1>9 DEF ReportLoop
    <2> SUFFICES ASSUME running, NEW e \in stored, e.session = launches, e \notin answered
                 PROVE  \E k \in DOMAIN Waiting' : Waiting'[k] = e
      BY <2>1 DEF WayInv
    <2> DEFINE b == Len(batch)
               n == Len(Waiting')
    <2>2. /\ b \in Nat /\ Len(Waiting) \in Nat /\ n = Len(Waiting) - b
          /\ \A k \in 1..n : Waiting'[k] = Waiting[b + k]
      BY <1>9, WaitingForgets
    <2>3. /\ DOMAIN Waiting = 1..Len(Waiting) /\ DOMAIN Waiting' = 1..n /\ n \in Nat
          /\ DOMAIN batch = 1..b /\ \A k \in 1..b : Waiting[k] = batch[k]
      BY WaitingParts, WaitingPartsNext DEF PartsOfWaiting, TypeOK
    <2> HIDE DEF n
    <2>4. PICK k \in DOMAIN Waiting : Waiting[k] = e
      BY <2>1 DEF WayInv
    <2>5. ~(k <= b)
      <3> SUFFICES ASSUME k <= b PROVE FALSE
        OBVIOUS
      <3>1. k \in DOMAIN batch /\ batch[k] = e
        BY <2>2, <2>3, <2>4
      <3>2. ~Is(e, "HEAT_BEAT")
        BY DEF OutboxInv
      <3>3. e \in BatchStored
        BY <3>1, <3>2 DEF BatchStored
      <3> QED
        BY <2>1, <3>3 DEF WayInv
    <2>6. k - b \in 1..n /\ b + (k - b) = k
      BY <2>2, <2>3, <2>5
    <2>7. Waiting'[k - b] = Waiting[b + (k - b)]
      BY <2>2, <2>6
    <2> QED
      BY <2>3, <2>4, <2>6, <2>7
  <1>10. CASE Take
    <2>1. Waiting' = Waiting
      BY <1>10, WaitingMoves
    <2> QED
      BY <1>10, <2>1, WayQuiet DEF Take, Alive
  <1>11. CASE Compose \/ ComposeNothing \/ Retry \/ Post \/ AckHeatBeat
    <2>1. /\ UNCHANGED <<stored, launches, proc, running, batch, report_queue, app, app_event>>
          /\ Alive /\ thread # "exited" /\ answered \subseteq answered'
      BY <1>11 DEF Compose, ComposeNothing, Retry, Post, PostAccepted, PostRefused, PostFailed,
                   AckHeatBeat
    <2>2. Waiting' = Waiting /\ BatchStored' = BatchStored
      BY <2>1, WaitingSame DEF BatchStored, Is
    <2>3. CASE ComposeNothing
      <3>1. BatchStored = {}
        BY <2>3 DEF ComposeNothing, HasStored, BatchStored
      <3> QED
        BY <2>1, <2>2, <3>1, WayQuiet
    <2>4. CASE ~ComposeNothing
      <3>1. thread' # "ack" /\ (thread' = "loop" => thread = "ack" \/ ~running)
        BY <1>11, <2>4 DEF Compose, Retry, RetriesWhile, Post, PostAccepted, PostRefused, PostFailed,
                           AfterFailure, AckHeatBeat
      <3>2. running' = running /\ (thread = "ack" => BatchStored \subseteq answered)
        BY <2>1 DEF WayInv
      <3> QED
        BY <2>1, <2>2, <3>1, <3>2, WayQuiet
    <2> QED
      BY <2>3, <2>4
  <1>12. CASE DeleteReported \/ DropRefused
    <2>1. /\ UNCHANGED <<stored, answered, launches, proc, running, batch, report_queue, app, app_event>>
          /\ Alive /\ thread \in {"delete", "drop"}
      BY <1>12 DEF DeleteReported, DropRefused
    <2>2. Waiting' = Waiting /\ BatchStored' = BatchStored
      BY <2>1, WaitingSame DEF BatchStored, Is
    <2>3. BatchStored \subseteq answered
      BY <2>1 DEF OutboxInv
    <2> QED
      BY <2>1, <2>2, <2>3, WayQuiet
  <1>13. CASE UNCHANGED vars
    <2>1. Waiting' = Waiting
      BY <1>13, WaitingSame DEF vars
    <2> QED
      BY <1>13, <2>1, WayStill DEF vars
  <1> QED
    BY <1>1, <1>2, <1>3, <1>4, <1>5, <1>6, <1>7, <1>8, <1>9, <1>10, <1>11, <1>12, <1>13
    DEF Next, Life, AppCall, AppStep, TimerStep, Config, Report

\* As long as the reporter has not ended, each event of the running session is answered,
\* in the batch, in the queue or about to be put, whatever became of its row.
THEOREM OnTheirWayAll == Spec => []EventsAreOnTheirWay
  <1>1. Init => WayInv
    BY DEF Init, WayInv, Alive
  <1>2. TypeOK /\ TypeOK' /\ OutboxInv /\ SessionInv /\ OrderInv /\ WayInv /\ [Next]_vars => WayInv'
    BY WayNext
  <1>3. WayInv => EventsAreOnTheirWay
    BY DEF WayInv, EventsAreOnTheirWay, Alive
  <1> QED
    BY <1>1, <1>2, <1>3, TypeCorrect, OrderHolds, OutboxInit, OutboxNext, SessionInit, SessionNext, PTL
    DEF Spec

-----------------------------------------------------------------------------
(* std::terminate.  The reporter that was started is told to stop only by   *)
(* Stop, which also stops the queue, and nothing restarts the queue.        *)

AbortInv ==
    /\ Alive /\ thread # "none" /\ ~running => stopped
    /\ AbortsOnlyWhenReenabled

\* A step that touches neither the reporter's start and end nor the queue's stop.
LEMMA AbortQuiet ==
    ASSUME AbortInv, UNCHANGED <<running, stopped, report_config>>,
           proc' = proc \/ (proc' # "aborted" /\ (Alive' => Alive)),
           thread' = "none" \/ thread # "none"
    PROVE  AbortInv'
  BY DEF AbortInv, AbortsOnlyWhenReenabled, Alive

\* Before the first launch the process is down.
LEMMA AbortInit == Init => AbortInv
  BY DEF Init, AbortInv, AbortsOnlyWhenReenabled, Alive

\* Only a config that enables, after one that disabled, replaces a live thread.
LEMMA AbortNext == TypeOK /\ AbortInv /\ [Next]_vars => AbortInv'
  <1> SUFFICES ASSUME TypeOK, AbortInv, [Next]_vars PROVE AbortInv'
    OBVIOUS
  <1> USE DEF tables, session, control, queue, handler, timers, reporter, history
  <1>0. proc \in {"down", "init", "up", "closing", "aborted"}
    BY DEF TypeOK
  <1>1. CASE EndPreviousSession \/ Crash \/ Joined
    BY <1>0, <1>1 DEF EndPreviousSession, Crash, Joined, AbortInv, AbortsOnlyWhenReenabled, Alive
  <1>2. CASE StartSession
    BY <1>2 DEF StartSession, AbortInv, AbortsOnlyWhenReenabled, Alive
  <1>3. CASE Close
    BY <1>3 DEF Close, Stop, AbortInv, AbortsOnlyWhenReenabled, Alive, TypeOK
  <1>4. CASE Tick
    BY <1>4, AbortQuiet DEF Tick
  <1>5. ASSUME NEW g \in Games, GameStart(g) PROVE AbortInv'
    BY <1>5, AbortQuiet DEF GameStart
  <1>6. CASE OnBackground \/ OnForeground \/ LoginAgain \/ Logout
    BY <1>6, AbortQuiet DEF OnBackground, OnForeground, OnWindow, LoginAgain, Logout
  <1>7. ASSUME NEW u \in Users, Login(u) PROVE AbortInv'
    BY <1>7, AbortQuiet DEF Login
  <1>8. CASE AppStep
    BY <1>8, AbortQuiet DEF AppStep, StoreEvent, PutEvent, StartGame, BindUser
  <1>9. CASE LocalHeatBeat \/ OnlineHeatBeat \/ PutHeatBeat
    BY <1>9, AbortQuiet DEF LocalHeatBeat, OnlineHeatBeat, PutHeatBeat
  <1>10. ASSUME NEW e \in BOOLEAN, NEW s \in StartTimes,
                RefreshConfig([enable |-> e, available_start_ts |-> s])
         PROVE  AbortInv'
    <2>1. report_config'.enable = e /\ proc = "up"
      BY <1>10 DEF RefreshConfig
    <2>2. CASE e
      BY <1>10, <2>1, <2>2 DEF RefreshConfig, InitReportThread, AbortInv, AbortsOnlyWhenReenabled,
                               Alive, TypeOK
    <2>3. CASE ~e
      BY <1>10, <2>1, <2>3 DEF RefreshConfig, Stop, AbortInv, AbortsOnlyWhenReenabled, Alive, TypeOK
    <2> QED
      BY <2>2, <2>3
  <1>11. CASE Report
    BY <1>11, AbortQuiet DEF Report, ReportLoop, Take, Compose, ComposeNothing, DeleteReported,
                             DropRefused, AckHeatBeat, Retry
  <1>12. CASE Post
    BY <1>12, AbortQuiet DEF Post, PostAccepted, PostRefused, PostFailed
  <1>13. CASE UNCHANGED vars
    BY <1>13, AbortQuiet DEF vars
  <1> QED
    BY <1>1, <1>2, <1>3, <1>4, <1>5, <1>6, <1>7, <1>8, <1>9, <1>10, <1>11, <1>12, <1>13
    DEF Next, Life, AppCall, TimerStep, Config

\* std::terminate in InitReportThread takes a disabling and an enabling config.
THEOREM AbortsReenabled == Spec => []AbortsOnlyWhenReenabled
  <1>1. AbortInv => AbortsOnlyWhenReenabled
    BY DEF AbortInv
  <1> QED
    BY <1>1, TypeCorrect, AbortInit, AbortNext, PTL DEF Spec

-----------------------------------------------------------------------------
(* Intervals.  Until a config's answer turns the clock back, the start of   *)
(* the next interval is behind the clock, and so is every time the threads  *)
(* are about to write over it; the row on disk is the session in memory.    *)

Behind ==
    /\ local_session.last_timestamp <= clock
    /\ report_now <= clock
    /\ app_event.timestamp <= clock
    /\ app \in {"store", "put", "start"} /\ Is(app_event, "GAME_START")
          => local_session.last_timestamp <= app_event.timestamp

IntervalInv ==
    /\ ~set_back => Behind
    /\ app = "start" => Is(app_event, "GAME_START")
    /\ proc \in {"down", "init"} =>
          /\ local_session = NoSession /\ app = "idle" /\ app_event = NoEvent
          /\ report_now = 0 /\ ~set_back
    /\ proc \notin {"down", "init"} => session_row = local_session /\ launches > 0

\* What IntervalsAdvance asks of one step.
Advances ==
    /\ (/\ local_session'.session = local_session.session
        /\ local_session'.last_timestamp < local_session.last_timestamp)
       => set_back /\ handler' # handler
    /\ (/\ session_row # NoRow /\ session_row'.session = session_row.session
        /\ session_row'.last_timestamp < session_row.last_timestamp)
       => set_back /\ handler' # handler

\* A step of a running process that writes the session, if at all, in memory and on
\* disk: with a time that is neither before the one it replaces nor ahead of the clock,
\* unless the clock was turned back and a handler writes.
LEMMA IntervalStep ==
    ASSUME TypeOK, TypeOK', IntervalInv,
           proc \notin {"down", "init"}, proc' \notin {"down", "init"},
           UNCHANGED <<launches, set_back>>, clock <= clock',
           session_row' = local_session',
           \/ local_session.last_timestamp <= local_session'.last_timestamp
           \/ set_back /\ handler' # handler,
           ~set_back =>
               /\ local_session'.last_timestamp <= clock
               /\ report_now' <= clock
               /\ app_event'.timestamp <= clock
               /\ app' \in {"store", "put", "start"} /\ Is(app_event', "GAME_START")
                     => local_session'.last_timestamp <= app_event'.timestamp,
           app' = "start" => Is(app_event', "GAME_START")
    PROVE  IntervalInv' /\ Advances
  <1>1. /\ local_session.last_timestamp \in Nat /\ local_session'.last_timestamp \in Nat
        /\ clock \in Nat /\ clock' \in Nat /\ report_now' \in Nat /\ app_event'.timestamp \in Nat
    BY DEF TypeOK, GameSession, DurEvent
  <1>2. session_row = local_session
    BY DEF IntervalInv
  <1>3. Advances
    BY <1>1, <1>2 DEF Advances
  <1>4. ~set_back' => Behind'
    BY <1>1 DEF Behind
  <1> QED
    BY <1>3, <1>4 DEF IntervalInv

\* Before the first launch there is no session.
LEMMA IntervalInit == Init => IntervalInv
  BY DEF Init, IntervalInv, Behind, NoSession, NoEvent, Is

\* Only a handler, and only after the clock was turned back, moves an interval back.
LEMMA IntervalNext ==
    ASSUME TypeOK, TypeOK', SessionInv, IntervalInv, [Next]_vars
    PROVE  IntervalInv' /\ Advances
  <1> USE DEF tables, session, control, queue, timers, reporter, history
  <1>0. /\ proc \in {"down", "init", "up", "closing", "aborted"}
        /\ clock \in Nat /\ clock <= clock /\ report_now \in Nat
        /\ local_session \in GameSession /\ local_session.last_timestamp \in Nat
        /\ local_session.last_timestamp <= local_session.last_timestamp
        /\ app_event \in DurEvent /\ app_event.timestamp \in Nat
        /\ app = "start" => Is(app_event, "GAME_START")
        /\ proc \notin {"down", "init"} => session_row = local_session
    <2>1. /\ proc \in {"down", "init", "up", "closing", "aborted"}
          /\ clock \in Nat /\ report_now \in Nat
          /\ local_session \in GameSession /\ app_event \in DurEvent
      BY DEF TypeOK
    <2>2. local_session.last_timestamp \in Nat /\ app_event.timestamp \in Nat
      BY <2>1 DEF GameSession, DurEvent
    <2> QED
      BY <2>1, <2>2 DEF IntervalInv
  <1>b. ~set_back =>
           /\ local_session.last_timestamp <= clock
           /\ report_now <= clock /\ app_event.timestamp <= clock
           /\ app \in {"store", "put", "start"} /\ Is(app_event, "GAME_START")
                 => local_session.last_timestamp <= app_event.timestamp
    BY DEF IntervalInv, Behind
  <1>1. CASE EndPreviousSession
    <2>1. /\ UNCHANGED <<session_row, local_session, report_now, app, app_event, set_back>>
          /\ proc = "down" /\ proc' = "init"
      BY <1>1 DEF EndPreviousSession, AddOrMergeEvent, handler
    <2>2. session_row # NoRow => session_row.last_timestamp \in Nat
      BY DEF TypeOK, TablesOK, GameSession
    <2>3. clock' \in Nat
      BY DEF TypeOK
    <2>4. Advances
      BY <1>0, <2>1, <2>2 DEF Advances
    <2>5. Behind'
      BY <2>1, <2>3 DEF IntervalInv, Behind, NoSession, NoEvent
    <2> QED
      BY <2>1, <2>4, <2>5 DEF IntervalInv
  <1>2. CASE StartSession
    <2>1. /\ launches \in Nat /\ launches' = launches + 1
          /\ local_session = NoSession /\ local_session' = [NoSession EXCEPT !.session = launches + 1]
          /\ session_row' = local_session'
          /\ UNCHANGED <<clock, app, app_event, report_now, set_back>> /\ proc' = "up" /\ proc = "init"
      BY <1>2 DEF StartSession, NewGameSession, UpdateSession, IntervalInv, TypeOK, handler
    <2>2. local_session'.session = launches + 1 /\ local_session'.last_timestamp = 0
      BY <2>1 DEF NoSession
    <2>3. session_row # NoRow => session_row.session = launches
      BY DEF SessionInv
    <2>4. Advances
      BY <2>1, <2>2, <2>3 DEF Advances, NoSession
    <2>5. app = "idle" /\ app_event = NoEvent
      BY <2>1 DEF IntervalInv
    <2>6. Behind'
      BY <1>0, <2>1, <2>2, <2>5 DEF IntervalInv, Behind, NoEvent
    <2> QED
      BY <2>1, <2>4, <2>5, <2>6 DEF IntervalInv
  <1>3. CASE Crash \/ Joined
    <2>1. /\ UNCHANGED <<session_row, clock>> /\ proc' = "down" /\ local_session' = NoSession
          /\ app' = "idle" /\ app_event' = NoEvent /\ report_now' = 0 /\ ~set_back'
      BY <1>3 DEF Crash, Joined, Reset
    <2>2. local_session.session = 0 => local_session.last_timestamp = 0
      <3>1. proc \notin {"down", "init"} => local_session.session = launches /\ launches > 0
        BY <1>0 DEF SessionInv, IntervalInv
      <3>2. proc \in {"down", "init"} => local_session = NoSession
        BY DEF IntervalInv
      <3> QED
        BY <3>1, <3>2 DEF NoSession, TypeOK
    <2>3. Advances
      BY <1>0, <2>1, <2>2 DEF Advances, NoSession, TypeOK, TablesOK, GameSession
    <2> QED
      BY <1>0, <2>1, <2>3 DEF IntervalInv, Behind, NoSession, NoEvent
  <1>4. CASE Tick
    <2>1. /\ UNCHANGED <<proc, launches, set_back, local_session, session_row, report_now, app, app_event>>
          /\ clock' = clock + 1
      BY <1>4 DEF Tick, handler
    <2>2. session_row # NoRow => session_row.last_timestamp \in Nat
      BY DEF TypeOK, TablesOK, GameSession
    <2>3. Advances
      BY <1>0, <2>1, <2>2 DEF Advances
    <2>4. ~set_back' => Behind'
      BY <1>0, <1>b, <2>1 DEF Behind
    <2> QED
      BY <2>1, <2>3, <2>4 DEF IntervalInv
  <1>5. CASE Close \/ LoginAgain
    BY <1>0, <1>b, <1>5, IntervalStep DEF Close, LoginAgain, handler
  <1>6. ASSUME NEW g \in Games, GameStart(g) PROVE IntervalInv' /\ Advances
    <2>1. /\ UNCHANGED <<proc, launches, set_back, clock, local_session, session_row, report_now>>
          /\ proc = "up" /\ app' = "store" /\ app_event'.timestamp = clock
      BY <1>6 DEF GameStart, MayHandle, EventOf
    <2> QED
      BY <1>0, <1>b, <2>1, IntervalStep
  <1>7. CASE OnBackground \/ OnForeground \/ Logout \/ \E u \in Users : Login(u)
    <2>1. /\ local_session' = Stamped(local_session)
             \/ local_session' = [Stamped(local_session) EXCEPT !.user = NoUser]
          /\ session_row' = local_session' /\ app_event'.timestamp = clock
          /\ proc = "up" /\ app = "idle" /\ app' = "store"
          /\ UNCHANGED <<proc, launches, set_back, clock, report_now>>
      BY <1>7 DEF OnBackground, OnForeground, OnWindow, Logout, Login, MayHandle, UpdateSession,
                  EventOf
    <2>2. local_session'.last_timestamp = clock
      BY <1>0, <2>1 DEF Stamped, GameSession
    <2>3. handler' # handler
      BY <2>1 DEF handler
    <2> QED
      BY <1>0, <1>b, <2>1, <2>2, <2>3, IntervalStep
  <1>8. CASE StoreEvent
    <2>1. /\ UNCHANGED <<local_session, session_row, proc, launches, set_back, clock, report_now>>
          /\ proc = "up" /\ app = "store" /\ app' = "put"
          /\ app_event'.timestamp = app_event.timestamp /\ app_event'.action = app_event.action
      BY <1>0, <1>8 DEF StoreEvent, AddOrMergeEvent, DurEvent
    <2> QED
      BY <1>0, <1>b, <2>1, IntervalStep DEF Is
  <1>9. CASE PutEvent
    <2>1. /\ UNCHANGED <<local_session, session_row, proc, launches, set_back, clock, report_now>>
          /\ proc = "up" /\ app = "put" /\ app' \in {"start", "bind", "idle"}
          /\ app' = "start" => app_event' = app_event /\ Is(app_event, "GAME_START")
          /\ app' # "start" => app_event' = NoEvent
      BY <1>9 DEF PutEvent, Is
    <2>2. NoEvent.timestamp = 0
      BY DEF NoEvent
    <2> QED
      BY <1>0, <1>b, <2>1, <2>2, IntervalStep
  <1>10. CASE StartGame
    <2>1. /\ local_session'.last_timestamp = app_event.timestamp
          /\ session_row' = local_session' /\ proc = "up"
          /\ app = "start" /\ app' = "idle" /\ app_event' = NoEvent
          /\ UNCHANGED <<proc, launches, set_back, clock, report_now>>
      BY <1>0, <1>10 DEF StartGame, UpdateSession, GameSession
    <2>2. handler' # handler
      BY <2>1 DEF handler
    <2> QED
      BY <1>0, <1>b, <2>1, <2>2, IntervalStep DEF NoEvent
  <1>11. CASE BindUser \/ LocalHeatBeat
    <2>1. /\ UNCHANGED <<proc, launches, set_back, clock, report_now, app_event>>
          /\ session_row' = local_session' /\ proc = "up"
          /\ local_session'.last_timestamp = local_session.last_timestamp
          /\ app' = app \/ app' = "idle"
      BY <1>0, <1>11 DEF BindUser, LocalHeatBeat, MayBeat, UpdateSession, GameSession, handler
    <2> QED
      BY <1>0, <1>b, <2>1, IntervalStep
  <1>12. CASE OnlineHeatBeat \/ PutHeatBeat
    BY <1>0, <1>b, <1>12, IntervalStep DEF OnlineHeatBeat, MayBeat, PutHeatBeat, handler
  <1>13. ASSUME NEW e \in BOOLEAN, NEW s \in StartTimes,
                RefreshConfig([enable |-> e, available_start_ts |-> s])
         PROVE  IntervalInv' /\ Advances
    <2>1. /\ UNCHANGED <<local_session, session_row, launches, app, app_event, report_now>>
          /\ proc = "up" /\ proc' \in {"up", "aborted"}
          /\ set_back' = (set_back \/ clock' < clock)
      BY <1>13 DEF RefreshConfig, UpdateConfig, InitReportThread, handler
    <2>2. clock' \in Nat
      BY DEF TypeOK
    <2>3. ASSUME ~set_back' PROVE Behind'
      <3>1. ~set_back /\ ~(clock' < clock)
        BY <2>1, <2>3
      <3>2. clock <= clock'
        BY <1>0, <2>2, <3>1
      <3> QED
        BY <1>0, <1>b, <2>1, <2>2, <3>1, <3>2 DEF Behind
    <2>4. Advances
      BY <1>0, <2>1 DEF Advances
    <2> QED
      BY <1>0, <2>1, <2>3, <2>4 DEF IntervalInv
  <1>14. CASE Report
    <2>1. CASE AckHeatBeat
      <3>1. /\ session_row' = local_session'
            /\ \/ local_session' = local_session
               \/ /\ local_session'.last_timestamp = report_now
                  /\ report_now > local_session.last_timestamp
        BY <1>0, <2>1 DEF AckHeatBeat, BeatIsNewer, UpdateSession, GameSession, Alive
      <3>2. /\ UNCHANGED <<proc, launches, set_back, clock, report_now, app, app_event>>
            /\ app = "idle" /\ proc \in {"up", "closing"}
        BY <2>1 DEF AckHeatBeat, Alive, handler
      <3> QED
        BY <1>0, <1>b, <3>1, <3>2, IntervalStep
    <2>2. CASE ~AckHeatBeat
      <3>1. /\ UNCHANGED <<proc, launches, set_back, clock, app, app_event, local_session, session_row>>
            /\ proc \in {"up", "closing"}
            /\ report_now' \in {0, clock, report_now}
        BY <1>14, <2>2 DEF Report, ReportLoop, Take, Compose, ComposeNothing, DeleteReported,
                           DropRefused, Delete, Retry, Alive, handler
      <3> QED
        BY <1>0, <1>b, <3>1, IntervalStep
    <2> QED
      BY <2>1, <2>2
  <1>15. CASE Post
    BY <1>0, <1>b, <1>15, IntervalStep DEF Post, PostAccepted, PostRefused, PostFailed, Alive, handler
  <1>16. CASE UNCHANGED vars
    BY <1>0, <1>16 DEF vars, IntervalInv, Behind, Advances, TypeOK, TablesOK, GameSession, handler
  <1> QED
    BY <1>1, <1>2, <1>3, <1>4, <1>5, <1>6, <1>7, <1>8, <1>9, <1>10, <1>11, <1>12, <1>13,
       <1>14, <1>15, <1>16
    DEF Next, Life, AppCall, AppStep, TimerStep, Config

\* Wherever the server's clock stands, an interval of a session starts before the last
\* only by a handler's own event, after SetOnlineTime turned the clock back.
THEOREM IntervalsOnlyAdvance == Spec => IntervalsAdvance
  <1>1. TypeOK /\ TypeOK' /\ SessionInv /\ IntervalInv /\ [Next]_vars => IntervalInv' /\ [Advances]_vars
    BY IntervalNext
  <1>2. [][Advances]_vars => IntervalsAdvance
    BY PTL DEF Advances, IntervalsAdvance
  <1> QED
    BY <1>1, <1>2, TypeCorrect, OutboxInit, OutboxNext, SessionInit, SessionNext, IntervalInit, PTL
    DEF Spec

=============================================================================
