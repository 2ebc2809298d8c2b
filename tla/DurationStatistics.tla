------------------------- MODULE DurationStatistics -------------------------
(***************************************************************************)
(* The duration statistics (duration/duration.cpp): the handlers of the    *)
(* window, user and game events, the two heart beats and the config        *)
(* request of the timer thread, and the thread that reports the events.    *)
(*                                                                         *)
(* Three threads interleave.                                               *)
(*  - The application thread runs a handler under event_lock.  A handler   *)
(*    is cut at every point where it changes the disk or the queue, so the *)
(*    other threads and a crash come between; app is where it stands and   *)
(*    event_lock is held exactly while app # "idle".                       *)
(*  - The timer thread runs one callback at a time; timer = "beat" is the  *)
(*    online heart beat between its test and event_lock.                   *)
(*  - The reporter thread is thread, with its locals batch (events),       *)
(*    has_heat_beats, report_now (now) and report_success.                 *)
(* A crash, or a normal end, brings proc back to "down"; only the tables   *)
(* of DurPersistence survive, and the next launch reads them.              *)
(*                                                                         *)
(* stored, answered and set_back are history: the events ever given to     *)
(* AddOrMergeEvent, those the collector accepted or refused for good, and  *)
(* whether a config's answer has turned the clock of this process back.    *)
(***************************************************************************)
EXTENDS DurPersistence

CONSTANTS
    BadUsers,         \* user ids ReportContent::ToJson throws on
    MaxReport,        \* max_report_events, 20 in the code
    ExpireAfter,      \* 3 * 24 * 60 * 60 in EventExpired
    StartTimes,       \* available_start_ts values the server sends
    CachedConfigs,    \* configs an earlier process may have left in report_config
    Skews,            \* steps of the clock at SetOnlineTime and from process to process
    MaxLaunches,      \* bound: launches of the process
    MaxEvents,        \* bound: row ids given out before a handler begins
    MaxQueue,         \* bound: length of report_queue before an event is added
    MaxPosts,         \* bound: request_config messages posted
    MaxClock          \* bound: the clock

ASSUME DurAssumption ==
    /\ BadUsers \subseteq Users
    /\ NoUser \notin Users
    /\ NoGame \notin Games
    /\ NoRow \notin GameSession \cup ReportConfig
    /\ MaxReport \in Nat \ {0}
    /\ ExpireAfter \in Nat
    /\ StartTimes \subseteq Nat
    /\ CachedConfigs \subseteq ReportConfig
    /\ Skews \subseteq Int
    /\ MaxLaunches \in Nat /\ MaxEvents \in Nat /\ MaxQueue \in Nat
    /\ MaxPosts \in Nat /\ MaxClock \in Nat

VARIABLES
    proc,             \* the process: down, Init half done, up, in the destructor, terminated
    clock,            \* Timestamp()
    launches,         \* launches so far; the current one names game_session
    foreground, game_id, user_id, local_session,
    report_config, running,
    report_queue, stopped,          \* BlockingQueue: queue_ and stopped
    app, app_event,
    timer, config_posts, set_back,  \* config_posts: request_config messages posted
    thread, batch, has_heat_beats, report_now, report_success,
    stored, answered

handler  == <<app, app_event>>
session  == <<foreground, game_id, user_id, local_session>>
queue    == <<report_queue, stopped>>
control  == <<report_config, running>>
timers   == <<timer, config_posts, set_back>>
reporter == <<thread, batch, has_heat_beats, report_now, report_success>>
history  == <<stored, answered>>
vars == <<tables, proc, clock, launches, session, control, queue, handler,
          timers, reporter, history>>

NoSession == [session |-> 0, user |-> NoUser, game |-> NoGame,
              last_beats |-> 0, last_timestamp |-> 0]
NoEvent == [id |-> 0, action |-> "HEAT_BEAT", session |-> 0, user |-> NoUser,
            game |-> NoGame, timestamp |-> 0, last_timestamp |-> 0]
\* What an earlier process left of a session, all of whose events are reported.
EarlierSession(game) == [NoSession EXCEPT !.game = game, !.last_beats = 1,
                                         !.last_timestamp = 1]
DefaultConfig == [enable |-> TRUE, available_start_ts |-> 0]

TypeOK ==
    /\ TablesOK
    /\ proc \in {"down", "init", "up", "closing", "aborted"}
    /\ clock \in Nat
    /\ launches \in Nat
    /\ foreground \in BOOLEAN
    /\ game_id \in Games \cup {NoGame}
    /\ user_id \in Users \cup {NoUser}
    /\ local_session \in GameSession
    /\ report_config \in ReportConfig
    /\ running \in BOOLEAN
    /\ report_queue \in Seq(DurEvent)
    /\ stopped \in BOOLEAN
    /\ app \in {"idle", "store", "put", "start", "bind"}
    /\ app_event \in DurEvent
    /\ timer \in {"idle", "beat"}
    /\ config_posts \in Nat
    /\ set_back \in BOOLEAN
    /\ thread \in {"none", "loop", "take", "compose", "post", "delete", "drop",
                   "ack", "sleep", "exited"}
    /\ batch \in Seq(DurEvent)
    /\ has_heat_beats \in BOOLEAN
    /\ report_now \in Nat
    /\ report_success \in {"unset", "yes", "no"}
    /\ stored \subseteq DurEvent
    /\ answered \subseteq DurEvent

-----------------------------------------------------------------------------
(* Start, end and loss of the process.                                     *)

\* A process that does not run: the members as their initializers leave them.
Reset ==
    /\ foreground' = TRUE
    /\ game_id' = NoGame
    /\ user_id' = NoUser
    /\ local_session' = NoSession
    /\ report_config' = DefaultConfig
    /\ running' = FALSE
    /\ report_queue' = <<>>
    /\ stopped' = FALSE
    /\ app' = "idle"
    /\ app_event' = NoEvent
    /\ timer' = "idle"
    /\ config_posts' = 0
    /\ set_back' = FALSE
    /\ thread' = "none"
    /\ batch' = <<>>
    /\ has_heat_beats' = FALSE
    /\ report_now' = 0
    /\ report_success' = "unset"

Init ==
    /\ InitDB(CachedConfigs, {EarlierSession(g) : g \in Games})
    /\ proc = "down"
    /\ clock = 1
    /\ launches = 0
    /\ foreground = TRUE
    /\ game_id = NoGame
    /\ user_id = NoUser
    /\ local_session = NoSession
    /\ report_config = DefaultConfig
    /\ running = FALSE
    /\ report_queue = <<>>
    /\ stopped = FALSE
    /\ app = "idle"
    /\ app_event = NoEvent
    /\ timer = "idle"
    /\ config_posts = 0
    /\ set_back = FALSE
    /\ thread = "none"
    /\ batch = <<>>
    /\ has_heat_beats = FALSE
    /\ report_now = 0
    /\ report_success = "unset"
    /\ stored = {}
    /\ answered = {}

\* The GAME_END of the session the previous process left behind.
GameEnd == [id |-> 0, action |-> "GAME_END", session |-> session_row.session,
            user |-> session_row.user, game |-> session_row.game,
            timestamp |-> session_row.last_beats,
            last_timestamp |-> session_row.last_timestamp]

\* Timestamp() steps, within the bound.
StepClock == \E d \in Skews : clock + d \in 1..MaxClock /\ clock' = clock + d

\* DurationStatistics::Init up to the end of the previous session; the first
\* half of NewGameSession.  What SetOnlineTime did to the clock ended with the
\* process before, so a launch finds the device's own clock.
EndPreviousSession ==
    /\ proc = "down"
    /\ launches < MaxLaunches
    /\ proc' = "init"
    /\ StepClock
    /\ \/ /\ session_row = NoRow
          /\ UNCHANGED <<tables, user_id, stored>>
       \/ /\ session_row # NoRow
          /\ \E id \in EventId(GameEnd) :
                /\ AddOrMergeEvent(GameEnd, id)
                /\ stored' = stored \cup {[GameEnd EXCEPT !.id = id]}
          /\ user_id' = session_row.user
    /\ UNCHANGED <<launches, foreground, game_id, local_session, control, queue,
                   handler, timers, reporter, answered>>

EventExpired(event, config) ==
    event.timestamp < IF config.available_start_ts # 0
                      THEN config.available_start_ts
                      ELSE clock - ExpireAfter

\* if (!report_config.enable) return
StartsReporter(config) == config.enable

\* The second half of NewGameSession: the row of the new session.
NewGameSession ==
    /\ launches' = launches + 1
    /\ local_session' = [local_session EXCEPT !.session = launches + 1]
    /\ UpdateSession(local_session')

\* InitHistory: the cached config, then the queue filled from the table.
InitHistory ==
    /\ report_config' = IF config_row = NoRow THEN report_config ELSE config_row
    /\ LET live == {i \in DOMAIN dur_event : ~EventExpired(dur_event[i], report_config')}
       IN  \E n \in 0..sqlite_seq : \E ids \in [1..n -> live] :
              /\ IsAscending(ids, live)
              /\ report_queue' = [i \in 1..n |-> dur_event[ids[i]]]

\* The rest of Init: after the two above, the reporter unless the cached config
\* disables it (InitReportThread), and the unconditional running = true of
\* InitRequest.
StartSession ==
    /\ proc = "init"
    /\ proc' = "up"
    /\ NewGameSession
    /\ InitHistory
    /\ thread' = IF StartsReporter(report_config') THEN "loop" ELSE "none"
    /\ running' = TRUE
    /\ UNCHANGED <<clock, foreground, game_id, user_id, stopped, handler, timers,
                   batch, has_heat_beats, report_now, report_success, history>>

\* The process is killed, wherever its threads stand.
Crash ==
    /\ proc # "down"
    /\ proc' = "down"
    /\ Reset
    /\ UNCHANGED <<tables, clock, launches, history>>

Stop ==
    IF running THEN running' = FALSE /\ stopped' = TRUE
               ELSE UNCHANGED <<running, stopped>>

\* ~DurationStatistics, at process exit, after ~CoreTimer joined its thread.
Close ==
    /\ proc = "up"
    /\ app = "idle" /\ timer = "idle"
    /\ proc' = "closing"
    /\ IF thread # "none" THEN Stop ELSE UNCHANGED <<running, stopped>>
    /\ UNCHANGED <<tables, clock, launches, session, report_config, report_queue,
                   handler, timers, reporter, history>>

\* report_thread->join() returns and the process is gone.
Joined ==
    /\ proc = "closing"
    /\ thread \in {"none", "exited"}
    /\ proc' = "down"
    /\ Reset
    /\ UNCHANGED <<tables, clock, launches, history>>

Tick ==
    /\ clock < MaxClock
    /\ clock' = clock + 1
    /\ UNCHANGED <<tables, proc, launches, session, control, queue, handler,
                   timers, reporter, history>>

-----------------------------------------------------------------------------
(* The handlers, under event_lock.                                         *)

\* The lock is free and a handler may begin.
MayHandle ==
    /\ proc = "up"
    /\ app = "idle"
    /\ sqlite_seq < MaxEvents
    /\ Len(report_queue) < MaxQueue

EventOf(action, user, game, last) ==
    [id |-> 0, action |-> action, session |-> launches, user |-> user,
     game |-> game, timestamp |-> clock, last_timestamp |-> last]

\* last_beats and last_timestamp move to the event's time.
Stamped(s) == [s EXCEPT !.last_beats = clock, !.last_timestamp = clock]

\* GameStart up to the event.
GameStart(game) ==
    /\ MayHandle
    /\ config_posts < MaxPosts
    /\ game_id' = game
    /\ app_event' = EventOf("GAME_START", user_id, game, 0)
    /\ app' = "store"
    /\ UNCHANGED <<tables, proc, clock, launches, foreground, user_id, local_session,
                   control, queue, timers, reporter, history>>

\* OnBackground and OnForeground up to UpdateSession.  Without a game ASSERT_MSG
\* throws before anything has changed.
OnWindow(action, in_foreground) ==
    /\ MayHandle
    /\ game_id # NoGame
    /\ foreground' = in_foreground
    /\ app_event' = EventOf(action, user_id, game_id, local_session.last_timestamp)
    /\ local_session' = Stamped(local_session)
    /\ UpdateSession(local_session')
    /\ app' = "store"
    /\ UNCHANGED <<proc, clock, launches, game_id, user_id, control, queue, timers,
                   reporter, history>>

OnBackground == OnWindow("GAME_BACKGROUND", FALSE)
OnForeground == OnWindow("GAME_FOREGROUND", TRUE)

\* OnNewUser with a user that is not the current one, up to UpdateSession: the
\* session row still carries the old user.
Login(user) ==
    /\ MayHandle
    /\ user # user_id
    /\ user_id' = user
    /\ app_event' = EventOf("USER_LOGIN", user, game_id, local_session.last_timestamp)
    /\ local_session' = Stamped(local_session)
    /\ UpdateSession(local_session')
    /\ app' = "store"
    /\ UNCHANGED <<proc, clock, launches, foreground, game_id, control, queue, timers,
                   reporter, history>>

\* OnNewUser with the current user: no event, only the session is bound to it.
LoginAgain ==
    /\ proc = "up"
    /\ app = "idle"
    /\ user_id # NoUser
    /\ app' = "bind"
    /\ UNCHANGED <<tables, proc, clock, launches, session, control, queue, app_event,
                   timers, reporter, history>>

\* OnNewUser without a user.
Logout ==
    /\ MayHandle
    /\ user_id' = NoUser
    /\ app_event' = EventOf("USER_LOGOUT", NoUser, game_id, local_session.last_timestamp)
    /\ local_session' = [Stamped(local_session) EXCEPT !.user = NoUser]
    /\ UpdateSession(local_session')
    /\ app' = "store"
    /\ UNCHANGED <<proc, clock, launches, foreground, game_id, control, queue, timers,
                   reporter, history>>

PutBeforeStore ==                                                 \* mutant
    /\ proc = "up"
    /\ app = "store"
    /\ app' = "put"
    /\ UNCHANGED <<tables, proc, clock, launches, session, control, queue, app_event,
                   timers, reporter, history>>

\* persistence->AddOrMergeEvent(event) of every handler.
StoreEvent ==
    /\ proc = "up"
    /\ app = "store"
    /\ \E id \in EventId(app_event) :
          /\ AddOrMergeEvent(app_event, id)
          /\ app_event' = [app_event EXCEPT !.id = id]
          /\ stored' = stored \cup {[app_event EXCEPT !.id = id]}
    /\ app' = "put"
    /\ UNCHANGED <<proc, clock, launches, session, control, queue, timers, reporter,
                   answered>>

\* report_queue.Put(event) of every handler.
PutEvent ==
    /\ proc = "up"
    /\ app = "put"
    /\ report_queue' = Append(report_queue, app_event)
    /\ app' = CASE app_event.action = "GAME_START" -> "start"
                [] app_event.action = "USER_LOGIN" -> "bind"
                [] OTHER -> "idle"
    /\ app_event' = IF app' = "start" THEN app_event ELSE NoEvent
    /\ UNCHANGED <<tables, proc, clock, launches, session, control, stopped, timers,
                   reporter, history>>

\* The end of GameStart: the session row gets the game, a config is requested.
StartGame ==
    /\ proc = "up"
    /\ app = "start"
    /\ local_session' = [local_session EXCEPT !.game = game_id,
                            !.last_beats = app_event.timestamp,
                            !.last_timestamp = app_event.timestamp]
    /\ UpdateSession(local_session')
    /\ config_posts' = config_posts + 1
    /\ app' = "idle"
    /\ app_event' = NoEvent
    /\ UNCHANGED <<proc, clock, launches, foreground, game_id, user_id, control, queue,
                   timer, set_back, reporter, history>>

\* The end of a login: the session row gets the user.
BindUser ==
    /\ proc = "up"
    /\ app = "bind"
    /\ local_session' = [local_session EXCEPT !.user = user_id]
    /\ UpdateSession(local_session')
    /\ app' = "idle"
    /\ UNCHANGED <<proc, clock, launches, foreground, game_id, user_id, control, queue,
                   app_event, timers, reporter, history>>

-----------------------------------------------------------------------------
(* The timer thread.                                                       *)

MayBeat ==
    /\ proc = "up"
    /\ timer = "idle"
    /\ foreground
    /\ game_id # NoGame

\* local_heat_beat: saves the session without event_lock.
LocalHeatBeat ==
    /\ MayBeat
    /\ local_session' = [local_session EXCEPT !.last_beats = clock]
    /\ UpdateSession(local_session')
    /\ UNCHANGED <<proc, clock, launches, foreground, game_id, user_id, control, queue,
                   handler, timers, reporter, history>>

\* online_heat_beat: the test, before event_lock.
OnlineHeatBeat ==
    /\ MayBeat
    /\ Len(report_queue) < MaxQueue
    /\ timer' = "beat"
    /\ UNCHANGED <<tables, proc, clock, launches, session, control, queue, handler,
                   config_posts, set_back, reporter, history>>

\* online_heat_beat: the event, never stored.  Its two times are set again when
\* it is sent, so they are left at 0.
PutHeatBeat ==
    /\ proc = "up"
    /\ timer = "beat"
    /\ app = "idle"
    /\ report_queue' = Append(report_queue,
          [id |-> 0, action |-> "HEAT_BEAT", session |-> launches, user |-> user_id,
           game |-> game_id, timestamp |-> 0, last_timestamp |-> 0])
    /\ timer' = "idle"
    /\ UNCHANGED <<tables, proc, clock, launches, session, control, stopped, handler,
                   config_posts, set_back, reporter, history>>

RestartsReporter ==                                               \* mutant
    /\ running' = TRUE
    /\ IF thread = "none" THEN thread' = "loop" /\ UNCHANGED proc
                          ELSE proc' = "aborted" /\ UNCHANGED thread

\* InitReportThread with the config just received.  Giving report_thread a new
\* thread while the old one was never joined is std::terminate.
InitReportThread ==
    IF running
    THEN UNCHANGED <<proc, running, thread>>
    ELSE /\ running' = TRUE
         /\ IF thread = "none"
            THEN thread' = "loop" /\ UNCHANGED proc
            ELSE proc' = "aborted" /\ UNCHANGED thread

\* request_config answered: RefreshConfig(config, true).  A request that fails is
\* posted again, which leaves config_posts as it was.
RefreshConfig(config) ==
    /\ proc = "up"
    /\ timer = "idle"
    /\ config_posts > 0
    /\ config_posts' = config_posts - 1
    /\ report_config' = config
    /\ StepClock
    /\ set_back' = (set_back \/ clock' < clock)
    /\ IF config.enable
       THEN InitReportThread /\ UNCHANGED stopped
       ELSE Stop /\ UNCHANGED <<proc, thread>>
    /\ IF proc' = "aborted" THEN UNCHANGED tables ELSE UpdateConfig(config)
    /\ UNCHANGED <<launches, session, report_queue, handler, timer, batch,
                   has_heat_beats, report_now, report_success, history>>

-----------------------------------------------------------------------------
(* The reporter thread.                                                    *)

Alive == proc \in {"up", "closing"}

Is(e, action) == e.action = action

\* while (running)
ReportLoop ==
    /\ Alive
    /\ thread = "loop"
    /\ thread' = IF running THEN "take" ELSE "exited"
    /\ batch' = <<>>
    /\ has_heat_beats' = FALSE
    /\ report_now' = 0
    /\ report_success' = "unset"
    /\ UNCHANGED <<tables, proc, clock, launches, session, control, queue, handler,
                   timers, history>>

\* while (queue_.empty() && !stopped) wait
TakeReadyForTwo == stopped \/ Len(report_queue) > 1              \* mutant
TakeReadyUnlessStopped == report_queue # <<>>                     \* mutant
TakeReady == stopped \/ report_queue # <<>>

\* report_queue.Take(max_report_events): waits for an event, empty once stopped.
Take ==
    /\ Alive
    /\ thread = "take"
    /\ thread' = "compose"
    /\ TakeReady
    /\ \/ /\ stopped
          /\ UNCHANGED <<batch, report_queue>>
       \/ /\ ~stopped
          /\ LET size == IF Len(report_queue) < MaxReport THEN Len(report_queue)
                                                          ELSE MaxReport
             IN  /\ batch' = SubSeq(report_queue, 1, size)
                 /\ report_queue' = SubSeq(report_queue, size + 1, Len(report_queue))
    /\ UNCHANGED <<tables, proc, clock, launches, session, control, stopped, handler,
                   timers, has_heat_beats, report_now, report_success, history>>

HasHeatBeat == \E i \in DOMAIN batch : Is(batch[i], "HEAT_BEAT")
HasStored == \E i \in DOMAIN batch : ~Is(batch[i], "HEAT_BEAT")

\* The reports of one round: every stored event, and the first heart beat if the
\* game is in the foreground.
Compose ==
    /\ Alive
    /\ thread = "compose"
    /\ HasStored \/ (HasHeatBeat /\ foreground)
    /\ thread' = "post"
    /\ report_now' = clock
    /\ has_heat_beats' = (HasHeatBeat /\ foreground)
    /\ UNCHANGED <<tables, proc, clock, launches, session, control, queue, handler,
                   timers, batch, report_success, history>>

\* Nothing to report: "continue" evaluates !report_success && running, and until
\* a post has set it report_success is uninitialized, either value.
ComposeNothing ==
    /\ Alive
    /\ thread = "compose"
    /\ ~HasStored /\ ~(HasHeatBeat /\ foreground)
    /\ \/ /\ running /\ report_success \in {"unset", "no"}
          /\ UNCHANGED thread
       \/ /\ ~running \/ report_success = "unset"
          /\ thread' = "loop"
    /\ has_heat_beats' = FALSE
    /\ report_now' = clock
    /\ UNCHANGED <<tables, proc, clock, launches, session, control, queue, handler,
                   timers, batch, report_success, history>>

\* The events of the batch whose rows depend on the answer.
BatchStored == {batch[i] : i \in {j \in DOMAIN batch : ~Is(batch[j], "HEAT_BEAT")}}

\* ReportContent::ToJson throws on one of the reports: no request is sent.
Unsendable ==
    \E i \in DOMAIN batch :
        /\ batch[i].user \in BadUsers
        /\ \/ ~Is(batch[i], "HEAT_BEAT")
           \/ /\ has_heat_beats
              /\ \A j \in 1..(i - 1) : ~Is(batch[j], "HEAT_BEAT")

\* PostSync has an answer: accepted.
PostAccepted ==
    /\ Alive
    /\ thread = "post"
    /\ ~Unsendable
    /\ answered' = answered \cup BatchStored
    /\ report_success' = "yes"
    /\ thread' = "delete"
    /\ UNCHANGED <<tables, proc, clock, launches, session, control, queue, handler,
                   timers, batch, has_heat_beats, report_now, stored>>

\* PostSync has an answer: 4xx other than 404, which is never retried.
PostRefused ==
    /\ Alive
    /\ thread = "post"
    /\ ~Unsendable
    /\ answered' = answered \cup BatchStored
    /\ report_success' = "no"
    /\ thread' = "drop"
    /\ UNCHANGED <<tables, proc, clock, launches, session, control, queue, handler,
                   timers, batch, has_heat_beats, report_now, stored>>

\* Where a failed post leads: sleep, with the events kept.
DropsOnFailure == "drop"                                          \* mutant
AfterFailure == "sleep"

\* PostSync failed: no network (404), a 5xx, or a report that cannot be encoded.
PostFailed ==
    /\ Alive
    /\ thread = "post"
    /\ report_success' = "no"
    /\ thread' = AfterFailure
    /\ UNCHANGED <<tables, proc, clock, launches, session, control, queue, handler,
                   timers, batch, has_heat_beats, report_now, history>>

\* persistence->Delete(events) after a success.
DeleteReported ==
    /\ Alive
    /\ thread = "delete"
    /\ Delete(batch)
    /\ thread' = IF has_heat_beats THEN "ack" ELSE "loop"
    /\ UNCHANGED <<proc, clock, launches, session, control, queue, handler,
                   timers, batch, has_heat_beats, report_now, report_success, history>>

\* persistence->Delete(events) and the break after a refusal.
DropRefused ==
    /\ Alive
    /\ thread = "drop"
    /\ Delete(batch)
    /\ thread' = "loop"
    /\ UNCHANGED <<proc, clock, launches, session, control, queue, handler,
                   timers, batch, has_heat_beats, report_now, report_success, history>>

\* now > local_session.last_timestamp
BeatAlwaysCounts == TRUE                                          \* mutant
BeatIsNewer == report_now > local_session.last_timestamp

\* The heart beat was accepted: under event_lock the session's last_timestamp
\* moves up to the time it was composed, unless a handler has moved it further.
AckHeatBeat ==
    /\ Alive
    /\ thread = "ack"
    /\ app = "idle"
    /\ IF BeatIsNewer
       THEN /\ local_session' = [local_session EXCEPT !.last_timestamp = report_now]
            /\ UpdateSession(local_session')
       ELSE UNCHANGED <<tables, local_session>>
    /\ thread' = "loop"
    /\ UNCHANGED <<proc, clock, launches, foreground, game_id, user_id, control, queue,
                   handler, timers, batch, has_heat_beats, report_now,
                   report_success, history>>

\* while (!report_success && running)
GivesUp == FALSE                                                  \* mutant
RetriesWhile == running

\* The sleep is over.
Retry ==
    /\ Alive
    /\ thread = "sleep"
    /\ thread' = IF RetriesWhile THEN "compose" ELSE "loop"
    /\ UNCHANGED <<tables, proc, clock, launches, session, control, queue, handler,
                   timers, batch, has_heat_beats, report_now, report_success, history>>

-----------------------------------------------------------------------------

AppStep == StoreEvent \/ PutEvent \/ StartGame \/ BindUser

AppCall ==
    \/ \E g \in Games : GameStart(g)
    \/ OnBackground
    \/ OnForeground
    \/ \E u \in Users : Login(u)
    \/ LoginAgain
    \/ Logout

Config == \E e \in BOOLEAN : \E s \in StartTimes :
              RefreshConfig([enable |-> e, available_start_ts |-> s])

TimerStep == LocalHeatBeat \/ OnlineHeatBeat \/ PutHeatBeat \/ Config

Report ==
    \/ ReportLoop \/ Take \/ Compose \/ ComposeNothing
    \/ DeleteReported \/ DropRefused \/ AckHeatBeat \/ Retry

Post == PostAccepted \/ PostRefused \/ PostFailed

Life == EndPreviousSession \/ StartSession \/ Crash \/ Close \/ Joined

Next == Life \/ Tick \/ AppCall \/ AppStep \/ TimerStep \/ Report \/ Post

Spec == Init /\ [][Next]_vars

\* Every thread is scheduled and gets event_lock in the end; a request ends, and
\* one that is repeated for ever is accepted in the end; the timer fires.  The
\* application and a crash owe nothing.
Fairness ==
    /\ WF_vars(StartSession) /\ WF_vars(Joined)
    /\ WF_vars(AppStep)
    /\ SF_vars(PutHeatBeat)
    /\ WF_vars(Report) /\ SF_vars(AckHeatBeat)
    /\ WF_vars(Post) /\ SF_vars(PostAccepted)

FairSpec == Spec /\ Fairness

-----------------------------------------------------------------------------
(* Properties.                                                             *)

\* What the queue, the reporter and a handler still hold, in sending order.
Waiting == batch \o report_queue \o (IF app = "put" THEN <<app_event>> ELSE <<>>)

OnDisk(e) == e.id \in DOMAIN dur_event /\ dur_event[e.id] = e

\* An event is on disk until it is answered itself: no failed post, retry, crash or
\* restart loses it.  The exception is an event that shares its row: a repetition
\* within the session replaces it there, and the answer to either takes the row
\* away.  The other is then only in memory (EventsAreOnTheirWay), and a process that
\* ends before its own post has lost it.
KeptUntilAnswered ==
    \A e \in stored :
        \/ e \in answered \/ OnDisk(e)
        \/ \E g \in stored \ {e} :
              /\ g.id = e.id /\ g.action = e.action /\ g.session = e.session
              /\ g \in answered \/ OnDisk(g)

\* Every row is an event some handler (or launch) stored under that very id, and
\* whatever is queued or in flight was stored first: the collector hears of
\* nothing that a crash could make the device forget having happened.
StoredFirst ==
    /\ \A i \in DOMAIN dur_event : dur_event[i] \in stored /\ dur_event[i].id = i
    /\ \A i \in DOMAIN Waiting : Is(Waiting[i], "HEAT_BEAT") \/ Waiting[i] \in stored

\* A session has at most one GAME_END row, however often a launch is interrupted,
\* and no event of the session comes after it.
SessionEndsOnce ==
    \A e, f \in stored :
        Is(e, "GAME_END") /\ f.session = e.session =>
            /\ f.id <= e.id
            /\ Is(f, "GAME_END") => f.id = e.id

\* The stored events reach the collector in the order of their rows, across
\* merges, restarts and retries.
ReportedInOrder ==
    \A i, j \in DOMAIN Waiting :
        (i < j /\ ~Is(Waiting[i], "HEAT_BEAT") /\ ~Is(Waiting[j], "HEAT_BEAT"))
            => Waiting[i].id <= Waiting[j].id

\* Every event of the running session is answered, with the reporter, in its queue or
\* about to be put there, also one whose row went with the answer to the event it
\* was merged with: until the reporter has ended, none is left to the next launch.
EventsAreOnTheirWay ==
    proc = "up" /\ thread # "exited" =>
        \A e \in stored : e.session = launches =>
            e \in answered \/ \E k \in DOMAIN Waiting : Waiting[k] = e

\* std::terminate needs a config that disables and one that enables again; any
\* other sequence of configs keeps to the one reporter.
AbortsOnlyWhenReenabled == proc = "aborted" => stopped /\ report_config.enable

\* Within a session last_timestamp, the start of the next interval the collector is
\* told, goes back, in memory or on disk, only when a config's answer has turned the
\* clock back, and then only by a handler's own event: never by a heart beat whose
\* answer comes late.
IntervalsAdvance ==
    [][/\ (/\ local_session'.session = local_session.session
           /\ local_session'.last_timestamp < local_session.last_timestamp)
          => set_back /\ handler' # handler
       /\ (/\ session_row # NoRow /\ session_row'.session = session_row.session
           /\ session_row'.last_timestamp < session_row.last_timestamp)
          => set_back /\ handler' # handler]_vars

\* With the game in the foreground for good, the reporter not disabled and no user
\* whose reports cannot be encoded, every stored event is reported in the end.
EventsAreReported ==
    <>[](/\ proc = "up" /\ foreground /\ ~stopped /\ thread # "none"
         /\ \A e \in stored : e.user \notin BadUsers) =>
        \A id \in 1..(MaxEvents + MaxLaunches) :
            []<>(\A i \in DOMAIN Waiting : Waiting[i].id # id)

\* Once disabled, or about to be joined, the reporter ends, whether it waits, retries a
\* report that cannot be encoded, or spins.  While it is enabled it may spin for ever:
\* started only after a disabling config, cached and received, it runs on a stopped
\* queue, and only the destructor's Stop ends it.
StopEndsReporter ==
    (proc = "up" /\ stopped /\ ~running) \/ proc = "closing"
        ~> thread \in {"none", "exited"} \/ proc = "aborted"

=============================================================================
