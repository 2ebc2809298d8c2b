--------------------------- MODULE DurPersistence ---------------------------
(***************************************************************************)
(* The SQLite file behind the duration statistics (duration/persistence):  *)
(* the tables dur_event, game_session and report_config, and the           *)
(* operations DurPersistence offers on them.  Every operation takes the    *)
(* object's lock and is one atomic step here; the tables survive a crash.  *)
(*                                                                         *)
(* dur_event maps the row id to the row.  Ids are AUTOINCREMENT, so        *)
(* sqlite_seq, the largest id ever given out, also survives and a deleted  *)
(* id is never used again.  Of game_session and report_config only the     *)
(* newest row is ever read back, so that row stands for the table.         *)
(***************************************************************************)
EXTENDS Integers, Sequences

CONSTANTS
    Users,      \* user ids a TDSUser may have
    Games,      \* game ids a Game may have
    NoUser,     \* the empty user_id
    NoGame,     \* the empty game_id
    NoRow       \* what GetLatest... returns from an empty table

VARIABLES dur_event, sqlite_seq, session_row, config_row

tables == <<dur_event, sqlite_seq, session_row, config_row>>

EventAction == {"GAME_START", "GAME_FOREGROUND", "GAME_BACKGROUND", "GAME_END",
                "HEAT_BEAT", "USER_LOGIN", "USER_LOGOUT"}

\* tap_user, game_pkg and the device columns follow user and game and are left out.
DurEvent == [id: Nat, action: EventAction, session: Nat,
             user: Users \cup {NoUser}, game: Games \cup {NoGame},
             timestamp: Nat, last_timestamp: Nat]

\* game_start is written and never read.
GameSession == [session: Nat, user: Users \cup {NoUser}, game: Games \cup {NoGame},
                last_beats: Nat, last_timestamp: Nat]

\* The frequencies only pace the timer; available_start_ts = 0 means "not given".
ReportConfig == [enable: BOOLEAN, available_start_ts: Nat]

TablesOK ==
    /\ sqlite_seq \in Nat
    /\ DOMAIN dur_event \subseteq 1..sqlite_seq
    /\ dur_event \in [DOMAIN dur_event -> DurEvent]
    /\ session_row \in GameSession \cup {NoRow}
    /\ config_row \in ReportConfig \cup {NoRow}

\* make_storage / sync_schema on a fresh cache directory, every table empty, or on
\* one an earlier process left with its events reported (ids count on from there):
\* one of the given configs and the session of its game.
InitDB(configs, sessions) ==
    /\ dur_event = <<>>
    /\ sqlite_seq = 0
    /\ \/ session_row = NoRow /\ config_row = NoRow
       \/ session_row \in sessions /\ config_row \in configs

MergesNever(e) == {}                                              \* mutant
\* The newest row, when e continues it: same action, same session.
MergeTarget(e) ==
    {i \in DOMAIN dur_event :
        /\ \A j \in DOMAIN dur_event : j <= i
        /\ dur_event[i].action = e.action
        /\ dur_event[i].session = e.session}

IdBeforeInsert(e) == {sqlite_seq}                                 \* mutant
\* The id AddOrMergeEvent leaves in e: that of the merged row or a new one.
EventId(e) == {i \in 1..(sqlite_seq + 1) :
                  \/ i \in MergeTarget(e)
                  \/ MergeTarget(e) = {} /\ i = sqlite_seq + 1}

\* e replaces the row it merges with, or is appended under a new id.
AddOrMergeEvent(e, id) ==
    /\ id \in EventId(e)
    /\ dur_event' = [i \in DOMAIN dur_event \cup {id} |->
                        IF i = id THEN [e EXCEPT !.id = id] ELSE dur_event[i]]
    /\ sqlite_seq' = IF id > sqlite_seq THEN id ELSE sqlite_seq
    /\ UNCHANGED <<session_row, config_row>>

\* Delete(vector): rows go by id; an event that was never stored has id 0.
Delete(events) ==
    LET gone == {events[i].id : i \in DOMAIN events} \ {0}
    IN  /\ dur_event' = [i \in DOMAIN dur_event \ gone |-> dur_event[i]]
        /\ UNCHANGED <<sqlite_seq, session_row, config_row>>

IsDescending(q, S) ==                                             \* mutant
    /\ \A i, j \in DOMAIN q : i < j => q[i] > q[j]
    /\ \A x \in S : \E i \in DOMAIN q : q[i] = x
\* GetEvents: the ids of the table in ascending order, here of those in S.
IsAscending(q, S) ==
    /\ \A i, j \in DOMAIN q : i < j => q[i] < q[j]
    /\ \A x \in S : \E i \in DOMAIN q : q[i] = x

\* The row of the running session has its id from NewGameSession on.
UpdateSession(session) ==
    /\ session_row' = session
    /\ UNCHANGED <<dur_event, sqlite_seq, config_row>>

\* A config from the network has id 0, so it is inserted and is the newest row.
UpdateConfig(config) ==
    /\ config_row' = config
    /\ UNCHANGED <<dur_event, sqlite_seq, session_row>>

=============================================================================
