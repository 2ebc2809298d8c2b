----------------------------- MODULE CInterface -----------------------------
(***************************************************************************)
(* sdk/tapsdk_api.cpp as a whole: Sdk, the start and the session calls,    *)
(* with TrackerApi, the tracker calls.  They meet in two flags: the gate   *)
(* sdk_inited, and tracker::inited, which Init raises if the config that   *)
(* the modules were started with switches the tracker on.                  *)
(***************************************************************************)
EXTENDS Sdk

CONSTANTS Structs, Fields, Messages, NoHash,
          TrackerOn         \* the configs with enable_tap_tracker

VARIABLES fields, hash, tracker_configs, state, config, meant, stored

tracker_inited == started # Nothing /\ started.config \in TrackerOn

Api == INSTANCE TrackerApi WITH inited <- tracker_inited

trackerVars == <<fields, hash, tracker_configs, state, config, meant, stored>>

InterfaceInit == Init /\ Api!Init

\* A tracker call of an idle thread, or the host fills in the struct for one.
TrackerCall ==
    /\ sdk_inited /\ end = "no" /\ \E t \in Threads : place[t] = "idle"
    /\ Api!Next

InterfaceNext ==
    \/ Next /\ UNCHANGED trackerVars
    \/ UNCHANGED vars /\ TrackerCall

InterfaceSpec == InterfaceInit /\ [][InterfaceNext]_<<vars, trackerVars>>

\* A tracker message goes where its caller's fields say, unless the caller changed them
\* and left a hash that is known: then it goes to the configuration of the old fields.
\* No hash a caller passes spoils the cache of configurations, and a message is stored
\* once at most, although a flush may store it and still fail and be tried again.
MessagesGoRight == Api!CachedUnderItsHash /\ Api!CallersConfig /\ Api!StoredOnce

=============================================================================
