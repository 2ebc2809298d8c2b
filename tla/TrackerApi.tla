----------------------------- MODULE TrackerApi -----------------------------
(***************************************************************************)
(* sdk/tapsdk_api.cpp, the tracker part of the C interface: the cache of   *)
(* configurations by hash, and the life of a message from                  *)
(* tapsdk_tracker_create to tapsdk_tracker_flush.  A call is one step: the *)
(* first holds tracker_lock, the others belong to the message's owner.     *)
(*                                                                         *)
(* fields[k] and hash[k] are the caller's tapsdk_tracker_config k; a       *)
(* configuration is its fields, and its hash is named by it.  Storing a    *)
(* message is the business of Tracker, which may store one and say no.     *)
(*                                                                         *)
(* meant and stored are history: what a message was created for, if the    *)
(* hash of its struct was not that of other fields, and how often it was   *)
(* stored.                                                                 *)
(***************************************************************************)
EXTENDS Naturals

CONSTANTS Structs, Fields, Messages,
          NoHash            \* no member of Fields

VARIABLES fields, hash, tracker_configs, inited,
          state, config,        \* of the messages
          meant, stored

caller == <<fields, hash>>
message == <<state, config, meant, stored>>
vars == <<caller, tracker_configs, inited, message>>

Null == NoHash      \* no pointer

TypeOK ==
    /\ fields \in [Structs -> Fields]
    /\ hash \in [Structs -> Fields \cup {NoHash}]
    /\ tracker_configs \in [Fields -> Fields \cup {Null}]
    /\ inited \in BOOLEAN
    /\ state \in [Messages -> {"none", "live", "flushed", "freed", "lost"}]
    /\ config \in [Messages -> Fields \cup {Null}]
    /\ \A m \in Messages : state[m] \in {"live", "flushed"} => config[m] # Null
    /\ meant \in [Messages -> Fields \cup {Null}]
    /\ stored \in [Messages -> 0..2]

\* inited is tracker::inited: the host may have left the tracker switched off.
Init ==
    /\ fields \in [Structs -> Fields]
    /\ hash = [k \in Structs |-> NoHash]
    /\ tracker_configs = [h \in Fields |-> Null]
    /\ inited \in BOOLEAN
    /\ state = [m \in Messages |-> "none"] /\ config = [m \in Messages |-> Null]
    /\ meant = [m \in Messages |-> Null] /\ stored = [m \in Messages |-> 0]

-----------------------------------------------------------------------------
(* The caller's structs.                                                   *)

\* The caller fills the struct in: as it was initialised, with the hash of other
\* fields still in it, or with one kept from another run.
Refill(k, f, h) ==
    /\ fields' = [fields EXCEPT ![k] = f]
    /\ hash' = [hash EXCEPT ![k] = h]
    /\ UNCHANGED <<tracker_configs, inited, message>>

-----------------------------------------------------------------------------

Known(h) == h # NoHash /\ tracker_configs[h] # Null

\* The configuration a message is given: the cached one, if the hash is known.
ConfigOf(k) == IF Known(hash[k]) THEN tracker_configs[hash[k]] ELSE fields[k]

StoreUnknown(k) ==                                                \* mutant
    IF hash[k] = NoHash THEN [tracker_configs EXCEPT ![fields[k]] = fields[k]]
    ELSE [tracker_configs EXCEPT ![hash[k]] = ConfigOf(k)]

\* A configuration is kept only if it came without a hash; one with a hash that is
\* not known is made, and hashed, every time.
Remember(k) ==
    IF hash[k] = NoHash THEN [tracker_configs EXCEPT ![fields[k]] = fields[k]]
    ELSE tracker_configs

\* The hash of other fields.
Stale(k) == hash[k] \notin {NoHash, fields[k]}

\* tapsdk_tracker_create; a message that CreateTracker refuses is not given out, and
\* not freed either.
Create(k, m) ==
    /\ state[m] = "none"
    /\ tracker_configs' = Remember(k)
    /\ hash' = [hash EXCEPT ![k] = IF Known(@) THEN @ ELSE fields[k]]
    /\ state' = [state EXCEPT ![m] = IF inited THEN "live" ELSE "lost"]
    /\ config' = [config EXCEPT ![m] = ConfigOf(k)]
    /\ meant' = [meant EXCEPT ![m] = IF Stale(k) /\ Known(hash[k]) THEN Null ELSE fields[k]]
    /\ UNCHANGED <<fields, inited, stored>>

\* tapsdk_tracker_flush of a message that was not flushed: it is marked, stored or not,
\* and freed if FlushTracker says that it was stored.
Flush(m, pushed) ==
    /\ state[m] = "live"
    /\ stored[m] < 2
    /\ \E more \in IF pushed THEN {1} ELSE {0, 1} :
          stored' = [stored EXCEPT ![m] = @ + more]
    /\ state' = [state EXCEPT ![m] = IF pushed THEN "freed" ELSE "flushed"]
    /\ UNCHANGED <<caller, tracker_configs, inited, config, meant>>

\* Flushed again after an error: FlushTracker refuses, TAPSDK_ERROR again.  The two
\* tapsdk_tracker_msg_add functions throw then.  Neither changes anything.

-----------------------------------------------------------------------------

Next ==
    \/ \E k \in Structs, f \in Fields, h \in Fields \cup {NoHash} : Refill(k, f, h)
    \/ \E k \in Structs, m \in Messages : Create(k, m)
    \/ \E m \in Messages, pushed \in BOOLEAN : Flush(m, pushed)

Spec == Init /\ [][Next]_vars

-----------------------------------------------------------------------------
(* Properties.                                                             *)

\* The cache is right: what it holds for a hash is a configuration with that hash,
\* whatever hashes callers pass.
CachedUnderItsHash ==
    \A h \in Fields : tracker_configs[h] \in {Null, h}

\* A message goes where its caller's fields say, unless the caller changed them and
\* left the hash: then it goes to the configuration of the old fields.
CallersConfig ==
    \A m \in Messages : meant[m] # Null => config[m] = meant[m]

\* A message is stored once at most, although a flush may store it and still fail and
\* the caller may try again for ever.
StoredOnce == \A m \in Messages : stored[m] <= 1

=============================================================================
