------------------------------- MODULE Tracker -------------------------------
(***************************************************************************)
(* The tracker (tracker/tracker_impl.cpp): messages are flushed into cache *)
(* files, several per config hash, and a cache is uploaded when it is full *)
(* enough, or by a check that the timer repeats.  One upload runs at a     *)
(* time; its cache is out of the map meanwhile, and its answer clears the  *)
(* cache or puts it back.                                                  *)
(*                                                                         *)
(* tracker_lock is lock: "flush" while FlushTracker walks over the caches  *)
(* (walk says how far), "dead" when a thread waits for it that holds it.   *)
(* The check and the answer of an upload take it for one step each.  A     *)
(* cache is a value of CacheContent; files outlive the process.            *)
(*                                                                         *)
(* accepted, delivered, twice and mishaps are history: the messages        *)
(* FlushTracker answered true for, those a server has received, those it   *)
(* has received again, and what has gone wrong so far.                     *)
(***************************************************************************)
EXTENDS CacheContent, FiniteSets

CONSTANTS
    Hashes,           \* config hashes
    Malformed,        \* those whose endpoint is refused before anything is sent
    Messages, HashOf, \* messages and the hash of their config
    MaxCacheCount,    \* MAX_CACHE_COUNT, 16 in the code
    UploadCount,      \* UPLOAD_TRACKER_COUNT, 32 in the code
    GroupSize,        \* tracker_group_size
    NoFile,           \* no file, or one whose first Init did not finish
    NoUpload, NoCache, NoMessage,
    MaxCrashes,       \* bound: ends of the process
    MaxFailures       \* bound: failing file operations

ASSUME TrackerAssumption ==
    /\ Malformed \subseteq Hashes
    /\ HashOf \in [Messages -> Hashes]
    /\ MaxCacheCount \in Nat /\ UploadCount \in Nat /\ GroupSize \in Nat \ {0}
    /\ NoMessage \notin Messages
    /\ NoCache \notin Hashes \X (0..(MaxCacheCount - 1))
    /\ MaxCrashes \in Nat /\ MaxFailures \in Nat

Indexes == 0..(MaxCacheCount - 1)
Cache == [recs: Seq(Messages), count: Nat]
Upload == [hash: Hashes, index: Indexes, sent: Seq(Messages), received: BOOLEAN]

ASSUME NoFileAssumption == NoFile \notin Cache /\ NoUpload \notin Upload

VARIABLES
    proc, lock,
    files,                                \* the cache files
    trackers_cache, tracker_cache_ids,    \* the indexes in the map, and in use
    upload,                               \* the running upload; uploading is upload # NoUpload
    latest_upload_failed,
    message, walk, slot,                  \* FlushTracker: its message, how far its loops are
    flushed, accepted, delivered, twice, mishaps, crashes, failures

flush == <<message, walk, slot>>
maps == <<trackers_cache, tracker_cache_ids>>
history == <<flushed, accepted, delivered, twice, mishaps, crashes, failures>>
vars == <<proc, lock, files, maps, upload, latest_upload_failed, flush, history>>

Mishaps == {"answer_lost", "stored_refused", "crash", "push_cut", "clear_cut", "deleted",
            "unread"}

TypeOK ==
    /\ proc \in {"down", "up", "undefined"}
    /\ lock \in {"free", "flush", "dead"}
    /\ files \in [Hashes -> [Indexes -> Cache \cup {NoFile}]]
    /\ trackers_cache \in [Hashes -> SUBSET Indexes]
    /\ tracker_cache_ids \in [Hashes -> SUBSET Indexes]
    /\ upload \in Upload \cup {NoUpload}
    /\ latest_upload_failed \in (Hashes \X Indexes) \cup {NoCache}
    /\ message \in Messages \cup {NoMessage}
    /\ walk \in 0..MaxCacheCount /\ slot \in 0..MaxCacheCount
    /\ flushed \subseteq Messages
    /\ accepted \subseteq flushed
    /\ delivered \subseteq flushed
    /\ twice \subseteq delivered
    /\ mishaps \subseteq Mishaps
    /\ crashes \in Nat /\ failures \in Nat

NoIndexes == [h \in Hashes |-> {}]

Init ==
    /\ proc = "down"
    /\ lock = "free"
    /\ files = [h \in Hashes |-> [i \in Indexes |-> NoFile]]
    /\ trackers_cache = NoIndexes
    /\ tracker_cache_ids = NoIndexes
    /\ upload = NoUpload
    /\ latest_upload_failed = NoCache
    /\ message = NoMessage
    /\ walk = 0 /\ slot = 0
    /\ flushed = {} /\ accepted = {} /\ delivered = {} /\ twice = {}
    /\ mishaps = {}
    /\ crashes = 0 /\ failures = 0

\* A file operation that fails, and how often that may happen.
Fails == failures < MaxFailures /\ failures' = failures + 1

-----------------------------------------------------------------------------
(* Init.                                                                   *)

Existing == {c \in Hashes \X Indexes : files[c[1]][c[2]] # NoFile}

LaunchForgetsIds(unread) ==                                       \* mutant
    /\ proc = "down"
    /\ proc' = "up"
    /\ trackers_cache' = [h \in Hashes |-> {i \in Indexes : <<h, i>> \in Existing \ unread}]
    /\ IF unread = {} THEN UNCHANGED <<mishaps, failures>>
                      ELSE Fails /\ mishaps' = mishaps \cup {"unread"}
    /\ UNCHANGED <<lock, files, tracker_cache_ids, upload, latest_upload_failed, flush,
                   flushed, accepted, delivered, twice, crashes>>
\* SyncLoadTrackersCache: a cache for every file, but for those that throw.
Launch(unread) ==
    /\ proc = "down"
    /\ proc' = "up"
    /\ trackers_cache' = [h \in Hashes |-> {i \in Indexes : <<h, i>> \in Existing \ unread}]
    /\ tracker_cache_ids' = trackers_cache'
    /\ IF unread = {} THEN UNCHANGED <<mishaps, failures>>
                      ELSE Fails /\ mishaps' = mishaps \cup {"unread"}
    /\ UNCHANGED <<lock, files, upload, latest_upload_failed, flush,
                   flushed, accepted, delivered, twice, crashes>>

-----------------------------------------------------------------------------
(* Uploads.                                                                *)

Uploading == upload # NoUpload

\* UploadTopicTrackers fails before it waits for anything: there is nothing to
\* load, or the endpoint is no address.
FailsAtOnce(h, i) == Loaded(files[h][i]) = <<>> \/ h \in Malformed

StartInMap(h, i) ==                                               \* mutant
    /\ UNCHANGED maps
    /\ upload' = [hash |-> h, index |-> i, sent |-> Loaded(files'[h][i]), received |-> FALSE]
\* UploadTrackerCacheAsync once no upload runs: the cache leaves the map, its
\* index stays in use.
StartUpload(h, i) ==
    /\ trackers_cache' = [trackers_cache EXCEPT ![h] = @ \ {i}]
    /\ UNCHANGED tracker_cache_ids
    /\ upload' = [hash |-> h, index |-> i, sent |-> Loaded(files'[h][i]), received |-> FALSE]

PendingEvenEmpty == {c \in Hashes \X Indexes : c[2] \in trackers_cache[c[1]]}  \* mutant
\* CheckAndUploadTrackers: the cache that failed last if it has messages, else the
\* last one with messages in the order of the maps; that of the hashes is not
\* specified.
Pending == {c \in Hashes \X Indexes :
                c[2] \in trackers_cache[c[1]] /\ files[c[1]][c[2]].count > 0}
Chosen(c) ==
    /\ c \in Pending
    /\ \/ c = latest_upload_failed
       \/ /\ latest_upload_failed \notin Pending
          /\ \A d \in Pending : d[1] = c[1] => d[2] <= c[2]

\* A failure at once runs the callback in this thread, which holds the lock that
\* the callback takes.
CheckAndUpload ==
    /\ proc = "up"
    /\ lock = "free"
    /\ ~Uploading
    /\ \E c \in Hashes \X Indexes :
          /\ Chosen(c)
          /\ UNCHANGED files
          /\ StartUpload(c[1], c[2])
          /\ lock' = IF FailsAtOnce(c[1], c[2]) THEN "dead" ELSE "free"
    /\ UNCHANGED <<proc, latest_upload_failed, flush, history>>

Sent == {upload.sent[k] : k \in DOMAIN upload.sent}

\* The server receives the upload.
Receive ==
    /\ proc = "up"
    /\ Uploading /\ ~upload.received
    /\ ~FailsAtOnce(upload.hash, upload.index)
    /\ upload' = [upload EXCEPT !.received = TRUE]
    /\ delivered' = delivered \cup Sent
    /\ twice' = twice \cup (delivered \cap Sent)
    /\ UNCHANGED <<proc, lock, files, maps, latest_upload_failed, flush, flushed,
                   accepted, mishaps, crashes, failures>>

StaysOut == UNCHANGED trackers_cache                              \* mutant
BackInMap == trackers_cache' = [trackers_cache EXCEPT ![upload.hash] = @ \cup {upload.index}]

\* What Clear leaves of the uploaded file.
KeepsContent(c) == c                                              \* mutant
Cleared(c) == ZeroSize(ZeroCount(c))

ClearUploaded(f) ==
    files' = [files EXCEPT ![upload.hash][upload.index] = f]

\* The callback of a success.
UploadSucceeded ==
    /\ proc = "up"
    /\ lock = "free"
    /\ Uploading /\ upload.received
    /\ ClearUploaded(Cleared(files[upload.hash][upload.index]))
    /\ BackInMap
    /\ upload' = NoUpload
    /\ UNCHANGED <<proc, lock, tracker_cache_ids, latest_upload_failed, flush, history>>

\* The callback of a success when Clear throws: its Commit fails after the two
\* stores.  Destroy closes the file and deletes nothing, the index is free, and
\* the file is closed again when the cache is dropped, which is undefined.
ClearThrows ==
    /\ proc = "up"
    /\ lock = "free"
    /\ Uploading /\ upload.received
    /\ Fails
    /\ ClearUploaded(Cleared(files[upload.hash][upload.index]))
    /\ tracker_cache_ids' = [tracker_cache_ids EXCEPT ![upload.hash] = @ \ {upload.index}]
    /\ upload' = NoUpload
    /\ proc' \in {"up", "undefined"}
    /\ UNCHANGED <<lock, trackers_cache, latest_upload_failed, flush, flushed, accepted,
                   delivered, twice, mishaps, crashes>>

\* The callback of a failure, or of an answer that was lost.
UploadFailed ==
    /\ proc = "up"
    /\ lock = "free"
    /\ Uploading
    /\ BackInMap
    /\ latest_upload_failed' = <<upload.hash, upload.index>>
    /\ mishaps' = IF upload.received THEN mishaps \cup {"answer_lost"} ELSE mishaps
    /\ upload' = NoUpload
    /\ UNCHANGED <<proc, lock, files, tracker_cache_ids, flush, flushed, accepted,
                   delivered, twice, crashes, failures>>

-----------------------------------------------------------------------------
(* FlushTracker.                                                           *)

Flushing == proc = "up" /\ lock = "flush"
Hash == HashOf[message]

FlushUnmarked(m) ==                                               \* mutant
    /\ proc = "up"
    /\ lock = "free"
    /\ m \notin flushed
    /\ lock' = "flush"
    /\ message' = m
    /\ walk' = 0 /\ slot' = 0
    /\ UNCHANGED <<proc, files, maps, upload, latest_upload_failed, history>>
\* Up to the loop over the caches of the message's config.
FlushTracker(m) ==
    /\ proc = "up"
    /\ lock = "free"
    /\ m \notin flushed
    /\ lock' = "flush"
    /\ message' = m
    /\ walk' = 0 /\ slot' = 0
    /\ flushed' = flushed \cup {m}
    /\ UNCHANGED <<proc, files, maps, upload, latest_upload_failed, accepted, delivered,
                   twice, mishaps, crashes, failures>>

\* The index the loop is at: the first in the map that it has not passed.
At(i) == /\ i \in trackers_cache[Hash]
         /\ i >= walk
         /\ \A j \in trackers_cache[Hash] : j >= walk => i <= j

Full(i) == files[Hash][i].count >= GroupSize

\* A cache at its group size is passed; UploadTrackerCacheAsync returns at once.
PassFull ==
    /\ Flushing
    /\ Uploading
    /\ \E i \in Indexes : At(i) /\ Full(i) /\ walk' = i + 1
    /\ UNCHANGED <<proc, lock, files, maps, upload, latest_upload_failed, message, slot, history>>

\* A cache at its group size is uploaded, and so erased from the map that the loop
\* stands in: going on from there is undefined.
UploadFull ==
    /\ Flushing
    /\ ~Uploading
    /\ \E i \in Indexes :
          /\ At(i) /\ Full(i)
          /\ UNCHANGED files
          /\ StartUpload(Hash, i)
          /\ walk' = i + 1
          /\ lock' = IF FailsAtOnce(Hash, i) THEN "dead" ELSE lock
    /\ proc' \in {"up", "undefined"}
    /\ UNCHANGED <<latest_upload_failed, message, slot, history>>

\* FlushTracker returns.
Return == lock' = "free" /\ message' = NoMessage /\ walk' = 0 /\ slot' = 0

PutIn(i, f) == files' = [files EXCEPT ![Hash][i] = f]

\* Push answers true; a cache that reaches the upload count is uploaded.
PushTrue ==
    /\ Flushing
    /\ accepted' = accepted \cup {message}
    /\ \E i \in Indexes :
          /\ At(i) /\ ~Full(i)
          /\ PutIn(i, Pushed(files[Hash][i], message))
          /\ message' = NoMessage /\ walk' = 0 /\ slot' = 0
          /\ IF ~Uploading /\ files'[Hash][i].count >= UploadCount
             THEN /\ StartUpload(Hash, i)
                  /\ lock' = IF Hash \in Malformed THEN "dead" ELSE "free"
             ELSE lock' = "free" /\ UNCHANGED <<maps, upload>>
    /\ UNCHANGED <<proc, latest_upload_failed, flushed, delivered, twice, mishaps, crashes,
                   failures>>

\* Push answers false, for want of room or because the file cannot grow, ...
PushFalse ==
    /\ Flushing
    /\ Fails
    /\ \E i \in Indexes : At(i) /\ ~Full(i) /\ walk' = i + 1
    /\ UNCHANGED <<proc, lock, files, maps, upload, latest_upload_failed, message, slot, flushed,
                   accepted, delivered, twice, mishaps, crashes>>

\* ... or because Commit failed, with the record in place.
PushStoredFalse ==
    /\ Flushing
    /\ Fails
    /\ \E i \in Indexes :
          /\ At(i) /\ ~Full(i)
          /\ PutIn(i, Pushed(files[Hash][i], message))
          /\ walk' = i + 1
    /\ mishaps' = mishaps \cup {"stored_refused"}
    /\ UNCHANGED <<proc, lock, maps, upload, latest_upload_failed, message, slot, flushed,
                   accepted, delivered, twice, crashes>>

\* The loop over the caches is over; the one over the free indexes begins.
Walked == \A i \in trackers_cache[Hash] : i < walk
Free == {i \in Indexes \ tracker_cache_ids[Hash] : i >= slot}
\* No cache took the message and no index is free: FlushTracker answers false.
Refuse ==
    /\ Flushing
    /\ Walked
    /\ Free = {}
    /\ Return
    /\ UNCHANGED <<proc, files, maps, upload, latest_upload_failed, history>>

OpensEmpty(f) == EmptyCache                                       \* mutant
\* CreateCache at the first free index, then Push.  A file that is there and valid
\* keeps its content.
Opened(f) == IF f = NoFile THEN EmptyCache ELSE f
NextFree(i) == i \in Free /\ \A j \in Free : i <= j

Register(i) ==
    /\ tracker_cache_ids' = [tracker_cache_ids EXCEPT ![Hash] = @ \cup {i}]
    /\ trackers_cache' = [trackers_cache EXCEPT ![Hash] = @ \cup {i}]

CreateAndPush ==
    /\ Flushing
    /\ Walked
    /\ \E i \in Indexes :
          /\ NextFree(i)
          /\ Register(i)
          /\ PutIn(i, Pushed(Opened(files[Hash][i]), message))
    /\ accepted' = accepted \cup {message}
    /\ Return
    /\ UNCHANGED <<proc, upload, latest_upload_failed, flushed, delivered, twice, mishaps,
                   crashes, failures>>

\* The Push into the new cache answers false: so does FlushTracker.
CreateAndPushFalse ==
    /\ Flushing
    /\ Walked
    /\ Fails
    /\ \E i \in Indexes :
          /\ NextFree(i)
          /\ Register(i)
          /\ PutIn(i, Opened(files[Hash][i]))
    /\ Return
    /\ UNCHANGED <<proc, upload, latest_upload_failed, flushed, accepted, delivered, twice,
                   mishaps, crashes>>

\* Its Push stores the record and only its Commit fails: FlushTracker answers false.
CreateAndPushStoredFalse ==
    /\ Flushing
    /\ Walked
    /\ Fails
    /\ \E i \in Indexes :
          /\ NextFree(i)
          /\ Register(i)
          /\ PutIn(i, Pushed(Opened(files[Hash][i]), message))
    /\ mishaps' = mishaps \cup {"stored_refused"}
    /\ Return
    /\ UNCHANGED <<proc, upload, latest_upload_failed, flushed, accepted, delivered, twice,
                   crashes>>

\* CreateCache throws: the file is deleted, and the loop goes on.
CreateFails ==
    /\ Flushing
    /\ Walked
    /\ Fails
    /\ \E i \in Indexes :
          /\ NextFree(i)
          /\ slot' = i + 1
          /\ PutIn(i, NoFile)
          /\ mishaps' = IF files[Hash][i] = NoFile THEN mishaps ELSE mishaps \cup {"deleted"}
    /\ UNCHANGED <<proc, lock, maps, upload, latest_upload_failed, message, walk, flushed,
                   accepted, delivered, twice, crashes>>

-----------------------------------------------------------------------------
(* Ends of the process.                                                    *)

Down(mishap) ==
    /\ proc # "down"
    /\ crashes < MaxCrashes
    /\ crashes' = crashes + 1
    /\ mishaps' = mishaps \cup {mishap}
    /\ proc' = "down"
    /\ lock' = "free"
    /\ trackers_cache' = NoIndexes
    /\ tracker_cache_ids' = NoIndexes
    /\ upload' = NoUpload
    /\ latest_upload_failed' = NoCache
    /\ message' = NoMessage /\ walk' = 0 /\ slot' = 0
    /\ UNCHANGED <<flushed, accepted, delivered, twice, failures>>

Crash == Down("crash") /\ UNCHANGED files

\* Between the two stores of Push.
CrashInPush ==
    /\ Flushing
    /\ Down("push_cut")
    /\ \E i \in Indexes :
          \/ At(i) /\ ~Full(i) /\ PutIn(i, Counted(files[Hash][i]))
          \/ Walked /\ NextFree(i) /\ PutIn(i, Counted(Opened(files[Hash][i])))

\* Between the two stores of Clear.
CrashInClear ==
    /\ proc = "up" /\ lock = "free"
    /\ Uploading /\ upload.received
    /\ Down("clear_cut")
    /\ ClearUploaded(ZeroCount(files[upload.hash][upload.index]))

-----------------------------------------------------------------------------

Answer == UploadSucceeded \/ ClearThrows \/ UploadFailed

FlushStep == PassFull \/ UploadFull \/ PushTrue \/ PushFalse \/ PushStoredFalse
             \/ Refuse \/ CreateAndPush \/ CreateAndPushFalse \/ CreateAndPushStoredFalse
             \/ CreateFails

Start == \E unread \in SUBSET Existing : Launch(unread)

Next ==
    \/ Start
    \/ \E m \in Messages : FlushTracker(m)
    \/ FlushStep
    \/ CheckAndUpload
    \/ Receive
    \/ Answer
    \/ Crash \/ CrashInPush \/ CrashInClear

Spec == Init /\ [][Next]_vars

\* The application launches again after a crash, every thread is scheduled, the
\* timer repeats the check for ever, a request ends, and of the uploads of one
\* cache that are started for ever one is received and its answer arrives.
Fairness ==
    /\ WF_vars(Start)
    /\ WF_vars(FlushStep)
    /\ WF_vars(CheckAndUpload)
    /\ WF_vars(Answer)
    /\ \A c \in Hashes \X Indexes :
          /\ SF_vars(Receive /\ <<upload.hash, upload.index>> = c)
          /\ SF_vars(UploadSucceeded /\ <<upload.hash, upload.index>> = c)

FairSpec == Spec /\ Fairness

-----------------------------------------------------------------------------
(* Properties.                                                             *)

Happened(S) == mishaps \cap S # {}

\* A message FlushTracker answered true for is in a file that loads it until a
\* server has received it, through failed uploads, pushes during an upload, failed
\* file operations and ends of the process.  Two things lose one: a Clear cut
\* between its stores, and CreateCache deleting a file it could not open.
AcceptedIsKept ==
    \A m \in accepted \ delivered :
        \/ \E c \in Existing : \E k \in DOMAIN Loaded(files[c[1]][c[2]]) :
              Loaded(files[c[1]][c[2]])[k] = m
        \/ Happened({"clear_cut", "deleted"})

\* A server receives a message again only after an answer was lost, the process
\* ended, or Push stored a message and answered false.
TwiceOnlyAfterMishap ==
    twice # {} => Happened({"answer_lost", "crash", "push_cut", "clear_cut",
                            "stored_refused"})

\* No file is ever open in two caches: what is in the map or being uploaded is in
\* use, and what is being uploaded is not in the map.
OneCachePerFile ==
    proc = "up" =>
        /\ \A h \in Hashes : trackers_cache[h] \subseteq tracker_cache_ids[h]
        /\ Uploading => /\ upload.index \in tracker_cache_ids[upload.hash]
                        /\ upload.index \notin trackers_cache[upload.hash]

\* While an upload runs the file does not change, so that what its Clear removes
\* is what was sent.
ClearsWhatWasSent ==
    Uploading => Loaded(files[upload.hash][upload.index]) = upload.sent

\* A thread waits for the lock it holds only for a cache that counts a record it
\* cannot load, left by a push or a clear that was cut, or for a malformed endpoint.
DeadlockNeedsCutStore ==
    lock = "dead" => upload.hash \in Malformed \/ Happened({"push_cut", "clear_cut"})

\* Every accepted message is received in the end, unless the process came to an
\* undefined state, waits for itself, lost the message as AcceptedIsKept says, or
\* could not open a file at a launch: that file waits for the next one.
AcceptedIsDelivered ==
    \A m \in Messages :
        m \in accepted ~> \/ m \in delivered
                          \/ proc = "undefined" \/ lock = "dead"
                          \/ Happened({"clear_cut", "deleted", "unread"})
=============================================================================
