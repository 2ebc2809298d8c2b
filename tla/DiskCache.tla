------------------------------ MODULE DiskCache ------------------------------
(***************************************************************************)
(* The file in which the tracker keeps messages until they are uploaded    *)
(* (tracker/cache.cpp over base/file.cpp), in its mapped mode.  A header   *)
(* and the tracker's config are followed by records, a record header and   *)
(* the message each.                                                       *)
(*                                                                         *)
(* An operation is cut wherever it has changed the file, since the process *)
(* may end there; pc is where it stands.  file is the content the mapping  *)
(* and the file share, which outlives the process, and disk is the content *)
(* the last fsync wrote, which outlives the power.  Sizes and offsets are  *)
(* in units; body[o] is the unit at offset o of the record area, <<m, k>>  *)
(* when it holds unit k of the record of m.                                *)
(*                                                                         *)
(* tried, kept, loose, torn, remap_failed and ready are history: the       *)
(* messages given to Push; those for which it answered true since the last *)
(* Clear; whether an operation ended early since the last that came to its *)
(* end; whether a Clear was cut between its two stores, or the power       *)
(* failed during an operation or after a loose one; whether a Map in Push  *)
(* has failed; and whether the first Init came to its end.                 *)
(***************************************************************************)
EXTENDS CacheContent, FiniteSets

CONSTANTS
    Messages,         \* messages, each given to Push once
    Size,             \* GetSerializeSize() of each
    NoMessage,        \* unit of the file that was never written
    HeaderSize,       \* sizeof(CacheHeader)
    ConfigSize,       \* ByteSizeLong() of the config
    RecordHeader,     \* sizeof(RecordHeader)
    Capability,       \* cache_capability, the step by which the file grows
    MaxCache,         \* max_cache_size
    Garbage,          \* length read where no record header is
    PowerFails,       \* whether the power may fail
    MapFails,         \* whether mmap may fail in Push
    MaxEnds           \* bound: ends of the process or of the power

ASSUME DiskAssumption ==
    /\ Size \in [Messages -> Nat \ {0}]
    /\ NoMessage \notin Messages
    /\ HeaderSize \in Nat \ {0} /\ ConfigSize \in Nat \ {0}
    /\ RecordHeader \in Nat \ {0} /\ Garbage \in Nat
    /\ Capability \in Nat /\ HeaderSize + ConfigSize <= Capability
    /\ MaxCache \in Nat /\ Capability <= MaxCache
    /\ PowerFails \in BOOLEAN /\ MapFails \in BOOLEAN
    /\ MaxEnds \in Nat

VARIABLES file, disk, pc, mapped, has_config, message,
          tried, kept, loose, torn, remap_failed, ready, ends

history == <<tried, kept, loose, torn, remap_failed, ready, ends>>
vars == <<file, disk, pc, mapped, has_config, message, history>>

Offsets == 0..(MaxCache - HeaderSize - ConfigSize - 1)

\* magic stands for magic and ver_code, hashed for config_hash = hash, config
\* for the bytes of the config being there.
Content == [size: Nat, magic: BOOLEAN, hashed: BOOLEAN, config_size: {0, ConfigSize},
            record_count: Nat, record_size: 0..(MaxCache - HeaderSize - ConfigSize),
            config: BOOLEAN,
            body: [Offsets -> (Messages \cup {NoMessage}) \X Nat]]

Zero == <<NoMessage, 0>>
NoFile == [size |-> 0, magic |-> FALSE, hashed |-> FALSE, config_size |-> 0,
           record_count |-> 0, record_size |-> 0, config |-> FALSE,
           body |-> [o \in Offsets |-> Zero]]

Resetting == {"reset_magic", "reset_count", "reset_size", "reset_commit", "shrink",
              "save_config", "save_size", "save_hash", "save_commit"}
Pushing == {"push_grow", "push_map", "push_write", "push_count", "push_size",
            "push_commit"}

TypeOK ==
    /\ file \in Content
    /\ disk \in Content
    /\ pc \in Resetting \cup Pushing \cup {"closed", "load_config", "idle", "fault"}
    /\ mapped \in Nat
    /\ has_config \in BOOLEAN
    /\ message \in Messages \cup {NoMessage}
    /\ tried \subseteq Messages
    /\ kept \subseteq tried
    /\ loose \in BOOLEAN
    /\ torn \in {"no", "clear", "power"}
    /\ remap_failed \in BOOLEAN
    /\ ready \in BOOLEAN
    /\ ends \in Nat

Init ==
    /\ file = NoFile
    /\ disk = NoFile
    /\ pc = "closed"
    /\ mapped = 0
    /\ has_config = FALSE
    /\ message = NoMessage
    /\ tried = {}
    /\ kept = {}
    /\ loose = FALSE
    /\ torn = "no"
    /\ remap_failed = FALSE
    /\ ready = FALSE
    /\ ends = 0

-----------------------------------------------------------------------------
(* Reading the file.                                                       *)

\* sizeof(CacheHeader) + config_size + record_size
Used(f) == HeaderSize + f.config_size + f.record_size

CheckValid(f) == f.magic /\ f.hashed /\ Used(f) <= f.size

RecordUnits(m) == RecordHeader + Size[m]

\* record_header->length at offset o.
ReadLength(f, o) ==
    LET m == f.body[o][1]
    IN  CASE m = NoMessage -> 0
          [] m # NoMessage /\ f.body[o][2] = 0 -> Size[m]
          [] OTHER -> Garbage

\* The record header at o carries record_magic, and its hash is that of the bytes.
HashMatches(f, o) ==
    /\ f.body[o][1] # NoMessage
    /\ \A k \in 0..(RecordUnits(f.body[o][1]) - 1) : f.body[o + k] = <<f.body[o][1], k>>

\* Where Load's loop goes from offset o: past the record there, unless the loop
\* ends or the record would leave the record area; then it stays, for good.
NextOffset(f, o) ==
    IF o >= f.record_size \/ o + RecordHeader + ReadLength(f, o) > f.record_size
    THEN o
    ELSE o + RecordHeader + ReadLength(f, o)

\* The offsets of the messages that n rounds of the loop return.
LoadRounds(f, n) ==
    LET from[i \in 0..n] ==
            [o \in 0..f.record_size |->
                IF i = 0 \/ NextOffset(f, o) = o THEN <<>>
                ELSE (IF HashMatches(f, o) THEN <<o>> ELSE <<>>)
                     \o from[i - 1][NextOffset(f, o)]]
    IN  from[n][0]

MessagesAt(f, offs) == [i \in DOMAIN offs |-> f.body[offs[i]][1]]

\* Load: the messages, record_count rounds at most.
LoadOffsets(f) == IF Used(f) > f.size THEN <<>> ELSE LoadRounds(f, f.record_count)
Load(f) == MessagesAt(f, LoadOffsets(f))

\* Every record of the record area, counted or not.
Records(f) == IF Used(f) > f.size THEN <<>> ELSE MessagesAt(f, LoadRounds(f, f.record_size))

-----------------------------------------------------------------------------
(* Init and Reset.                                                         *)

\* The step from one point of an operation to the next.
Step(from, to) == pc = from /\ pc' = to

NeedsInitWhenMinimal(f) == f.size <= Capability                   \* mutant
NeedsInit(f) == f.size < Capability

\* Init up to Reset or LoadConfig; with says whether a config was given.
Open(with) ==
    /\ pc = "closed"
    /\ file' = IF NeedsInit(file) THEN [file EXCEPT !.size = Capability] ELSE file
    /\ mapped' = file'.size
    /\ has_config' = with
    /\ remap_failed' = FALSE
    /\ pc' = CASE NeedsInit(file) \/ ~CheckValid(file') -> "reset_magic"
               [] ~NeedsInit(file) /\ CheckValid(file') /\ with -> "idle"
               [] OTHER -> "load_config"
    /\ UNCHANGED <<disk, message, tried, kept, loose, torn, ready, ends>>

\* LoadConfig: an ASSERT throws out of Init unless the bytes parse to the config.
LoadConfig ==
    /\ Step("load_config", IF file.config THEN "idle" ELSE "closed")
    /\ has_config' = file.config
    /\ UNCHANGED <<file, disk, mapped, message, history>>

ResetMagicOnly ==                                                 \* mutant
    /\ Step("reset_magic", "shrink")
    /\ file' = [file EXCEPT !.magic = TRUE]
    /\ UNCHANGED <<disk, mapped, has_config, message, history>>
ResetMagic ==
    /\ Step("reset_magic", "reset_count")
    /\ file' = [file EXCEPT !.magic = TRUE]
    /\ UNCHANGED <<disk, mapped, has_config, message, history>>

ResetCount ==
    /\ Step("reset_count", "reset_size")
    /\ file' = [file EXCEPT !.record_count = 0]
    /\ UNCHANGED <<disk, mapped, has_config, message, history>>

ResetSize ==
    /\ Step("reset_size", "reset_commit")
    /\ file' = [file EXCEPT !.record_size = 0]
    /\ torn' = IF torn = "clear" THEN "no" ELSE torn
    /\ UNCHANGED <<disk, mapped, has_config, message, tried, kept, loose, remap_failed,
                   ready, ends>>

ResetCommit ==
    /\ Step("reset_commit", "shrink")
    /\ disk' = file
    /\ UNCHANGED <<file, mapped, has_config, message, history>>

\* The content of f in a file of another size.
Resized(f, size) ==
    [f EXCEPT !.size = size,
              !.body = [o \in Offsets |->
                           IF HeaderSize + ConfigSize + o < size THEN f.body[o] ELSE Zero]]

\* Back to cache_capability, unmapped for the time of it.
Shrink ==
    /\ Step("shrink", "save_config")
    /\ file' = IF file.size > Capability THEN Resized(file, Capability) ELSE file
    /\ mapped' = IF file.size > Capability THEN Capability ELSE mapped
    /\ UNCHANGED <<disk, has_config, message, history>>

\* SaveConfig throws out of Init when there is no config to save.
SaveConfig ==
    /\ Step("save_config", IF has_config THEN "save_size" ELSE "closed")
    /\ file' = IF has_config THEN [file EXCEPT !.config = TRUE] ELSE file
    /\ UNCHANGED <<disk, mapped, has_config, message, history>>

SaveSize ==
    /\ Step("save_size", "save_hash")
    /\ file' = [file EXCEPT !.config_size = ConfigSize]
    /\ UNCHANGED <<disk, mapped, has_config, message, history>>

SaveHash ==
    /\ Step("save_hash", "save_commit")
    /\ file' = [file EXCEPT !.hashed = TRUE]
    /\ UNCHANGED <<disk, mapped, has_config, message, history>>

SaveCommit ==
    /\ Step("save_commit", "idle")
    /\ disk' = file
    /\ ready' = TRUE
    /\ kept' = {}
    /\ loose' = FALSE
    /\ torn' = "no"
    /\ UNCHANGED <<file, mapped, has_config, message, tried, remap_failed, ends>>

-----------------------------------------------------------------------------
(* Push and Clear.                                                         *)

ForgetsHeader(f, m) == Used(f) + Size[m]                          \* mutant
NextSize(f, m) == Used(f) + RecordHeader + Size[m]

\* Push refuses a message for which the cache has no room.
PushRefused(m) ==
    /\ pc = "idle"
    /\ m \notin tried
    /\ NextSize(file, m) > MaxCache
    /\ tried' = tried \cup {m}
    /\ UNCHANGED <<file, disk, pc, mapped, has_config, message, kept, loose, torn,
                   remap_failed, ready, ends>>

\* Push up to the growth of the file.
Push(m) ==
    /\ Step("idle", IF NextSize(file, m) > file.size THEN "push_grow" ELSE "push_write")
    /\ m \notin tried
    /\ NextSize(file, m) <= MaxCache
    /\ tried' = tried \cup {m}
    /\ message' = m
    /\ UNCHANGED <<file, disk, mapped, has_config, kept, loose, torn, remap_failed, ready,
                   ends>>

\* One step of cache_capability, however large the message.
PushGrow ==
    /\ Step("push_grow", "push_map")
    /\ file' = [file EXCEPT !.size = @ + Capability]
    /\ UNCHANGED <<disk, mapped, has_config, message, history>>

\* Resize fails: Push answers false, with nothing changed.
PushResizeFails ==
    /\ Step("push_grow", "idle")
    /\ UNCHANGED <<file, disk, mapped, has_config, message, history>>

PushMap ==
    /\ Step("push_map", "push_write")
    /\ mapped' = file.size
    /\ UNCHANGED <<file, disk, has_config, message, history>>

\* Map or Unmap fails: Push answers false; the file has grown, the mapping has not.
PushMapFails ==
    /\ MapFails
    /\ Step("push_map", "idle")
    /\ remap_failed' = TRUE
    /\ loose' = TRUE
    /\ UNCHANGED <<file, disk, mapped, has_config, message, tried, kept, torn, ready,
                   ends>>

\* The record at write_offset; a write past the mapping is undefined.
PushWrite ==
    /\ Step("push_write", IF Used(file) + RecordUnits(message) <= mapped
                            THEN "push_count" ELSE "fault")
    /\ file' = IF pc' = "fault" THEN file
               ELSE [file EXCEPT !.body = [o \in Offsets |->
                        IF o \in file.record_size..(file.record_size + RecordUnits(message) - 1)
                        THEN <<message, o - file.record_size>> ELSE file.body[o]]]
    /\ UNCHANGED <<disk, mapped, has_config, message, history>>

PushCount ==
    /\ Step("push_count", "push_size")
    /\ file' = [file EXCEPT !.record_count = @ + 1]
    /\ UNCHANGED <<disk, mapped, has_config, message, history>>

PushSizeOnly ==                                                   \* mutant
    /\ Step("push_size", "push_commit")
    /\ file' = [file EXCEPT !.record_size = @ + Size[message]]
    /\ UNCHANGED <<disk, mapped, has_config, message, history>>
PushSize ==
    /\ Step("push_size", "push_commit")
    /\ file' = [file EXCEPT !.record_size = @ + RecordUnits(message)]
    /\ UNCHANGED <<disk, mapped, has_config, message, history>>

PushUncommitted ==                                                \* mutant
    /\ Step("push_commit", "idle")
    /\ kept' = kept \cup {message}
    /\ loose' = FALSE
    /\ UNCHANGED <<file, disk, mapped, has_config, message, tried, torn, remap_failed,
                   ready, ends>>
\* Commit succeeds and Push answers true.
PushCommit ==
    /\ Step("push_commit", "idle")
    /\ disk' = file
    /\ kept' = kept \cup {message}
    /\ loose' = FALSE
    /\ UNCHANGED <<file, mapped, has_config, message, tried, torn, remap_failed, ready,
                   ends>>

\* Commit fails and Push answers false, though the record is there.
PushCommitFails ==
    /\ Step("push_commit", "idle")
    /\ loose' = TRUE
    /\ UNCHANGED <<file, disk, mapped, has_config, message, tried, kept, torn,
                   remap_failed, ready, ends>>

\* Clear, after the messages were uploaded: Reset from its first store.
Clear ==
    /\ Step("idle", "reset_magic")
    /\ kept' = {}
    /\ UNCHANGED <<file, disk, mapped, has_config, message, tried, loose, torn,
                   remap_failed, ready, ends>>

-----------------------------------------------------------------------------
(* Ends.                                                                   *)

\* The process ends, or an ASSERT throws out of Init or Clear and the object is
\* dropped: the file stays as it is.
Kill ==
    /\ pc # "closed"
    /\ ends < MaxEnds
    /\ pc' = "closed"
    /\ ends' = ends + 1
    /\ loose' = (loose \/ pc \in Resetting \cup Pushing)
    /\ torn' = IF pc = "reset_size" /\ torn = "no" /\ file.record_size > 0 THEN "clear"
                                                                          ELSE torn
    /\ UNCHANGED <<file, disk, mapped, has_config, message, tried, kept, remap_failed,
                   ready>>

\* The power fails: of what was changed since the last fsync, the header, the
\* size, the config and each unit reached the disk or did not.
PowerLoss ==
    /\ PowerFails
    /\ ends < MaxEnds
    /\ ends' = ends + 1
    /\ pc' = "closed"
    /\ torn' = IF loose \/ pc \in Resetting \cup Pushing THEN "power" ELSE torn
    /\ \E header \in {file, disk}, size \in {file.size, disk.size},
          config \in {file.config, disk.config},
          new \in SUBSET {o \in Offsets : file.body[o] # disk.body[o]} :
            file' = Resized([header EXCEPT !.config = config,
                                !.body = [o \in Offsets |-> IF o \in new THEN file.body[o]
                                                                         ELSE disk.body[o]]],
                            size)
    /\ disk' = file'
    /\ UNCHANGED <<mapped, has_config, message, tried, kept, loose, remap_failed, ready>>

Reset == ResetMagic \/ ResetCount \/ ResetSize \/ ResetCommit \/ Shrink
         \/ SaveConfig \/ SaveSize \/ SaveHash \/ SaveCommit

PushStep == PushGrow \/ PushResizeFails \/ PushMap \/ PushMapFails \/ PushWrite
            \/ PushCount \/ PushSize \/ PushCommit \/ PushCommitFails

Next ==
    \/ \E with \in BOOLEAN : Open(with)
    \/ LoadConfig
    \/ Reset
    \/ \E m \in Messages : Push(m) \/ PushRefused(m)
    \/ PushStep
    \/ Clear
    \/ Kill
    \/ PowerLoss

Spec == Init /\ [][Next]_vars

-----------------------------------------------------------------------------
(* Properties.                                                             *)

MessagesOf(q) == {q[i] : i \in DOMAIN q}

\* Every message Push answered true for is loaded again, through any growing,
\* shrinking, reopening and end of the process, until Clear; only a Clear cut
\* between its two stores, or power that fails in mid-operation, hides one.
KeptIsLoaded == torn = "no" => kept \subseteq MessagesOf(Load(file))

\* Once initialised, the file is one that the next launch accepts, without the
\* config of the application, wherever the process ended.
Reopens == ready /\ torn # "power" => CheckValid(file) /\ file.config

\* Push writes past its mapping only after a Map has failed, or with a message
\* that is larger than the step by which the file grows.
InsideMapping ==
    pc = "fault" => remap_failed \/ RecordUnits(message) > Capability

\* The file as a record log: the content the layout stands for, and how far the operation
\* has come.
LogCache == [recs |-> Records(file), count |-> file.record_count]
LogStep == CASE pc \in {"closed", "fault"} -> "closed"
             [] pc = "push_size" -> "counted"
             [] pc = "reset_size" -> "zeroed"
             [] OTHER -> "idle"

Log == INSTANCE RecordLog WITH cache <- LogCache, step <- LogStep

\* As long as the power holds, the file behaves as the record log: Push and Clear
\* take effect at two stores each, nothing else touches a record, and Load returns
\* what the record log loads.
IsRecordLog ==
    /\ Log!Spec
    /\ [](Load(file) = Loaded(LogCache))
=============================================================================
