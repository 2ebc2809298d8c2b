-------------------------- MODULE DiskCache_proofs --------------------------
(***************************************************************************)
(* Theorems about DiskCache: the file of the tracker's cache keeps what    *)
(* Push answered true for, the next launch accepts it, a write leaves the  *)
(* mapping in two named cases only, and while the power holds the file is  *)
(* a RecordLog.                                                            *)
(*                                                                         *)
(* The invariant has one part per question.  HeaderInv, PushInv and MapInv *)
(* say where an operation stands and what it has stored so far.  GoodInv   *)
(* ties the header's hash to the rest: a hashed file that no power loss    *)
(* tore is valid, so that Open never resets it, and the disk has it too    *)
(* once an operation came to its end; a file without the hash holds no     *)
(* record.  LaidInv says that the record area is one row of whole records, *)
(* none cut, and that the header counts them.                              *)
(*                                                                         *)
(* What the loop of Load returns is a recursive function of the rounds; it *)
(* is shown to exist, and to return the row, by induction on the rounds    *)
(* (Induct, from the least counterexample).                                *)
(***************************************************************************)
EXTENDS DiskCache, SequenceTheorems, WellFoundedInduction, TLAPS

-----------------------------------------------------------------------------
(* The inductive invariant.                                                *)

\* After SaveConfig in a Reset.
Saved == {"save_size", "save_hash", "save_commit"}
\* After record_size = 0 in a Reset.
Emptied == {"reset_commit", "shrink", "save_config"} \cup Saved

\* Where each operation stands and what it has done so far.
HeaderInv ==
    /\ file.hashed => file.config_size = ConfigSize
    /\ disk.hashed => disk.config_size = ConfigSize
    /\ pc # "closed" => file.size >= Capability /\ mapped <= file.size
    /\ pc \in Resetting \ {"reset_magic"} => file.magic
    /\ pc \in Emptied => file.record_size = 0
    /\ pc \in Saved => file.config /\ has_config
    /\ pc \in {"save_hash", "save_commit"} => file.config_size = ConfigSize
    /\ pc = "save_commit" => file.hashed

PushInv ==
    /\ pc \in Pushing \cup {"idle", "load_config"} => CheckValid(file)
    /\ pc \in Pushing => message \in tried
    /\ pc \in Pushing \ {"push_commit"} => NextSize(file, message) <= MaxCache
    /\ pc \in {"push_count", "push_size"} =>
          /\ NextSize(file, message) <= file.size
          /\ \A k \in 0..(RecordUnits(message) - 1) :
                file.body[file.record_size + k] = <<message, k>>

\* The mapping is as large as the file unless a Map failed, and a growth is enough for
\* any message that is no larger than its step.
MapInv ==
    /\ pc \notin {"closed", "fault", "push_map"} /\ ~remap_failed => mapped = file.size
    /\ pc \in {"push_map", "push_write"} =>
          NextSize(file, message) <= file.size \/ RecordUnits(message) > Capability

\* The disk has all of the file but perhaps its last growth.
Synced ==
    /\ disk.magic = file.magic /\ disk.hashed = file.hashed
    /\ disk.config = file.config /\ disk.config_size = file.config_size
    /\ disk.record_count = file.record_count /\ disk.record_size = file.record_size
    /\ disk.body = file.body
    /\ Used(file) <= disk.size /\ Capability <= disk.size

\* As long as no power loss tore it, a file with its config's hash is a valid one, on the
\* disk too unless it was changed since; without the hash it is empty.
GoodInv ==
    torn # "power" =>
        /\ pc \in Resetting => kept = {}
        /\ ready => file.hashed
        /\ file.hashed =>
              /\ CheckValid(file) /\ file.config /\ file.size >= Capability
              /\ pc \in Resetting \cup Pushing \cup {"idle"} => has_config
              /\ ~loose /\ pc \notin Resetting \cup {"push_count", "push_size", "push_commit"}
                     => Synced
        /\ ~file.hashed => /\ file.record_size = 0 /\ disk.record_size = 0
                           /\ kept = {} /\ ~disk.hashed

\* The offsets of the messages that Load returns: of those its loop passes, the ones
\* where a whole record is.
Whole(f) == {o \in 0..f.record_size : NextOffset(f, o) # o /\ HashMatches(f, o)}

\* Where record i of r is, or the end of the record area after the last.
Place(f, r, i) == IF i <= Len(r) THEN r[i] ELSE f.record_size

\* r are the offsets of the records of f, one after the other.
Laid(f, r) ==
    /\ r \in Seq(Whole(f))
    /\ Place(f, r, 1) = 0
    /\ \A i \in 1..Len(r) : NextOffset(f, r[i]) = Place(f, r, i + 1)

\* The messages that must be in the file.
Owed == kept \cup IF pc = "push_commit" THEN {message} ELSE {}

\* The record area is a row of records, with all that is kept among them, and counted
\* unless a Clear was cut between its two stores.
RowOf(r) ==
    /\ Laid(file, r)
    /\ \A m \in Owed : \E i \in 1..Len(r) : file.body[r[i]][1] = m
    /\ torn = "no" /\ pc # "reset_size" =>
          Len(r) + (IF pc = "push_size" THEN 1 ELSE 0) <= file.record_count

LaidInv == torn # "power" => \E r : RowOf(r)

-----------------------------------------------------------------------------
(* Types.                                                                  *)

USE DiskAssumption

\* The largest record area.
Area == MaxCache - HeaderSize - ConfigSize

\* The constants that sizes are made of.
LEMMA Sizes ==
    /\ Area \in Nat /\ Offsets = 0..(Area - 1)
    /\ \A m \in Messages : RecordUnits(m) \in Nat \ {0}
BY DEF Area, Offsets, RecordUnits

\* The fields of a file.
LEMMA ContentOps ==
    ASSUME NEW f \in Content
    PROVE  /\ f.size \in Nat /\ f.magic \in BOOLEAN /\ f.hashed \in BOOLEAN
           /\ f.config_size \in Nat /\ f.config_size <= ConfigSize
           /\ f.record_count \in Nat /\ f.record_size \in 0..Area
           /\ f.config \in BOOLEAN
           /\ f.body \in [Offsets -> (Messages \cup {NoMessage}) \X Nat]
           /\ Used(f) \in Nat
BY DEF Content, Used, Area

\* A file of another size.
LEMMA ResizedOps ==
    ASSUME NEW f \in Content, NEW size \in Nat
    PROVE  /\ Resized(f, size) \in Content
           /\ Resized(f, size).size = size
           /\ Resized(f, size).magic = f.magic /\ Resized(f, size).hashed = f.hashed
           /\ Resized(f, size).config_size = f.config_size
           /\ Resized(f, size).record_count = f.record_count
           /\ Resized(f, size).record_size = f.record_size
           /\ Resized(f, size).config = f.config
           /\ \A o \in Offsets : Resized(f, size).body[o] =
                  IF HeaderSize + ConfigSize + o < size THEN f.body[o] ELSE Zero
<1> DEFINE b == [o \in Offsets |->
                    IF HeaderSize + ConfigSize + o < size THEN f.body[o] ELSE Zero]
<1>1. b \in [Offsets -> (Messages \cup {NoMessage}) \X Nat]
  BY DEF Content, Zero
<1>2. Resized(f, size) = [f EXCEPT !.size = size, !.body = b]
  BY DEF Resized
<1>3. \A o \in Offsets : b[o] = IF HeaderSize + ConfigSize + o < size THEN f.body[o] ELSE Zero
  OBVIOUS
<1> HIDE DEF b
<1> QED
  BY <1>1, <1>2, <1>3 DEF Content

\* No file and no message yet.
LEMMA TypeBegins == Init => TypeOK
<1>1. NoFile \in Content
  BY DEF NoFile, Content, Zero
<1> SUFFICES ASSUME Init PROVE TypeOK
  OBVIOUS
<1>2. file \in Content /\ disk \in Content /\ mapped \in Nat /\ ends \in Nat
  BY <1>1 DEF Init
<1>3. /\ pc \in Resetting \cup Pushing \cup {"closed", "load_config", "idle", "fault"}
      /\ has_config \in BOOLEAN /\ loose \in BOOLEAN /\ remap_failed \in BOOLEAN
      /\ ready \in BOOLEAN /\ torn \in {"no", "clear", "power"}
  BY DEF Init
<1>4. message \in Messages \cup {NoMessage} /\ tried \subseteq Messages /\ kept \subseteq tried
  BY DEF Init
<1> QED
  BY <1>2, <1>3, <1>4 DEF TypeOK

\* Reset keeps the types.
LEMMA ResetTypes == TypeOK /\ Reset => TypeOK'
<1> SUFFICES ASSUME TypeOK, Reset PROVE TypeOK'
  OBVIOUS
<1>1. file' \in Content /\ disk' \in Content
  <2>1. CASE Shrink
    BY <2>1, ResizedOps DEF Shrink, TypeOK
  <2>2. CASE ResetMagic
    BY <2>2 DEF ResetMagic, TypeOK, Content
  <2>3. CASE ResetCount
    <3>1. file \in Content /\ disk' = disk /\ file' = [file EXCEPT !.record_count = 0]
      BY <2>3 DEF ResetCount, TypeOK
    <3> QED
      BY <3>1 DEF TypeOK, Content
  <2>4. CASE ResetSize
    <3>1. 0 \in 0..(MaxCache - HeaderSize - ConfigSize)
      OBVIOUS
    <3>2. file' = [file EXCEPT !.record_size = 0] /\ disk' = disk
      BY <2>4 DEF ResetSize
    <3> DEFINE A == 0..(MaxCache - HeaderSize - ConfigSize)
    <3>3. 0 \in A
      BY <3>1
    <3>4. file \in [size: Nat, magic: BOOLEAN, hashed: BOOLEAN, config_size: {0, ConfigSize},
            record_count: Nat, record_size: A, config: BOOLEAN,
            body: [Offsets -> (Messages \cup {NoMessage}) \X Nat]]
      BY DEF TypeOK, Content
    <3> HIDE DEF A
    <3>5. file' \in [size: Nat, magic: BOOLEAN, hashed: BOOLEAN, config_size: {0, ConfigSize},
            record_count: Nat, record_size: A, config: BOOLEAN,
            body: [Offsets -> (Messages \cup {NoMessage}) \X Nat]]
      BY <3>2, <3>3, <3>4
    <3> QED
      BY <3>2, <3>5 DEF A, TypeOK, Content
  <2>5. CASE SaveConfig \/ SaveSize \/ SaveHash
    BY <2>5 DEF SaveConfig, SaveSize, SaveHash, TypeOK, Content
  <2>6. CASE ResetCommit \/ SaveCommit
    BY <2>6 DEF ResetCommit, SaveCommit, TypeOK
  <2> QED
    BY <2>1, <2>2, <2>3, <2>4, <2>5, <2>6 DEF Reset
<1>2. pc' \in Resetting \cup Pushing \cup {"closed", "load_config", "idle", "fault"}
  BY DEF Reset, ResetMagic, ResetCount, ResetSize, ResetCommit, Shrink, SaveConfig,
         SaveSize, SaveHash, SaveCommit, Step, Resetting
<1>3. UNCHANGED <<has_config, message, tried, remap_failed, ends>> /\ mapped' \in Nat
  BY DEF Reset, ResetMagic, ResetCount, ResetSize, ResetCommit, Shrink, SaveConfig,
         SaveSize, SaveHash, SaveCommit, TypeOK, history
<1>4. /\ kept' \subseteq tried /\ loose' \in BOOLEAN /\ torn' \in {"no", "clear", "power"}
      /\ ready' \in BOOLEAN
  BY DEF Reset, ResetMagic, ResetCount, ResetSize, ResetCommit, Shrink, SaveConfig,
         SaveSize, SaveHash, SaveCommit, TypeOK, history
<1> QED
  BY <1>1, <1>2, <1>3, <1>4 DEF TypeOK

\* Push keeps the types: the record area ends where MaxCache does at the latest.
LEMMA PushTypes == TypeOK /\ HeaderInv /\ PushInv /\ PushStep => TypeOK'
<1> SUFFICES ASSUME TypeOK, HeaderInv, PushInv, PushStep PROVE TypeOK'
  OBVIOUS
<1>0. pc \in Pushing
  BY DEF PushStep, PushGrow, PushResizeFails, PushMap, PushMapFails, PushWrite, PushCount,
         PushSize, PushCommit, PushCommitFails, Step, Pushing
<1>1. message \in tried /\ message \in Messages /\ file \in Content
  BY <1>0 DEF PushInv, TypeOK
<1>2. disk' \in Content /\ (PushWrite \/ PushSize \/ file' \in Content)
  BY DEF PushStep, PushGrow, PushResizeFails, PushMap, PushMapFails, PushCount,
         PushCommit, PushCommitFails, PushWrite, PushSize, TypeOK, Content
<1>3. PushWrite => file' \in Content
  <2> SUFFICES ASSUME PushWrite PROVE file' \in Content
    OBVIOUS
  <2> DEFINE b == [o \in Offsets |->
                      IF o \in file.record_size..(file.record_size + RecordUnits(message) - 1)
                      THEN <<message, o - file.record_size>> ELSE file.body[o]]
  <2>1. file' = file \/ file' = [file EXCEPT !.body = b]
    BY DEF PushWrite
  <2>2. b \in [Offsets -> (Messages \cup {NoMessage}) \X Nat]
    <3> SUFFICES ASSUME NEW o \in Offsets PROVE b[o] \in (Messages \cup {NoMessage}) \X Nat
      OBVIOUS
    <3>1. /\ file.record_size \in Nat /\ o \in Nat
          /\ file.body[o] \in (Messages \cup {NoMessage}) \X Nat
      BY <1>1, ContentOps DEF Offsets
    <3> QED
      BY <1>1, <3>1
  <2> HIDE DEF b
  <2> QED
    BY <1>1, <2>1, <2>2 DEF Content
<1>4. PushSize => file' \in Content
  <2> SUFFICES ASSUME PushSize PROVE file' \in Content
    OBVIOUS
  <2>1. pc = "push_size" /\ file' = [file EXCEPT !.record_size = @ + RecordUnits(message)]
    BY DEF PushSize, Step
  <2>2. file.hashed /\ file.config_size = ConfigSize /\ NextSize(file, message) <= MaxCache
    BY <2>1 DEF PushInv, HeaderInv, CheckValid, Pushing
  <2>3. file.record_size + RecordUnits(message) \in 0..(MaxCache - HeaderSize - ConfigSize)
    <3>1. file.record_size \in Nat /\ Size[message] \in Nat
      BY <1>1, ContentOps
    <3>2. NextSize(file, message)
             = HeaderSize + ConfigSize + file.record_size + RecordHeader + Size[message]
      BY <2>2 DEF NextSize, Used
    <3>3. RecordUnits(message) = RecordHeader + Size[message]
      BY DEF RecordUnits
    <3> QED
      BY <2>2, <3>1, <3>2, <3>3
  <2> QED
    BY <1>1, <2>1, <2>3 DEF Content
<1>5. /\ pc' \in Resetting \cup Pushing \cup {"closed", "load_config", "idle", "fault"}
      /\ mapped' \in Nat
  BY <1>1, ContentOps DEF PushStep, PushGrow, PushResizeFails, PushMap, PushMapFails,
         PushWrite, PushCount, PushSize, PushCommit, PushCommitFails, Step, Pushing, TypeOK
<1>6. /\ UNCHANGED <<has_config, message, tried, torn, ready, ends>>
      /\ kept' \subseteq tried /\ loose' \in BOOLEAN /\ remap_failed' \in BOOLEAN
  BY <1>1 DEF PushStep, PushGrow, PushResizeFails, PushMap, PushMapFails, PushWrite, PushCount,
         PushSize, PushCommit, PushCommitFails, TypeOK, history
<1> QED
  BY <1>1, <1>2, <1>3, <1>4, <1>5, <1>6 DEF TypeOK

\* What a power loss leaves, of the header and of every unit.
LEMMA TornOps ==
    ASSUME TypeOK, PowerLoss
    PROVE  \E header \in {file, disk}, size \in {file.size, disk.size},
              config \in {file.config, disk.config},
              b \in [Offsets -> (Messages \cup {NoMessage}) \X Nat] :
                 /\ \A o \in Offsets : b[o] = file.body[o] \/ b[o] = disk.body[o]
                 /\ file' = Resized([header EXCEPT !.config = config, !.body = b], size)
<1>1. PICK header \in {file, disk}, size \in {file.size, disk.size},
           config \in {file.config, disk.config},
           new \in SUBSET {o \in Offsets : file.body[o] # disk.body[o]} :
         file' = Resized([header EXCEPT !.config = config,
                             !.body = [o \in Offsets |-> IF o \in new THEN file.body[o]
                                                                      ELSE disk.body[o]]],
                         size)
  BY DEF PowerLoss
<1> DEFINE b == [o \in Offsets |-> IF o \in new THEN file.body[o] ELSE disk.body[o]]
<1>2. b \in [Offsets -> (Messages \cup {NoMessage}) \X Nat]
  BY DEF TypeOK, Content
<1>3. \A o \in Offsets : b[o] = file.body[o] \/ b[o] = disk.body[o]
  OBVIOUS
<1>4. file' = Resized([header EXCEPT !.config = config, !.body = b], size)
  BY <1>1
<1> HIDE DEF b
<1> QED
  BY <1>2, <1>3, <1>4

\* A content with another config and other units.
LEMMA MixedOps ==
    ASSUME NEW header \in Content, NEW config \in BOOLEAN,
           NEW b \in [Offsets -> (Messages \cup {NoMessage}) \X Nat],
           NEW f, f = [header EXCEPT !.config = config, !.body = b]
    PROVE  /\ f \in Content /\ f.body = b /\ f.config = config
           /\ f.magic = header.magic /\ f.hashed = header.hashed
           /\ f.config_size = header.config_size
           /\ f.record_count = header.record_count /\ f.record_size = header.record_size
BY DEF Content

\* The other operations of the process, and its end.
LEMMA OtherTypes ==
    ASSUME TypeOK,
           \/ \E with \in BOOLEAN : Open(with)
           \/ LoadConfig \/ Clear \/ Kill
           \/ \E m \in Messages : Push(m) \/ PushRefused(m)
    PROVE  TypeOK'
<1>1. file' \in Content /\ disk' \in Content /\ mapped' \in Nat
  BY ContentOps DEF Open, LoadConfig, Clear, Kill, Push, PushRefused, TypeOK, Content
<1>2. /\ pc' \in Resetting \cup Pushing \cup {"closed", "load_config", "idle", "fault"}
      /\ has_config' \in BOOLEAN
  BY ContentOps DEF Open, LoadConfig, Clear, Kill, Push, PushRefused, TypeOK, Step,
         Resetting, Pushing
<1>3. /\ message' \in Messages \cup {NoMessage} /\ tried' \subseteq Messages
      /\ kept' \subseteq tried' /\ ends' \in Nat
  BY DEF Open, LoadConfig, Clear, Kill, Push, PushRefused, TypeOK, history
<1>4. /\ loose' \in BOOLEAN /\ torn' \in {"no", "clear", "power"}
      /\ remap_failed' \in BOOLEAN /\ ready' \in BOOLEAN
  BY DEF Open, LoadConfig, Clear, Kill, Push, PushRefused, TypeOK, history
<1> QED
  BY <1>1, <1>2, <1>3, <1>4 DEF TypeOK

\* What a power loss leaves is a file.
LEMMA PowerTypes == TypeOK /\ PowerLoss => TypeOK'
<1> SUFFICES ASSUME TypeOK, PowerLoss PROVE TypeOK'
  OBVIOUS
<1>1. PICK header \in {file, disk}, size \in {file.size, disk.size},
           config \in {file.config, disk.config},
           b \in [Offsets -> (Messages \cup {NoMessage}) \X Nat] :
         file' = Resized([header EXCEPT !.config = config, !.body = b], size)
  BY TornOps
<1>2. PICK f : f = [header EXCEPT !.config = config, !.body = b]
  OBVIOUS
<1>3. header \in Content /\ size \in Nat /\ config \in BOOLEAN
  BY DEF TypeOK, Content
<1>4. f \in Content
  BY <1>2, <1>3, MixedOps
<1>5. file' \in Content
  BY <1>1, <1>2, <1>3, <1>4, ResizedOps
<1> QED
  BY <1>5 DEF PowerLoss, TypeOK

\* Every step keeps the types.
LEMMA TypeNext == TypeOK /\ HeaderInv /\ PushInv /\ [Next]_vars => TypeOK'
<1>1. TypeOK /\ UNCHANGED vars => TypeOK'
  BY DEF vars, history, TypeOK
<1> QED
  BY <1>1, ResetTypes, PushTypes, OtherTypes, PowerTypes DEF Next

-----------------------------------------------------------------------------
(* Where the operations stand.                                             *)

\* The stores of an operation, field by field.
LEMMA ResetStores ==
    ASSUME TypeOK, Reset
    PROVE  /\ file'.magic = (pc = "reset_magic" \/ file.magic)
           /\ file'.record_count = IF pc = "reset_count" THEN 0 ELSE file.record_count
           /\ file'.record_size = IF pc = "reset_size" THEN 0 ELSE file.record_size
           /\ file'.config = ((pc = "save_config" /\ has_config) \/ file.config)
           /\ file'.config_size = IF pc = "save_size" THEN ConfigSize ELSE file.config_size
           /\ file'.hashed = (pc = "save_hash" \/ file.hashed)
           /\ file'.size = IF pc = "shrink" /\ file.size > Capability THEN Capability
                                                                     ELSE file.size
           /\ pc # "shrink" => file'.body = file.body
           /\ pc = "shrink" =>
                 \A o \in Offsets : file'.body[o] = file.body[o] \/ file'.body[o] = Zero
           /\ disk' = IF pc \in {"reset_commit", "save_commit"} THEN file ELSE disk
           /\ mapped' = IF pc = "shrink" /\ file.size > Capability THEN Capability
                                                                   ELSE mapped
           /\ UNCHANGED <<has_config, message, tried, remap_failed, ends>>
           /\ kept' = IF pc = "save_commit" THEN {} ELSE kept
           /\ loose' = (pc # "save_commit" /\ loose)
           /\ torn' = CASE pc = "save_commit" -> "no"
                        [] pc = "reset_size" /\ torn = "clear" -> "no"
                        [] OTHER -> torn
           /\ ready' = (pc = "save_commit" \/ ready)
<1> USE DEF history
<1>0. file \in Content /\ ready \in BOOLEAN /\ loose \in BOOLEAN
  BY DEF TypeOK
<1>1. CASE Shrink
  <2>1. file.size > Capability \/ file' = file
    BY <1>1 DEF Shrink
  <2>2. CASE file.size > Capability
    <3>1. file' = Resized(file, Capability)
      BY <1>1, <2>2 DEF Shrink
    <3>2. /\ file'.size = Capability /\ file'.magic = file.magic /\ file'.hashed = file.hashed
          /\ file'.config_size = file.config_size /\ file'.config = file.config
          /\ file'.record_count = file.record_count /\ file'.record_size = file.record_size
          /\ \A o \in Offsets : file'.body[o] = file.body[o] \/ file'.body[o] = Zero
      BY <1>0, <3>1, ResizedOps
    <3>3. pc = "shrink" /\ mapped' = Capability
          /\ UNCHANGED <<disk, has_config, message, history>>
      BY <1>1, <2>2 DEF Shrink, Step
    <3> QED
      BY <1>0, <2>2, <3>2, <3>3, ContentOps
  <2> QED
    BY <1>0, <1>1, <2>1, <2>2, ContentOps DEF Shrink, Step
<1>2. CASE ResetMagic
  BY <1>0, <1>2, ContentOps DEF ResetMagic, Step, Content
<1>3. CASE ResetCount
  BY <1>0, <1>3, ContentOps DEF ResetCount, Step, Content
<1>4. CASE ResetSize
  BY <1>0, <1>4, ContentOps DEF ResetSize, Step, Content
<1>5. CASE ResetCommit
  BY <1>0, <1>5, ContentOps DEF ResetCommit, Step, Content
<1>6. CASE SaveConfig
  BY <1>0, <1>6, ContentOps DEF SaveConfig, Step, Content
<1>7. CASE SaveSize
  BY <1>0, <1>7, ContentOps DEF SaveSize, Step, Content
<1>8. CASE SaveHash
  BY <1>0, <1>8, ContentOps DEF SaveHash, Step, Content
<1>9. CASE SaveCommit
  BY <1>0, <1>9, ContentOps DEF SaveCommit, Step, Content
<1> QED
  BY <1>1, <1>2, <1>3, <1>4, <1>5, <1>6, <1>7, <1>8, <1>9 DEF Reset

\* The points of Reset, one after the other.
LEMMA ResetOrder ==
    ASSUME Reset
    PROVE  \/ pc = "reset_magic" /\ pc' = "reset_count"
           \/ pc = "reset_count" /\ pc' = "reset_size"
           \/ pc = "reset_size" /\ pc' = "reset_commit"
           \/ pc = "reset_commit" /\ pc' = "shrink"
           \/ pc = "shrink" /\ pc' = "save_config"
           \/ pc = "save_config" /\ pc' = IF has_config THEN "save_size" ELSE "closed"
           \/ pc = "save_size" /\ pc' = "save_hash"
           \/ pc = "save_hash" /\ pc' = "save_commit"
           \/ pc = "save_commit" /\ pc' = "idle"
BY DEF Reset, ResetMagic, ResetCount, ResetSize, ResetCommit, Shrink, SaveConfig,
       SaveSize, SaveHash, SaveCommit, Step

\* The record that PushWrite writes.
Written == [o \in Offsets |->
               IF o \in file.record_size..(file.record_size + RecordUnits(message) - 1)
               THEN <<message, o - file.record_size>> ELSE file.body[o]]

\* The points of Push.
LEMMA PushOrder ==
    ASSUME PushStep
    PROVE  \/ pc = "push_grow" /\ pc' = "push_map"
           \/ pc = "push_grow" /\ pc' = "idle"
           \/ pc = "push_map" /\ pc' = "push_write"
           \/ pc = "push_map" /\ pc' = "idle"
           \/ /\ pc = "push_write"
              /\ pc' = IF Used(file) + RecordUnits(message) <= mapped
                        THEN "push_count" ELSE "fault"
           \/ pc = "push_count" /\ pc' = "push_size"
           \/ pc = "push_size" /\ pc' = "push_commit"
           \/ pc = "push_commit" /\ pc' = "idle"
BY DEF PushStep, PushGrow, PushResizeFails, PushMap, PushMapFails, PushWrite, PushCount,
       PushSize, PushCommit, PushCommitFails, Step

\* What each step of Push stores, and what it leaves alone.
LEMMA PushStores ==
    ASSUME TypeOK, PushStep
    PROVE  /\ file'.magic = file.magic /\ file'.hashed = file.hashed
           /\ file'.config = file.config /\ file'.config_size = file.config_size
           /\ file'.size = IF pc' = "push_map" THEN file.size + Capability ELSE file.size
           /\ file'.record_count = IF pc' = "push_size" THEN file.record_count + 1
                                                       ELSE file.record_count
           /\ file'.record_size = IF pc' = "push_commit"
                                  THEN file.record_size + RecordUnits(message)
                                  ELSE file.record_size
           /\ file'.body = IF pc' = "push_count" THEN Written ELSE file.body
           /\ mapped' = IF pc' = "push_write" THEN file.size ELSE mapped
           /\ UNCHANGED <<has_config, message, tried, torn, ready, ends>>
           /\ \/ /\ pc = "push_commit"
                 /\ disk' = file /\ kept' = kept \cup {message} /\ loose' = FALSE
              \/ /\ UNCHANGED <<disk, kept>>
                 /\ loose' = IF pc' = "idle" /\ pc # "push_grow" THEN TRUE ELSE loose
           /\ remap_failed' = IF pc = "push_map" /\ pc' = "idle" THEN TRUE ELSE remap_failed
<1> USE DEF history, Step
<1>0. file \in Content /\ loose \in BOOLEAN /\ remap_failed \in BOOLEAN
  BY DEF TypeOK
<1>1. CASE PushGrow
  BY <1>0, <1>1, ContentOps DEF PushGrow, Content
<1>2. CASE PushResizeFails
  BY <1>0, <1>2, ContentOps DEF PushResizeFails, Content
<1>3. CASE PushMap
  BY <1>0, <1>3, ContentOps DEF PushMap, Content
<1>4. CASE PushMapFails
  BY <1>0, <1>4, ContentOps DEF PushMapFails, Content
<1>5. CASE PushWrite
  <2>1. file' = IF pc' = "fault" THEN file ELSE [file EXCEPT !.body = Written]
    BY <1>5 DEF PushWrite, Written
  <2>2. pc = "push_write" /\ pc' \in {"push_count", "fault"}
    BY <1>5 DEF PushWrite
  <2>3. UNCHANGED <<disk, mapped, has_config, message, history>>
    BY <1>5 DEF PushWrite
  <2> QED
    BY <1>0, <2>1, <2>2, <2>3, ContentOps DEF Content
<1>6. CASE PushCount
  BY <1>0, <1>6, ContentOps DEF PushCount, Content
<1>7. CASE PushSize
  BY <1>0, <1>7, ContentOps DEF PushSize, Content
<1>8. CASE PushCommit
  BY <1>0, <1>8, ContentOps DEF PushCommit, Content
<1>9. CASE PushCommitFails
  BY <1>0, <1>9, ContentOps DEF PushCommitFails, Content
<1> QED
  BY <1>1, <1>2, <1>3, <1>4, <1>5, <1>6, <1>7, <1>8, <1>9 DEF PushStep

\* What a power loss leaves: the header of the file or of the disk, and of every unit the
\* one or the other, but for those that a smaller size cuts off.
LEMMA PowerStores ==
    ASSUME TypeOK, PowerLoss
    PROVE  /\ \E h \in {file, disk} :
                 /\ file'.magic = h.magic /\ file'.hashed = h.hashed
                 /\ file'.config_size = h.config_size
                 /\ file'.record_count = h.record_count /\ file'.record_size = h.record_size
           /\ file'.size \in {file.size, disk.size}
           /\ file'.config \in {file.config, disk.config}
           /\ \A o \in Offsets :
                 \/ file'.body[o] = IF HeaderSize + ConfigSize + o < file'.size
                                    THEN file.body[o] ELSE Zero
                 \/ file'.body[o] = IF HeaderSize + ConfigSize + o < file'.size
                                    THEN disk.body[o] ELSE Zero
           /\ disk' = file' /\ pc' = "closed"
           /\ torn' = IF loose \/ pc \in Resetting \cup Pushing THEN "power" ELSE torn
           /\ UNCHANGED <<mapped, has_config, message, tried, kept, loose, remap_failed, ready>>
<1>1. PICK header \in {file, disk}, size \in {file.size, disk.size},
           config \in {file.config, disk.config},
           b \in [Offsets -> (Messages \cup {NoMessage}) \X Nat] :
         /\ \A o \in Offsets : b[o] = file.body[o] \/ b[o] = disk.body[o]
         /\ file' = Resized([header EXCEPT !.config = config, !.body = b], size)
  BY TornOps
<1>2. PICK f : f = [header EXCEPT !.config = config, !.body = b]
  OBVIOUS
<1>3. header \in Content /\ size \in Nat /\ config \in BOOLEAN
  BY DEF TypeOK, Content
<1>4. /\ f \in Content /\ f.body = b /\ f.config = config
      /\ f.magic = header.magic /\ f.hashed = header.hashed
      /\ f.config_size = header.config_size
      /\ f.record_count = header.record_count /\ f.record_size = header.record_size
  BY <1>2, <1>3 DEF Content
<1>5. /\ file'.size = size /\ file'.magic = f.magic /\ file'.hashed = f.hashed
      /\ file'.config_size = f.config_size /\ file'.config = f.config
      /\ file'.record_count = f.record_count /\ file'.record_size = f.record_size
      /\ \A o \in Offsets : file'.body[o] = IF HeaderSize + ConfigSize + o < size
                                            THEN f.body[o] ELSE Zero
  <2>1. file' = Resized(f, size)
    BY <1>1, <1>2
  <2> QED
    BY <1>3, <1>4, <2>1, ResizedOps
<1>6. \E h \in {file, disk} :
         /\ file'.magic = h.magic /\ file'.hashed = h.hashed
         /\ file'.config_size = h.config_size
         /\ file'.record_count = h.record_count /\ file'.record_size = h.record_size
  BY <1>4, <1>5
<1>7. file'.size \in {file.size, disk.size} /\ file'.config \in {file.config, disk.config}
  BY <1>4, <1>5
<1>8. \A o \in Offsets :
         \/ file'.body[o] = IF HeaderSize + ConfigSize + o < file'.size
                            THEN file.body[o] ELSE Zero
         \/ file'.body[o] = IF HeaderSize + ConfigSize + o < file'.size
                            THEN disk.body[o] ELSE Zero
  <2> TAKE o \in Offsets
  <2>1. CASE b[o] = file.body[o]
    BY <1>4, <1>5, <2>1
  <2>2. CASE b[o] = disk.body[o]
    BY <1>4, <1>5, <2>2
  <2> QED
    BY <1>1, <2>1, <2>2
<1>9. /\ disk' = file' /\ pc' = "closed"
      /\ torn' = IF loose \/ pc \in Resetting \cup Pushing THEN "power" ELSE torn
      /\ UNCHANGED <<mapped, has_config, message, tried, kept, loose, remap_failed, ready>>
  BY DEF PowerLoss
<1> QED
  BY <1>6, <1>7, <1>8, <1>9

\* Open makes a file of the least size of one that is too small.
LEMMA OpenStores ==
    ASSUME TypeOK, NEW with \in BOOLEAN, Open(with)
    PROVE  /\ file'.magic = file.magic /\ file'.hashed = file.hashed
           /\ file'.config_size = file.config_size /\ file'.config = file.config
           /\ file'.record_count = file.record_count /\ file'.record_size = file.record_size
           /\ file'.size = IF file.size < Capability THEN Capability ELSE file.size
           /\ file'.body = file.body
           /\ mapped' = file'.size
           /\ pc = "closed" /\ pc' \in {"reset_magic", "idle", "load_config"}
           /\ pc' \in {"idle", "load_config"} <=> (file.size >= Capability /\ CheckValid(file'))
           /\ file.size >= Capability => file' = file
           /\ pc' = "idle" => has_config'
           /\ ~remap_failed'
           /\ UNCHANGED <<disk, message, tried, kept, loose, torn, ready, ends>>
<1>0. file \in Content
  BY DEF TypeOK
<1> QED
  BY <1>0, ContentOps DEF Open, NeedsInit, Content

\* A closed file satisfies the invariant of the header ...
LEMMA HeaderBegins == Init => HeaderInv
BY DEF Init, NoFile, HeaderInv, Resetting, Emptied, Saved

\* ... and every step keeps it.
LEMMA HeaderNext == TypeOK /\ HeaderInv /\ [Next]_vars => HeaderInv'
<1> SUFFICES ASSUME TypeOK, HeaderInv, [Next]_vars PROVE HeaderInv'
  OBVIOUS
<1>0. file \in Content /\ disk \in Content /\ mapped \in Nat
  BY DEF TypeOK
<1>1. CASE UNCHANGED vars
  BY <1>1 DEF vars, history, HeaderInv
<1>2. ASSUME NEW with \in BOOLEAN, Open(with) PROVE HeaderInv'
  BY <1>0, <1>2, OpenStores, ContentOps DEF HeaderInv, Resetting, Emptied, Saved
<1>3. CASE LoadConfig
  BY <1>3 DEF LoadConfig, Step, HeaderInv, Resetting, Emptied, Saved
<1>4. CASE Reset
  <2>1. file'.hashed => file'.config_size = ConfigSize
    BY <1>4, ResetStores, ResetOrder DEF HeaderInv
  <2>2. disk'.hashed => disk'.config_size = ConfigSize
    BY <1>4, ResetStores DEF HeaderInv
  <2>3. pc' # "closed" => file'.size >= Capability /\ mapped' <= file'.size
    BY <1>0, <1>4, ResetStores, ResetOrder, ContentOps DEF HeaderInv
  <2>4. pc' \in Resetting \ {"reset_magic"} => file'.magic
    BY <1>4, ResetStores, ResetOrder DEF HeaderInv, Resetting
  <2>5. pc' \in Emptied => file'.record_size = 0
    BY <1>4, ResetStores, ResetOrder DEF HeaderInv, Emptied, Saved
  <2>6. pc' \in Saved => file'.config /\ has_config'
    BY <1>4, ResetStores, ResetOrder DEF HeaderInv, Saved
  <2>7. pc' \in {"save_hash", "save_commit"} => file'.config_size = ConfigSize
    BY <1>4, ResetStores, ResetOrder DEF HeaderInv
  <2>8. pc' = "save_commit" => file'.hashed
    BY <1>4, ResetStores, ResetOrder DEF HeaderInv
  <2> QED
    BY <2>1, <2>2, <2>3, <2>4, <2>5, <2>6, <2>7, <2>8 DEF HeaderInv
<1>5. ASSUME NEW m \in Messages, Push(m) \/ PushRefused(m) PROVE HeaderInv'
  BY <1>5 DEF Push, PushRefused, Step, HeaderInv, Resetting, Emptied, Saved
<1>6. CASE PushStep
  <2>1. pc' \notin Resetting /\ pc' \notin Emptied /\ pc' \notin Saved /\ pc # "closed"
    BY <1>6, PushOrder DEF Resetting, Emptied, Saved
  <2>2. file'.hashed => file'.config_size = ConfigSize
    BY <1>6, PushStores DEF HeaderInv
  <2>3. disk'.hashed => disk'.config_size = ConfigSize
    BY <1>6, PushStores DEF HeaderInv
  <2>4. file'.size >= Capability /\ mapped' <= file'.size
    BY <1>0, <1>6, <2>1, PushStores, ContentOps DEF HeaderInv
  <2> QED
    BY <2>1, <2>2, <2>3, <2>4 DEF HeaderInv, Resetting
<1>7. CASE Clear
  BY <1>7 DEF Clear, Step, HeaderInv, Resetting, Emptied, Saved
<1>8. CASE Kill
  BY <1>8 DEF Kill, HeaderInv, Resetting, Emptied, Saved
<1>9. CASE PowerLoss
  BY <1>9, PowerStores DEF HeaderInv, Resetting, Emptied, Saved
<1> QED
  BY <1>1, <1>2, <1>3, <1>4, <1>5, <1>6, <1>7, <1>8, <1>9 DEF Next

\* No Push is under way at first.
LEMMA PushBegins == Init => PushInv
BY DEF Init, PushInv, Pushing

\* Room for a message, in the file and in the record area.
LEMMA RoomOps ==
    ASSUME NEW f \in Content, NEW m \in Messages
    PROVE  /\ NextSize(f, m) = Used(f) + RecordUnits(m) /\ NextSize(f, m) \in Nat
           /\ f.config_size = ConfigSize /\ NextSize(f, m) <= MaxCache =>
                 f.record_size + RecordUnits(m) <= Area
<1>1. f.record_size \in Nat /\ f.config_size \in Nat /\ Size[m] \in Nat /\ Used(f) \in Nat
  BY ContentOps, Sizes
<1> QED
  BY <1>1 DEF NextSize, Used, RecordUnits, Area

\* The units of the record that was just written, and those of the others.
LEMMA WrittenOps ==
    ASSUME TypeOK, message \in Messages, file.record_size + RecordUnits(message) <= Area
    PROVE  /\ \A k \in 0..(RecordUnits(message) - 1) :
                 Written[file.record_size + k] = <<message, k>>
           /\ \A o \in 0..(file.record_size - 1) : Written[o] = file.body[o]
           /\ \A o \in Offsets : Written[o][1] \in {message, file.body[o][1]}
<1>1. /\ file.record_size \in Nat /\ RecordUnits(message) \in Nat /\ Offsets = 0..(Area - 1)
      /\ Area \in Nat /\ file.record_size <= Area
  BY ContentOps, Sizes DEF TypeOK
<1>2. \A o \in Offsets :
         Written[o] = IF o \in file.record_size..(file.record_size + RecordUnits(message) - 1)
                      THEN <<message, o - file.record_size>> ELSE file.body[o]
  BY DEF Written
<1>3. \A k \in 0..(RecordUnits(message) - 1) :
         Written[file.record_size + k] = <<message, k>>
  <2> TAKE k \in 0..(RecordUnits(message) - 1)
  <2>1. /\ file.record_size + k \in Offsets /\ (file.record_size + k) - file.record_size = k
        /\ file.record_size + k \in
              file.record_size..(file.record_size + RecordUnits(message) - 1)
    BY <1>1
  <2> QED
    BY <1>2, <2>1
<1>4. \A o \in 0..(file.record_size - 1) : Written[o] = file.body[o]
  <2> TAKE o \in 0..(file.record_size - 1)
  <2>1. /\ o \in Offsets
        /\ o \notin file.record_size..(file.record_size + RecordUnits(message) - 1)
    BY <1>1
  <2> QED
    BY <1>2, <2>1
<1>5. \A o \in Offsets : Written[o][1] \in {message, file.body[o][1]}
  <2> TAKE o \in Offsets
  <2>1. Written[o] = <<message, o - file.record_size>> \/ Written[o] = file.body[o]
    BY <1>2
  <2> QED
    BY <2>1
<1> QED
  BY <1>3, <1>4, <1>5

\* Push leaves the file valid at each of its steps.
LEMMA PushValid ==
    ASSUME TypeOK, HeaderInv, PushInv, PushStep
    PROVE  CheckValid(file) /\ CheckValid(file')
<1>1. file \in Content /\ pc \in Pushing
  BY PushOrder DEF TypeOK, Pushing
<1>2. message \in Messages /\ CheckValid(file) /\ file.config_size = ConfigSize
  BY <1>1 DEF PushInv, TypeOK, HeaderInv, CheckValid
<1>3. CASE pc = "push_size"
  <2>1. /\ file'.size = file.size /\ file'.config_size = file.config_size
        /\ file'.record_size = file.record_size + RecordUnits(message)
        /\ file'.magic = file.magic /\ file'.hashed = file.hashed
    BY <1>3, PushStores, PushOrder
  <2>2. NextSize(file, message) <= file.size
    BY <1>3 DEF PushInv
  <2>3. file.record_size \in Nat /\ RecordUnits(message) \in Nat
    BY <1>1, <1>2, ContentOps, Sizes
  <2>4. Used(file') = NextSize(file, message)
    BY <1>1, <1>2, <2>1, <2>3, RoomOps DEF Used
  <2> QED
    BY <1>2, <2>1, <2>2, <2>4 DEF CheckValid
<1>4. CASE pc # "push_size"
  <2>1. /\ file'.size = file.size \/ file'.size = file.size + Capability
        /\ file'.config_size = file.config_size /\ file'.record_size = file.record_size
        /\ file'.magic = file.magic /\ file'.hashed = file.hashed
    BY <1>4, PushStores, PushOrder
  <2> QED
    BY <1>1, <1>2, <2>1, ContentOps DEF CheckValid, Used
<1> QED
  BY <1>2, <1>3, <1>4

\* Every step keeps the invariant of Push.
LEMMA PushNext == TypeOK /\ HeaderInv /\ PushInv /\ [Next]_vars => PushInv'
<1> SUFFICES ASSUME TypeOK, HeaderInv, PushInv, [Next]_vars PROVE PushInv'
  OBVIOUS
<1>0. file \in Content /\ disk \in Content /\ mapped \in Nat
  BY DEF TypeOK
<1>1. CASE UNCHANGED vars
  BY <1>1 DEF vars, history, PushInv, CheckValid, Used, NextSize, RecordUnits
<1>2. ASSUME NEW with \in BOOLEAN, Open(with) PROVE PushInv'
  BY <1>2, OpenStores DEF PushInv, Pushing, CheckValid, Used
<1>3. CASE LoadConfig
  BY <1>3 DEF LoadConfig, Step, PushInv, Pushing, CheckValid, Used
<1>4. CASE Reset
  <2>1. pc' \notin Pushing /\ pc' # "load_config"
    BY <1>4, ResetOrder DEF Pushing
  <2>2. pc' = "idle" => CheckValid(file')
    <3> SUFFICES ASSUME pc' = "idle" PROVE CheckValid(file')
      OBVIOUS
    <3>1. pc = "save_commit"
      BY <1>4, ResetOrder
    <3>2. /\ file.magic /\ file.hashed /\ file.config_size = ConfigSize /\ file.record_size = 0
          /\ file.size >= Capability
      BY <3>1 DEF HeaderInv, Resetting, Emptied, Saved
    <3>3. /\ file'.magic /\ file'.hashed /\ file'.config_size = ConfigSize
          /\ file'.record_size = 0 /\ file'.size = file.size
      BY <1>4, <3>1, <3>2, ResetStores
    <3> QED
      BY <1>0, <3>2, <3>3, ContentOps DEF CheckValid, Used
  <2> QED
    BY <2>1, <2>2 DEF PushInv, Pushing
<1>5. ASSUME NEW m \in Messages, Push(m) \/ PushRefused(m) PROVE PushInv'
  <2>1. pc = "idle" /\ CheckValid(file) /\ file' = file
    BY <1>5 DEF Push, PushRefused, Step, PushInv
  <2>2. pc' \in {"idle", "push_grow", "push_write"}
    BY <1>5 DEF Push, PushRefused, Step
  <2>3. CASE PushRefused(m)
    BY <2>1, <2>3 DEF PushRefused, PushInv, Pushing
  <2>4. CASE Push(m)
    BY <2>1, <2>2, <2>4 DEF Push, PushInv, Pushing
  <2> QED
    BY <1>5, <2>3, <2>4
<1>6. CASE PushStep
  <2>0. pc \in Pushing /\ pc' \in Pushing \cup {"idle", "fault"}
    BY <1>6, PushOrder DEF Pushing
  <2>1. /\ message \in Messages /\ message \in tried /\ CheckValid(file) /\ message' = message
        /\ file.config_size = ConfigSize /\ tried' = tried
    BY <1>6, <2>0, PushStores DEF PushInv, TypeOK, HeaderInv, CheckValid
  <2>2. CheckValid(file')
    BY <1>6, PushValid
  <2>3. pc' \in Pushing \ {"push_commit"} => NextSize(file', message) <= MaxCache
    BY <1>6, <2>0, PushStores, PushOrder DEF PushInv, NextSize, Used, Pushing
  <2>4. pc' \in {"push_count", "push_size"} =>
           /\ NextSize(file', message) <= file'.size
           /\ \A k \in 0..(RecordUnits(message) - 1) :
                 file'.body[file'.record_size + k] = <<message, k>>
    <3>1. CASE pc' = "push_size"
      BY <1>6, <3>1, PushStores, PushOrder DEF PushInv, NextSize, Used
    <3>2. CASE pc' = "push_count"
      <4>1. pc = "push_write" /\ Used(file) + RecordUnits(message) <= mapped
        BY <1>6, <3>2, PushOrder
      <4>2. /\ file'.size = file.size /\ file'.record_size = file.record_size
            /\ file'.config_size = file.config_size /\ file'.body = Written
        BY <1>6, <3>2, PushStores
      <4>3. mapped <= file.size /\ NextSize(file, message) <= MaxCache
        BY <4>1 DEF HeaderInv, PushInv, Pushing
      <4>4. NextSize(file', message) <= file'.size
        <5>1. NextSize(file', message) = NextSize(file, message)
          BY <4>2 DEF NextSize, Used
        <5>2. Used(file) \in Nat /\ RecordUnits(message) \in Nat /\ file.size \in Nat
          BY <1>0, <2>1, ContentOps, Sizes
        <5>3. NextSize(file, message) = Used(file) + RecordUnits(message)
          BY <1>0, <2>1, RoomOps
        <5> QED
          BY <1>0, <4>1, <4>2, <4>3, <5>1, <5>2, <5>3
      <4>5. file.record_size + RecordUnits(message) <= Area
        BY <1>0, <2>1, <4>3, RoomOps
      <4> QED
        BY <2>1, <4>2, <4>4, <4>5, WrittenOps
    <3> QED
      BY <3>1, <3>2
  <2>5. RecordUnits(message)' = RecordUnits(message)
    BY <2>1 DEF RecordUnits
  <2>6. NextSize(file, message)' = NextSize(file', message)
    BY <2>1 DEF NextSize, Used
  <2> QED
    BY <2>1, <2>2, <2>3, <2>4, <2>5, <2>6 DEF PushInv
<1>7. CASE Clear
  BY <1>7 DEF Clear, Step, PushInv, Pushing
<1>8. CASE Kill
  BY <1>8 DEF Kill, PushInv, Pushing
<1>9. CASE PowerLoss
  BY <1>9, PowerStores DEF PushInv, Pushing
<1> QED
  BY <1>1, <1>2, <1>3, <1>4, <1>5, <1>6, <1>7, <1>8, <1>9 DEF Next

\* Nothing is mapped at first.
LEMMA MapBegins == Init => MapInv
BY DEF Init, MapInv

\* Every step keeps the mapping as large as the file, unless a Map fails.
LEMMA MapNext == TypeOK /\ HeaderInv /\ PushInv /\ MapInv /\ [Next]_vars => MapInv'
<1> SUFFICES ASSUME TypeOK, HeaderInv, PushInv, MapInv, [Next]_vars PROVE MapInv'
  OBVIOUS
<1>0. file \in Content /\ disk \in Content /\ mapped \in Nat
  BY DEF TypeOK
<1>1. CASE UNCHANGED vars
  BY <1>1 DEF vars, history, MapInv, NextSize, Used, RecordUnits
<1>2. ASSUME NEW with \in BOOLEAN, Open(with) PROVE MapInv'
  BY <1>2, OpenStores DEF MapInv
<1>3. CASE LoadConfig
  BY <1>3 DEF LoadConfig, Step, MapInv, history
<1>4. CASE Reset
  <2>1. pc \notin {"closed", "fault", "push_map"} /\ pc' \notin {"push_map", "push_write"}
    BY <1>4, ResetOrder
  <2>2. pc' # "closed" /\ ~remap_failed' => mapped' = file'.size
    BY <1>0, <1>4, <2>1, ResetStores DEF MapInv
  <2> QED
    BY <2>1, <2>2 DEF MapInv
<1>5. ASSUME NEW m \in Messages, Push(m) \/ PushRefused(m) PROVE MapInv'
  <2>1. pc = "idle" /\ file' = file /\ mapped' = mapped /\ remap_failed' = remap_failed
    BY <1>5 DEF Push, PushRefused, Step
  <2>2. file.size \in Nat /\ NextSize(file, m) \in Nat
    BY <1>0, RoomOps, ContentOps
  <2>3. /\ pc' \in {"idle", "push_grow", "push_write"}
        /\ pc' = "push_write" => message' = m /\ NextSize(file, m) <= file.size
    BY <1>5, <2>2 DEF Push, PushRefused, Step
  <2> QED
    BY <2>1, <2>3 DEF MapInv
<1>6. CASE PushStep
  <2>0. pc \in Pushing /\ pc' \in (Pushing \cup {"idle", "fault"}) \ {"push_grow"}
    BY <1>6, PushOrder DEF Pushing
  <2>1. /\ message \in Messages /\ message' = message /\ Used(file) <= file.size
    BY <1>6, <2>0, PushStores DEF PushInv, TypeOK, CheckValid
  <2>2. /\ RecordUnits(message) \in Nat /\ Used(file) \in Nat /\ file.size \in Nat
        /\ NextSize(file, message) = Used(file) + RecordUnits(message)
    BY <1>0, <2>1, Sizes, RoomOps, ContentOps
  <2>3. pc' \in {"push_map", "push_write"} =>
           NextSize(file', message) <= file'.size \/ RecordUnits(message) > Capability
    <3>1. CASE pc' = "push_map"
      <4>1. file'.size = file.size + Capability /\ Used(file') = Used(file)
        BY <1>6, <3>1, PushStores DEF Used
      <4>2. NextSize(file', message) = Used(file) + RecordUnits(message)
        BY <2>2, <4>1 DEF NextSize, Used
      <4> QED
        BY <2>1, <2>2, <4>1, <4>2
    <3>2. CASE pc' = "push_write"
      <4>1. pc = "push_map" /\ file'.size = file.size /\ Used(file') = Used(file)
        BY <1>6, <3>2, PushStores, PushOrder DEF Used
      <4>2. NextSize(file', message) = NextSize(file, message)
        BY <4>1 DEF NextSize
      <4> QED
        BY <4>1, <4>2 DEF MapInv
    <3> QED
      BY <3>1, <3>2
  <2>4. pc' \notin {"closed", "fault", "push_map"} /\ ~remap_failed' => mapped' = file'.size
    <3>1. CASE pc = "push_map"
      BY <1>6, <3>1, PushOrder, PushStores
    <3>2. CASE pc # "push_map"
      BY <1>6, <2>0, <3>2, PushOrder, PushStores DEF MapInv, Pushing
    <3> QED
      BY <3>1, <3>2
  <2>5. RecordUnits(message)' = RecordUnits(message)
    BY <2>1 DEF RecordUnits
  <2>6. NextSize(file, message)' = NextSize(file', message)
    BY <2>1 DEF NextSize, Used
  <2> QED
    BY <2>3, <2>4, <2>5, <2>6 DEF MapInv
<1>7. CASE Clear
  BY <1>7 DEF Clear, Step, MapInv
<1>8. CASE Kill
  BY <1>8 DEF Kill, MapInv
<1>9. CASE PowerLoss
  BY <1>9, PowerStores DEF MapInv
<1> QED
  BY <1>1, <1>2, <1>3, <1>4, <1>5, <1>6, <1>7, <1>8, <1>9 DEF Next

\* A write past the mapping is one of the two kinds.
LEMMA FaultNext ==
    TypeOK /\ PushInv /\ MapInv /\ InsideMapping /\ [Next]_vars => InsideMapping'
<1> SUFFICES ASSUME TypeOK, PushInv, MapInv, InsideMapping, [Next]_vars, pc' = "fault"
             PROVE  remap_failed' \/ (RecordUnits(message) > Capability)'
  BY DEF InsideMapping
<1>1. CASE UNCHANGED vars
  BY <1>1 DEF vars, history, InsideMapping, RecordUnits
<1>2. CASE PushStep
  <2>1. pc = "push_write" /\ ~(Used(file) + RecordUnits(message) <= mapped)
    BY <1>2, PushOrder
  <2>2. message \in Messages /\ message' = message /\ remap_failed' = remap_failed
    BY <1>2, <2>1, PushStores DEF PushInv, TypeOK, Pushing
  <2>3. file.size \in Nat /\ NextSize(file, message) = Used(file) + RecordUnits(message)
    BY <2>2, RoomOps, ContentOps DEF TypeOK
  <2>4. remap_failed \/ RecordUnits(message) > Capability
    BY <2>1, <2>3 DEF MapInv
  <2> QED
    BY <2>2, <2>4 DEF RecordUnits
<1>3. ~Reset
  BY ResetOrder
<1>4. ~(\E with \in BOOLEAN : Open(with)) /\ ~LoadConfig /\ ~Clear /\ ~Kill /\ ~PowerLoss
  BY DEF Open, LoadConfig, Clear, Kill, PowerLoss, Step
<1>5. ~\E m \in Messages : Push(m) \/ PushRefused(m)
  BY DEF Push, PushRefused, Step
<1> QED
  BY <1>1, <1>2, <1>3, <1>4, <1>5 DEF Next

\* DiskCache keeps every value in its type; the record area never outgrows max_cache_size.
THEOREM DiskTypeCorrect == Spec => []TypeOK
<1> DEFINE IInv == TypeOK /\ HeaderInv /\ PushInv
<1>1. Init => IInv
  BY TypeBegins, HeaderBegins, PushBegins
<1>2. IInv /\ [Next]_vars => IInv'
  BY TypeNext, HeaderNext, PushNext
<1> QED
  BY <1>1, <1>2, PTL DEF Spec

\* Push writes past its mapping only after a Map has failed, or with a message that is
\* larger than the step by which the file grows.
THEOREM StaysInMapping == Spec => []InsideMapping
<1> DEFINE IInv == TypeOK /\ HeaderInv /\ PushInv /\ MapInv /\ InsideMapping
<1>1. Init => IInv
  <2>1. Init => InsideMapping
    BY DEF Init, InsideMapping
  <2> QED
    BY <2>1, TypeBegins, HeaderBegins, PushBegins, MapBegins
<1>2. IInv /\ [Next]_vars => IInv'
  BY TypeNext, HeaderNext, PushNext, MapNext, FaultNext
<1> QED
  BY <1>1, <1>2, PTL DEF Spec

-----------------------------------------------------------------------------
(* The file on which the next launch relies.                               *)

\* A file without a hash is empty at first.
LEMMA GoodBegins == Init => GoodInv
BY DEF Init, NoFile, GoodInv, Resetting

\* What the end of a Reset leaves is valid.
LEMMA ResetValid ==
    ASSUME TypeOK, HeaderInv, Reset, file'.hashed, file.hashed => CheckValid(file)
    PROVE  /\ CheckValid(file')
           /\ pc \in {"save_hash", "save_commit"} =>
                 file'.config /\ has_config' /\ file'.size >= Capability
<1>1. /\ file \in Content /\ file.size \in Nat /\ file.record_size \in Nat
      /\ file.size >= Capability
  BY ResetOrder, ContentOps DEF TypeOK, HeaderInv
<1>2. CASE pc \in {"save_hash", "save_commit"}
  <2>1. /\ file.magic /\ file.config_size = ConfigSize /\ file.record_size = 0
        /\ file.config /\ has_config
    BY <1>2 DEF HeaderInv, Resetting, Emptied, Saved
  <2>2. /\ file'.magic /\ file'.config_size = ConfigSize /\ file'.record_size = 0
        /\ file'.config /\ has_config' /\ file'.size = file.size
    BY <1>2, <2>1, ResetStores
  <2> QED
    BY <1>1, <2>2 DEF CheckValid, Used
<1>3. CASE pc \notin {"save_hash", "save_commit"}
  <2>1. file.hashed /\ CheckValid(file) /\ file.config_size = ConfigSize
    BY <1>3, ResetStores DEF HeaderInv
  <2>2. file'.magic /\ file'.config_size = ConfigSize
    BY <2>1, ResetStores DEF CheckValid
  <2>3. CASE pc = "shrink"
    <3>1. file.record_size = 0
      BY <2>3 DEF HeaderInv, Emptied
    <3>2. file'.record_size = 0 /\ file'.size >= Capability
      BY <1>1, <2>3, <3>1, ResetStores
    <3>3. file'.size \in Nat
      BY <1>1, <2>3, ResetStores
    <3> QED
      BY <1>3, <2>2, <3>2, <3>3 DEF CheckValid, Used
  <2>4. CASE pc # "shrink"
    <3>1. /\ file'.size = file.size
          /\ file'.record_size = file.record_size \/ file'.record_size = 0
      BY <2>4, ResetStores
    <3> QED
      BY <1>1, <1>3, <2>1, <2>2, <3>1 DEF CheckValid, Used
  <2> QED
    BY <2>3, <2>4
<1> QED
  BY <1>2, <1>3

\* Reset, up to the hash and after it.
LEMMA GoodReset == TypeOK /\ HeaderInv /\ GoodInv /\ Reset => GoodInv'
<1> SUFFICES ASSUME TypeOK, HeaderInv, GoodInv, Reset, torn' # "power" PROVE GoodInv'
  BY DEF GoodInv
<1>0. pc \in Resetting /\ pc' \in (Resetting \ {"reset_magic"}) \cup {"idle", "closed"}
  BY ResetOrder DEF Resetting
<1>1. CASE pc = "save_commit"
  <2>1. file.hashed /\ file'.hashed /\ ready' /\ kept' = {} /\ disk' = file /\ pc' = "idle"
    BY <1>1, ResetStores, ResetOrder DEF HeaderInv
  <2>2. CheckValid(file)
    <3>1. /\ file.magic /\ file.config_size = ConfigSize /\ file.record_size = 0
          /\ file.size >= Capability
      BY <1>1 DEF HeaderInv, Resetting, Emptied, Saved
    <3> QED
      BY <2>1, <3>1, ContentOps DEF CheckValid, Used, TypeOK
  <2>3. CheckValid(file') /\ file'.config /\ has_config' /\ file'.size >= Capability
    BY <1>1, <2>1, <2>2, ResetValid
  <2>4. Synced'
    <3>1. file' = file
      BY <1>1 DEF Reset, ResetMagic, ResetCount, ResetSize, ResetCommit, Shrink, SaveConfig,
                  SaveSize, SaveHash, SaveCommit, Step
    <3> QED
      BY <2>1, <2>3, <3>1 DEF Synced, CheckValid
  <2> QED
    BY <2>1, <2>3, <2>4 DEF GoodInv, Resetting
<1>2. CASE pc # "save_commit"
  <2>0. torn # "power" /\ (ready' => ready)
    BY <1>2, ResetStores
  <2>1. torn # "power" /\ kept = {} /\ kept' = {} /\ (ready' => ready)
    BY <1>0, <1>2, <2>0, ResetStores DEF GoodInv
  <2>2. ready' => file'.hashed
    BY <2>1, ResetStores DEF GoodInv
  <2>3. file'.hashed => /\ CheckValid(file') /\ file'.config /\ file'.size >= Capability
                        /\ has_config' /\ pc' \in Resetting
    <3> SUFFICES ASSUME file'.hashed
                 PROVE  /\ CheckValid(file') /\ file'.config /\ file'.size >= Capability
                        /\ has_config' /\ pc' \in Resetting
      OBVIOUS
    <3>1. CheckValid(file')
      BY <2>1, ResetValid DEF GoodInv
    <3>2. CASE pc = "save_hash"
      <4>1. pc' = "save_commit"
        BY <3>2, ResetOrder
      <4> QED
        BY <2>1, <3>1, <3>2, <4>1, ResetValid DEF GoodInv, Resetting
    <3>3. CASE pc # "save_hash"
      <4>1. file.hashed /\ file.config /\ has_config /\ file.size >= Capability
        BY <1>0, <2>1, <3>3, ResetStores DEF GoodInv
      <4>2. file'.config /\ has_config'
        BY <4>1, ResetStores
      <4>3. file'.size >= Capability
        BY <4>1, ResetStores
      <4>4. pc' \in Resetting
        BY <1>2, <4>1, ResetOrder DEF Resetting
      <4> QED
        BY <3>1, <4>2, <4>3, <4>4
    <3> QED
      BY <3>2, <3>3
  <2>4. ~file'.hashed => file'.record_size = 0 /\ disk'.record_size = 0 /\ ~disk'.hashed
    <3> SUFFICES ASSUME ~file'.hashed
                 PROVE  file'.record_size = 0 /\ disk'.record_size = 0 /\ ~disk'.hashed
      OBVIOUS
    <3>1. ~file.hashed /\ file.record_size = 0 /\ disk.record_size = 0 /\ ~disk.hashed
      BY <2>1, ResetStores DEF GoodInv
    <3> QED
      BY <3>1, ResetStores
  <2> QED
    BY <2>1, <2>2, <2>3, <2>4 DEF GoodInv
<1> QED
  BY <1>1, <1>2

\* Push, whose growth alone is not on the disk when it answers.
LEMMA GoodPush == TypeOK /\ HeaderInv /\ PushInv /\ GoodInv /\ PushStep => GoodInv'
<1> SUFFICES ASSUME TypeOK, HeaderInv, PushInv, GoodInv, PushStep, torn' # "power"
             PROVE  GoodInv'
  BY DEF GoodInv
<1>1. /\ pc \in Pushing /\ pc' \in Pushing \cup {"idle", "fault"} /\ pc' \notin Resetting
      /\ torn # "power"
  BY PushOrder, PushStores DEF Pushing, Resetting
<1>2. /\ CheckValid(file) /\ file.hashed /\ file.config /\ file.size >= Capability /\ has_config
      /\ CheckValid(file')
  BY <1>1, PushValid DEF GoodInv, CheckValid
<1>3. file'.hashed /\ file'.config /\ has_config'
  BY <1>2, PushStores
<1>4. file'.size >= Capability
  <2>1. file.size \in Nat
    BY ContentOps DEF TypeOK
  <2>2. file'.size = file.size \/ file'.size = file.size + Capability
    BY PushStores
  <2> QED
    BY <1>2, <2>1, <2>2
<1>5. ~loose' /\ pc' \notin {"push_count", "push_size", "push_commit"} => Synced'
  <2> SUFFICES ASSUME ~loose', pc' \notin {"push_count", "push_size", "push_commit"}
               PROVE  Synced'
    OBVIOUS
  <2>1. CASE pc = "push_commit"
    <3>1. disk' = file
      BY <2>1, PushStores, PushOrder
    <3>2. file' = file
      BY <2>1 DEF PushStep, PushGrow, PushResizeFails, PushMap, PushMapFails, PushWrite,
                  PushCount, PushSize, PushCommit, PushCommitFails, Step
    <3> QED
      BY <1>2, <3>1, <3>2 DEF Synced, CheckValid
  <2>2. CASE pc # "push_commit"
    <3>1. pc \in {"push_grow", "push_map", "push_write"}
      BY <2>2, PushOrder
    <3>2. disk' = disk /\ ~loose
      BY <2>2, PushStores DEF TypeOK
    <3>3. Synced
      BY <1>1, <1>2, <3>1, <3>2 DEF GoodInv, Resetting
    <3>4. /\ file'.magic = file.magic /\ file'.hashed = file.hashed
          /\ file'.config = file.config /\ file'.config_size = file.config_size
          /\ file'.record_count = file.record_count /\ file'.record_size = file.record_size
          /\ file'.body = file.body
      BY <3>1, PushStores, PushOrder
    <3> QED
      BY <3>2, <3>3, <3>4 DEF Synced, Used
  <2> QED
    BY <2>1, <2>2
<1> QED
  BY <1>1, <1>2, <1>3, <1>4, <1>5 DEF GoodInv

\* A power loss outside an operation finds all that matters on the disk.
LEMMA GoodPower == TypeOK /\ HeaderInv /\ GoodInv /\ PowerLoss => GoodInv'
<1> SUFFICES ASSUME TypeOK, HeaderInv, GoodInv, PowerLoss, torn' # "power" PROVE GoodInv'
  BY DEF GoodInv
<1>1. /\ ~loose /\ pc \notin Resetting \cup Pushing /\ torn # "power" /\ pc' = "closed"
      /\ disk' = file' /\ ready' = ready /\ kept' = kept
  BY PowerStores
<1>2. file \in Content /\ disk \in Content
  BY DEF TypeOK
<1>3. CASE file.hashed
  <2>1. /\ Synced /\ CheckValid(file) /\ file.config /\ file.size >= Capability
    BY <1>1, <1>3 DEF GoodInv, Pushing
  <2>2. /\ file'.magic = file.magic /\ file'.hashed = file.hashed
        /\ file'.config_size = file.config_size /\ file'.record_size = file.record_size
        /\ file'.config = file.config
    BY <2>1, PowerStores DEF Synced
  <2>3. file'.size = file.size \/ file'.size = disk.size
    BY PowerStores
  <2>4. file'.size >= Capability
    BY <2>1, <2>3 DEF Synced
  <2>5. CheckValid(file')
    BY <2>1, <2>2, <2>3 DEF Synced, CheckValid, Used
  <2>6. Synced'
    BY <1>1, <2>4, <2>5 DEF Synced, CheckValid
  <2> QED
    BY <1>1, <1>3, <2>1, <2>2, <2>4, <2>5, <2>6 DEF GoodInv, Resetting, Pushing
<1>4. CASE ~file.hashed
  <2>1. file.record_size = 0 /\ disk.record_size = 0 /\ kept = {} /\ ~disk.hashed /\ ~ready
    BY <1>1, <1>4 DEF GoodInv
  <2>2. ~file'.hashed /\ file'.record_size = 0
    BY <1>4, <2>1, PowerStores
  <2> QED
    BY <1>1, <2>1, <2>2 DEF GoodInv, Resetting
<1> QED
  BY <1>3, <1>4

\* Every step keeps a hashed file good.
LEMMA GoodNext == TypeOK /\ HeaderInv /\ PushInv /\ GoodInv /\ [Next]_vars => GoodInv'
<1> SUFFICES ASSUME TypeOK, HeaderInv, PushInv, GoodInv, [Next]_vars PROVE GoodInv'
  OBVIOUS
<1>1. CASE UNCHANGED vars
  BY <1>1 DEF vars, history, GoodInv, Synced, CheckValid, Used
<1>2. ASSUME NEW with \in BOOLEAN, Open(with), torn' # "power" PROVE GoodInv'
  <2>1. UNCHANGED <<disk, kept, loose, torn, ready>> /\ torn # "power" /\ pc = "closed"
    BY <1>2, OpenStores
  <2>2. CASE file.hashed
    <3>1. CheckValid(file) /\ file.config /\ file.size >= Capability
      BY <2>1, <2>2 DEF GoodInv
    <3>2. file' = file
      BY <1>2, <3>1, OpenStores
    <3>3. pc' \in {"idle", "load_config"} /\ (pc' = "idle" => has_config')
      BY <1>2, <3>1, <3>2, OpenStores
    <3>4. ~loose' => Synced'
      BY <2>1, <2>2, <3>2 DEF GoodInv, Synced, Used, Resetting
    <3> QED
      BY <2>1, <2>2, <3>1, <3>2, <3>3, <3>4 DEF GoodInv, Resetting, Pushing
  <2>3. CASE ~file.hashed
    <3>1. ~file'.hashed /\ file'.record_size = 0
      BY <1>2, <2>1, <2>3, OpenStores DEF GoodInv
    <3> QED
      BY <2>1, <2>3, <3>1 DEF GoodInv
  <2> QED
    BY <2>2, <2>3
<1>3. CASE LoadConfig /\ torn' # "power"
  <2>1. /\ UNCHANGED <<file, disk, kept, loose, torn, ready>> /\ torn # "power"
        /\ pc = "load_config" /\ has_config' = file.config
        /\ pc' = IF file.config THEN "idle" ELSE "closed"
    BY <1>3 DEF LoadConfig, Step, history
  <2>2. file.hashed /\ file.config
    BY <2>1 DEF PushInv, GoodInv, CheckValid
  <2>3. ~loose => Synced'
    BY <2>1, <2>2 DEF GoodInv, Synced, Used, Resetting
  <2> QED
    BY <2>1, <2>2, <2>3 DEF GoodInv, Resetting
<1>4. ASSUME NEW m \in Messages, Push(m) \/ PushRefused(m), torn' # "power" PROVE GoodInv'
  <2>1. /\ UNCHANGED <<file, disk, kept, loose, torn, ready, has_config>> /\ torn # "power"
        /\ pc = "idle" /\ pc' \in {"idle", "push_grow", "push_write"}
    BY <1>4 DEF Push, PushRefused, Step
  <2>2. Synced' = Synced
    BY <2>1 DEF Synced, Used
  <2> QED
    BY <2>1, <2>2 DEF GoodInv, Resetting, Pushing
<1>5. CASE Clear /\ torn' # "power"
  <2>1. /\ UNCHANGED <<file, disk, loose, torn, ready, has_config>> /\ torn # "power"
        /\ pc = "idle" /\ pc' = "reset_magic" /\ kept' = {}
    BY <1>5 DEF Clear, Step
  <2> QED
    BY <2>1 DEF GoodInv, Resetting
<1>6. CASE Kill /\ torn' # "power"
  <2>1. /\ UNCHANGED <<file, disk, kept, ready, has_config>> /\ pc' = "closed"
        /\ torn # "power"
    BY <1>6 DEF Kill
  <2>2. ~loose' => ~loose /\ pc \notin Resetting \cup Pushing
    BY <1>6 DEF Kill
  <2>3. Synced' = Synced
    BY <2>1 DEF Synced, Used
  <2> QED
    BY <2>1, <2>2, <2>3 DEF GoodInv, Resetting, Pushing
<1>7. torn' = "power" => GoodInv'
  BY DEF GoodInv
<1> QED
  BY <1>1, <1>2, <1>3, <1>4, <1>5, <1>6, <1>7, GoodReset, GoodPush, GoodPower DEF Next

\* The invariants together.
DiskInv == TypeOK /\ HeaderInv /\ PushInv /\ GoodInv

\* All of it holds always.
LEMMA DiskInvariant == Spec => []DiskInv
<1>1. Init => DiskInv
  BY TypeBegins, HeaderBegins, PushBegins, GoodBegins DEF DiskInv
<1>2. DiskInv /\ [Next]_vars => DiskInv'
  BY TypeNext, HeaderNext, PushNext, GoodNext DEF DiskInv
<1> QED
  BY <1>1, <1>2, PTL DEF Spec

\* Once Init has come to its end, the next launch accepts the file and finds the config in
\* it, wherever the process or, outside an operation, the power ended.
THEOREM FileReopens == Spec => []Reopens
<1>1. DiskInv => Reopens
  BY DEF DiskInv, GoodInv, Reopens
<1> QED
  BY <1>1, DiskInvariant, PTL

-----------------------------------------------------------------------------
(* The loop of Load.                                                       *)

\* The least element of a set of numbers.
LEMMA Least ==
    ASSUME NEW T, T \subseteq Nat, T # {}
    PROVE  \E n \in T : \A m \in T : n <= m
<1>1. PICK n \in T : \A m \in T : ~(<<m, n>> \in OpToRel(<, Nat))
  BY WFMin, NatLessThanWellFounded, Zenon
<1>2. \A m \in T : ~(m < n)
  BY <1>1 DEF OpToRel
<1> QED
  BY <1>2

\* Induction, by the least counterexample.
LEMMA Induct ==
    ASSUME NEW T, T \subseteq Nat, 0 \in T, \A n \in T : n + 1 \in T
    PROVE  T = Nat
<1> SUFFICES ASSUME Nat \ T # {} PROVE FALSE
  OBVIOUS
<1>1. PICK n \in Nat \ T : \A m \in Nat \ T : n <= m
  BY Least
<1>2. n - 1 \in T
  BY <1>1
<1> QED
  BY <1>1, <1>2

\* What one more round returns from each offset, where g is what the others return.
Round(f, g) ==
    [o \in 0..f.record_size |->
        IF NextOffset(f, o) = o THEN <<>>
        ELSE (IF HashMatches(f, o) THEN <<o>> ELSE <<>>) \o g[NextOffset(f, o)]]

NoRound(f) == [o \in 0..f.record_size |-> <<>>]

\* s are the rounds of the loop of Load, up to n of them.
RoundsOf(f, n, s) == s = [i \in 0..n |-> IF i = 0 THEN NoRound(f) ELSE Round(f, s[i - 1])]

\* The rounds can be computed, however many.
LEMMA RoundsExist == ASSUME NEW f PROVE \A n \in Nat : \E s : RoundsOf(f, n, s)
<1> DEFINE T == {n \in Nat : \E s : RoundsOf(f, n, s)}
<1>1. 0 \in T
  <2>1. RoundsOf(f, 0, [i \in 0..0 |-> NoRound(f)])
    BY DEF RoundsOf
  <2> QED
    BY <2>1
<1>2. ASSUME NEW n \in T PROVE n + 1 \in T
  <2>1. PICK s : RoundsOf(f, n, s)
    OBVIOUS
  <2> DEFINE z == [i \in 0..(n + 1) |-> IF i = n + 1 THEN Round(f, s[n]) ELSE s[i]]
  <2>2. RoundsOf(f, n + 1, z)
    <3>1. ASSUME NEW i \in 0..(n + 1)
          PROVE  z[i] = IF i = 0 THEN NoRound(f) ELSE Round(f, z[i - 1])
      BY <2>1 DEF RoundsOf
    <3>2. z = [i \in 0..(n + 1) |-> z[i]]
      OBVIOUS
    <3> HIDE DEF z
    <3> QED
      BY <3>1, <3>2 DEF RoundsOf
  <2> QED
    BY <2>2
<1> HIDE DEF T
<1>3. T \subseteq Nat
  BY DEF T
<1>4. T = Nat
  BY <1>1, <1>2, <1>3, Induct
<1> QED
  BY <1>4 DEF T

\* The function of the loop is the only one that satisfies its equation.
LEMMA LoadIsRounds ==
    ASSUME NEW f, NEW n \in Nat
    PROVE  \E s : RoundsOf(f, n, s) /\ LoadRounds(f, n) = s[n][0]
<1> DEFINE C(s) == s = [i \in 0..n |->
                      [o \in 0..f.record_size |->
                          IF i = 0 \/ NextOffset(f, o) = o THEN <<>>
                          ELSE (IF HashMatches(f, o) THEN <<o>> ELSE <<>>)
                               \o s[i - 1][NextOffset(f, o)]]]
<1>1. ASSUME NEW s PROVE C(s) <=> RoundsOf(f, n, s)
  <2>1. ASSUME NEW i \in 0..n
        PROVE  [o \in 0..f.record_size |->
                          IF i = 0 \/ NextOffset(f, o) = o THEN <<>>
                          ELSE (IF HashMatches(f, o) THEN <<o>> ELSE <<>>)
                               \o s[i - 1][NextOffset(f, o)]]
                = IF i = 0 THEN NoRound(f) ELSE Round(f, s[i - 1])
    BY DEF NoRound, Round
  <2> QED
    BY <2>1 DEF RoundsOf
<1>2. LoadRounds(f, n) = (CHOOSE s : C(s))[n][0]
  BY DEF LoadRounds
<1> HIDE DEF C
<1>3. \E s : C(s)
  <2>1. PICK s : RoundsOf(f, n, s)
    BY RoundsExist
  <2> QED
    BY <1>1, <2>1
<1>4. C(CHOOSE s : C(s))
  BY <1>3
<1> QED
  BY <1>1, <1>2, <1>4

\* The loop stays in the record area.
LEMMA NextOps ==
    ASSUME NEW f \in Content, NEW o \in 0..f.record_size
    PROVE  /\ NextOffset(f, o) \in 0..f.record_size
           /\ o < f.record_size => o \in Offsets /\ ReadLength(f, o) \in Nat
           /\ NextOffset(f, o) # o =>
                 /\ o < f.record_size
                 /\ NextOffset(f, o) = o + RecordHeader + ReadLength(f, o)
<1>1. f.record_size \in Nat /\ f.record_size <= Area /\ Area \in Nat /\ Offsets = 0..(Area - 1)
  BY ContentOps, Sizes
<1>2. o < f.record_size => o \in Offsets /\ ReadLength(f, o) \in Nat
  <2> SUFFICES ASSUME o < f.record_size PROVE o \in Offsets /\ ReadLength(f, o) \in Nat
    OBVIOUS
  <2>1. o \in Offsets
    BY <1>1
  <2>2. f.body[o] \in (Messages \cup {NoMessage}) \X Nat
    BY <2>1, ContentOps
  <2>3. PICK m : m = f.body[o][1]
    OBVIOUS
  <2>4. m = NoMessage \/ Size[m] \in Nat
    BY <2>2, <2>3
  <2>5. ReadLength(f, o) = 0 \/ ReadLength(f, o) = Garbage
           \/ (m # NoMessage /\ ReadLength(f, o) = Size[m])
    BY <2>3 DEF ReadLength
  <2> QED
    BY <2>1, <2>4, <2>5
<1> QED
  BY <1>1, <1>2 DEF NextOffset

\* A whole record lies in the record area.
LEMMA WholeOps ==
    ASSUME NEW f \in Content, NEW o \in Whole(f)
    PROVE  /\ o \in Offsets /\ f.body[o][1] \in Messages
           /\ NextOffset(f, o) = o + RecordUnits(f.body[o][1])
           /\ \A k \in 0..(RecordUnits(f.body[o][1]) - 1) :
                 /\ o + k < f.record_size
                 /\ f.body[o + k] = <<f.body[o][1], k>>
<1>1. o \in 0..f.record_size /\ NextOffset(f, o) # o /\ HashMatches(f, o)
  BY DEF Whole
<1>2. /\ o < f.record_size /\ o \in Offsets /\ f.record_size \in Nat
      /\ NextOffset(f, o) = o + RecordHeader + ReadLength(f, o)
      /\ NextOffset(f, o) <= f.record_size
  BY <1>1, NextOps, ContentOps
<1>3. f.body[o] \in (Messages \cup {NoMessage}) \X Nat
  BY <1>2, ContentOps
<1>4. PICK m \in Messages : m = f.body[o][1]
  BY <1>1, <1>3 DEF HashMatches
<1>5. RecordUnits(m) \in Nat \ {0} /\ RecordUnits(m) = RecordHeader + Size[m] /\ Size[m] \in Nat
  BY Sizes DEF RecordUnits
<1>6. \A k \in 0..(RecordUnits(m) - 1) : f.body[o + k] = <<m, k>>
  BY <1>1, <1>4 DEF HashMatches
<1>7. ReadLength(f, o) = Size[m]
  <2>1. 0 \in 0..(RecordUnits(m) - 1) /\ o + 0 = o
    BY <1>1, <1>2, <1>5
  <2>2. f.body[o] = <<m, 0>>
    BY <1>6, <2>1
  <2>3. m # NoMessage
    BY <1>4
  <2> QED
    BY <2>2, <2>3 DEF ReadLength
<1>8. NextOffset(f, o) = o + RecordUnits(m)
  BY <1>1, <1>2, <1>5, <1>7
<1>9. \A k \in 0..(RecordUnits(m) - 1) : o + k < f.record_size
  BY <1>1, <1>2, <1>5, <1>8
<1> QED
  BY <1>2, <1>4, <1>6, <1>8, <1>9

-----------------------------------------------------------------------------
(* The row of records.                                                     *)

\* The first element and the rest of a part of a sequence.
LEMMA SubSeqFrom ==
    ASSUME NEW S, NEW r \in Seq(S), NEW j \in 1..Len(r), NEW k \in j..Len(r)
    PROVE  <<r[j]>> \o SubSeq(r, j + 1, k) = SubSeq(r, j, k)
<1> DEFINE a == <<r[j]>> \o SubSeq(r, j + 1, k)
           b == SubSeq(r, j, k)
<1>1. b \in Seq(S) /\ Len(b) = k - j + 1 /\ \A i \in 1..Len(b) : b[i] = r[j + i - 1]
  OBVIOUS
<1>2. /\ SubSeq(r, j + 1, k) \in Seq(S) /\ Len(SubSeq(r, j + 1, k)) = k - j
      /\ \A i \in 1..(k - j) : SubSeq(r, j + 1, k)[i] = r[j + i]
  OBVIOUS
<1>3. a \in Seq(S) /\ Len(a) = k - j + 1
  BY <1>2
<1>4. ASSUME NEW i \in 1..Len(a) PROVE a[i] = r[j + i - 1]
  <2> DEFINE c == SubSeq(r, j + 1, k)
  <2>1. r[j] \in S /\ c \in Seq(S) /\ Len(c) = k - j /\ i \in 1..(k - j + 1)
    BY <1>2, <1>3
  <2>2. i - 1 \in 1..(k - j) => c[i - 1] = r[j + (i - 1)]
    BY <1>2
  <2> HIDE DEF c
  <2>3. (<<r[j]>> \o c)[i] = IF i = 1 THEN r[j] ELSE c[i - 1]
    BY <2>1
  <2>4. i # 1 => i - 1 \in 1..(k - j) /\ j + (i - 1) = j + i - 1
    BY <2>1
  <2>5. i = 1 => j + i - 1 = j
    OBVIOUS
  <2> QED
    BY <2>2, <2>3, <2>4, <2>5 DEF c
<1> HIDE DEF a, b
<1>5. a = b
  BY <1>1, <1>3, <1>4, SeqEqual
<1> QED
  BY <1>5 DEF a, b

AtMost(n, m) == IF n < m THEN n ELSE m

\* The loop of Load returns the records of the row, as many as there are rounds.
LEMMA LaidRounds ==
    ASSUME NEW f \in Content, NEW r, Laid(f, r), NEW n \in Nat
    PROVE  LoadRounds(f, n) = SubSeq(r, 1, AtMost(n, Len(r)))
<1>1. PICK s : RoundsOf(f, n, s) /\ LoadRounds(f, n) = s[n][0]
  BY LoadIsRounds
<1>2. f.record_size \in Nat /\ r \in Seq(Whole(f)) /\ Len(r) \in Nat
  BY ContentOps DEF Laid
<1> DEFINE T == {i \in Nat : i <= n => \A j \in 1..(Len(r) + 1) :
                    s[i][Place(f, r, j)] = SubSeq(r, j, AtMost(j + i - 1, Len(r)))}
<1>3. \A j \in 1..(Len(r) + 1) : Place(f, r, j) \in 0..f.record_size
  BY <1>2 DEF Place, Whole
<1>4. 0 \in T
  <2> SUFFICES ASSUME NEW j \in 1..(Len(r) + 1)
               PROVE  s[0][Place(f, r, j)] = SubSeq(r, j, AtMost(j + 0 - 1, Len(r)))
    OBVIOUS
  <2>1. s[0] = NoRound(f)
    BY <1>1 DEF RoundsOf
  <2>2. s[0][Place(f, r, j)] = <<>>
    BY <1>3, <2>1 DEF NoRound
  <2>3. AtMost(j + 0 - 1, Len(r)) = j - 1
    BY <1>2 DEF AtMost
  <2>4. SubSeq(r, j, j - 1) = <<>>
    BY <1>2
  <2> QED
    BY <2>2, <2>3, <2>4
<1>5. ASSUME NEW i \in T PROVE i + 1 \in T
  <2> SUFFICES ASSUME i + 1 <= n, NEW j \in 1..(Len(r) + 1)
               PROVE  s[i + 1][Place(f, r, j)] = SubSeq(r, j, AtMost(j + (i + 1) - 1, Len(r)))
    OBVIOUS
  <2>1. s[i + 1] = Round(f, s[i]) /\ i \in Nat
    BY <1>1 DEF RoundsOf
  <2>2. \A q \in 1..(Len(r) + 1) :
           s[i][Place(f, r, q)] = SubSeq(r, q, AtMost(q + i - 1, Len(r)))
    OBVIOUS
  <2> HIDE DEF T
  <2>3. CASE j = Len(r) + 1
    <3>1. Place(f, r, j) = f.record_size /\ NextOffset(f, f.record_size) = f.record_size
      BY <1>2, <2>3 DEF Place, NextOffset
    <3>2. s[i + 1][Place(f, r, j)] = <<>>
      BY <1>2, <2>1, <3>1 DEF Round
    <3>3. AtMost(j + (i + 1) - 1, Len(r)) = Len(r)
      BY <1>2, <2>1, <2>3 DEF AtMost
    <3>4. SubSeq(r, Len(r) + 1, Len(r)) = <<>>
      BY <1>2
    <3> QED
      BY <2>3, <3>2, <3>3, <3>4
  <2>4. CASE j # Len(r) + 1
    <3>1. j \in 1..Len(r) /\ j + 1 \in 1..(Len(r) + 1) /\ Place(f, r, j) = r[j]
      BY <1>2, <2>4 DEF Place
    <3>2. r[j] \in Whole(f) /\ NextOffset(f, r[j]) = Place(f, r, j + 1)
      BY <1>2, <3>1 DEF Laid
    <3>3. s[i + 1][r[j]] = <<r[j]>> \o s[i][Place(f, r, j + 1)]
      BY <2>1, <3>2 DEF Round, Whole
    <3>4. s[i][Place(f, r, j + 1)] = SubSeq(r, j + 1, AtMost((j + 1) + i - 1, Len(r)))
      BY <2>2, <3>1
    <3>5. PICK k \in j..Len(r) : /\ k = AtMost((j + 1) + i - 1, Len(r))
                                 /\ k = AtMost(j + (i + 1) - 1, Len(r))
      BY <1>2, <2>1, <3>1 DEF AtMost
    <3>6. <<r[j]>> \o SubSeq(r, j + 1, k) = SubSeq(r, j, k)
      BY <1>2, <3>1, SubSeqFrom
    <3> QED
      BY <3>1, <3>3, <3>4, <3>5, <3>6
  <2> QED
    BY <2>3, <2>4
<1> HIDE DEF T
<1>6. T \subseteq Nat
  BY DEF T
<1>7. T = Nat
  BY <1>4, <1>5, <1>6, Induct
<1>8. n \in T /\ 1 \in 1..(Len(r) + 1)
  BY <1>2, <1>7
<1>9. s[n][Place(f, r, 1)] = SubSeq(r, 1, AtMost(1 + n - 1, Len(r)))
  BY <1>8 DEF T
<1>10. 1 + n - 1 = n /\ Place(f, r, 1) = 0
  BY DEF Laid
<1> QED
  BY <1>1, <1>9, <1>10

\* A row is no longer than the record area it fills.
LEMMA LaidLength ==
    ASSUME NEW f \in Content, NEW r, Laid(f, r)
    PROVE  Len(r) <= f.record_size
<1>2. f.record_size \in Nat /\ r \in Seq(Whole(f)) /\ Len(r) \in Nat
  BY ContentOps DEF Laid
<1> DEFINE T == {i \in Nat : i <= Len(r) => Place(f, r, i + 1) >= i}
<1>3. 0 \in T
  BY DEF Laid
<1>4. ASSUME NEW i \in T PROVE i + 1 \in T
  <2> SUFFICES ASSUME i + 1 <= Len(r) PROVE Place(f, r, (i + 1) + 1) >= i + 1
    OBVIOUS
  <2>1. i \in Nat /\ Place(f, r, i + 1) >= i
    BY <1>2
  <2> HIDE DEF T
  <2>2. i + 1 \in 1..Len(r) /\ Place(f, r, i + 1) = r[i + 1]
    BY <1>2, <2>1 DEF Place
  <2>3. /\ r[i + 1] \in Whole(f) /\ r[i + 1] \in Nat
        /\ NextOffset(f, r[i + 1]) = Place(f, r, (i + 1) + 1)
    BY <1>2, <2>2 DEF Laid, Whole
  <2>4. PICK m \in Messages : NextOffset(f, r[i + 1]) = r[i + 1] + RecordUnits(m)
    BY <2>3, WholeOps
  <2>5. RecordUnits(m) \in Nat \ {0}
    BY Sizes
  <2> QED
    BY <2>1, <2>2, <2>3, <2>4, <2>5
<1> HIDE DEF T
<1>5. T \subseteq Nat
  BY DEF T
<1>6. Len(r) \in T
  BY <1>2, <1>3, <1>4, <1>5, Induct
<1>7. Place(f, r, Len(r) + 1) = f.record_size
  BY <1>2 DEF Place
<1> QED
  BY <1>2, <1>6, <1>7 DEF T

\* A row only depends on the record area.
LEMMA WholeSame ==
    ASSUME NEW f \in Content, NEW g \in Content, f.record_size <= g.record_size,
           \A o \in 0..(f.record_size - 1) : g.body[o] = f.body[o],
           NEW o \in Whole(f)
    PROVE  o \in Whole(g) /\ NextOffset(g, o) = NextOffset(f, o) /\ g.body[o] = f.body[o]
<1>1. PICK m \in Messages : m = f.body[o][1]
  BY WholeOps
<1>2. /\ RecordUnits(m) \in Nat \ {0} /\ RecordUnits(m) = RecordHeader + Size[m]
      /\ f.record_size \in Nat /\ g.record_size \in Nat /\ o \in Nat /\ o < f.record_size
      /\ m # NoMessage
  <2>1. f.record_size \in Nat /\ g.record_size \in Nat
    BY ContentOps
  <2>2. o \in 0..f.record_size /\ NextOffset(f, o) # o
    BY DEF Whole
  <2>3. o < f.record_size
    BY <2>2, NextOps
  <2>4. RecordUnits(m) \in Nat \ {0} /\ RecordUnits(m) = RecordHeader + Size[m]
    BY Sizes DEF RecordUnits
  <2> QED
    BY <1>1, <2>1, <2>2, <2>3, <2>4
<1>3. /\ NextOffset(f, o) = o + RecordUnits(m) /\ NextOffset(f, o) <= f.record_size
      /\ \A k \in 0..(RecordUnits(m) - 1) : o + k < f.record_size /\ f.body[o + k] = <<m, k>>
  BY <1>1, WholeOps, NextOps DEF Whole
<1>4. \A k \in 0..(RecordUnits(m) - 1) : g.body[o + k] = <<m, k>>
  BY <1>2, <1>3
<1>5. g.body[o] = f.body[o]
  BY <1>2
<1>6. g.body[o] = <<m, 0>>
  <2>1. 0 \in 0..(RecordUnits(m) - 1) /\ o + 0 = o
    BY <1>2
  <2> QED
    BY <1>4, <2>1
<1>7. ReadLength(g, o) = Size[m]
  BY <1>2, <1>6 DEF ReadLength
<1>8. NextOffset(g, o) = o + RecordUnits(m)
  BY <1>2, <1>3, <1>7 DEF NextOffset
<1>9. HashMatches(g, o)
  BY <1>2, <1>4, <1>6 DEF HashMatches
<1> QED
  BY <1>2, <1>3, <1>5, <1>8, <1>9 DEF Whole

\* ... so two files with the same record area have the same row.
LEMMA LaidSame ==
    ASSUME NEW f \in Content, NEW g \in Content, g.record_size = f.record_size,
           \A o \in 0..(f.record_size - 1) : g.body[o] = f.body[o],
           NEW r, Laid(f, r)
    PROVE  Laid(g, r) /\ \A i \in 1..Len(r) : g.body[r[i]] = f.body[r[i]]
<1>1. r \in Seq(Whole(f)) /\ f.record_size \in Nat
  BY ContentOps DEF Laid
<1>2. \A o \in Whole(f) :
         o \in Whole(g) /\ NextOffset(g, o) = NextOffset(f, o) /\ g.body[o] = f.body[o]
  BY <1>1, WholeSame
<1>3. r \in Seq(Whole(g))
  BY <1>1, <1>2
<1>4. \A i \in 1..Len(r) : r[i] \in Whole(f)
  BY <1>1
<1>5. \A i : Place(g, r, i) = Place(f, r, i)
  BY DEF Place
<1> QED
  BY <1>2, <1>3, <1>4, <1>5 DEF Laid

\* An empty record area is an empty row.
LEMMA LaidEmpty ==
    ASSUME NEW f \in Content, f.record_size = 0
    PROVE  Laid(f, <<>>) /\ \A r : Laid(f, r) => Len(r) = 0
<1>1. Laid(f, <<>>)
  BY DEF Laid, Place
<1>2. ASSUME NEW r, Laid(f, r) PROVE Len(r) = 0
  <2>1. Len(r) <= 0 /\ Len(r) \in Nat
    BY <1>2, LaidLength DEF Laid
  <2> QED
    BY <2>1
<1> QED
  BY <1>1, <1>2

\* The row is empty at first.
LEMMA LaidBegins == Init => LaidInv
<1> SUFFICES ASSUME Init PROVE RowOf(<<>>)
  BY DEF LaidInv
<1>1. file \in Content /\ file.record_size = 0 /\ file.record_count = 0
  BY TypeBegins DEF TypeOK, Init, NoFile
<1> QED
  BY <1>1, LaidEmpty DEF Init, RowOf, Owed

\* A step that leaves the record area as it is leaves the row.
LEMMA RowSame ==
    ASSUME TypeOK, TypeOK', NEW r, RowOf(r), file'.record_size = file.record_size,
           \A o \in 0..(file.record_size - 1) : file'.body[o] = file.body[o],
           Owed' \subseteq Owed,
           torn' = "no" /\ pc' # "reset_size" =>
              /\ \/ torn = "no" /\ pc # "reset_size"
                 \/ file.record_size = 0
              /\ \/ file'.record_count = file.record_count /\ pc' # "push_size"
                 \/ file'.record_count = file.record_count + 1 /\ pc # "push_size"
    PROVE  LaidInv'
<1>1. file \in Content /\ file' \in Content
  BY DEF TypeOK
<1>2. Laid(file, r)
  BY DEF RowOf
<1>3. Laid(file', r) /\ \A i \in 1..Len(r) : file'.body[r[i]] = file.body[r[i]]
  BY <1>1, <1>2, LaidSame
<1>4. \A m \in Owed' : \E i \in 1..Len(r) : file'.body[r[i]][1] = m
  BY <1>3 DEF RowOf
<1>5. ASSUME torn' = "no", pc' # "reset_size"
      PROVE  Len(r) + (IF pc' = "push_size" THEN 1 ELSE 0) <= file'.record_count
  <2>1. Len(r) \in Nat /\ file.record_count \in Nat
    BY <1>1, <1>2, ContentOps DEF Laid
  <2>2. Len(r) <= file.record_count /\ (pc = "push_size" => Len(r) + 1 <= file.record_count
                                                             \/ file.record_size = 0)
    <3>1. CASE torn = "no" /\ pc # "reset_size"
      BY <2>1, <3>1 DEF RowOf
    <3>2. CASE file.record_size = 0
      <4>1. Len(r) = 0
        BY <1>1, <1>2, <3>2, LaidEmpty
      <4> QED
        BY <2>1, <3>2, <4>1
    <3> QED
      BY <1>5, <3>1, <3>2
  <2> QED
    BY <1>5, <2>1, <2>2
<1> QED
  BY <1>3, <1>4, <1>5 DEF LaidInv, RowOf

\* An empty record area owes nothing.
LEMMA RowEmpty ==
    ASSUME TypeOK', file'.record_size = 0, kept' = {}, pc' \notin {"push_commit", "push_size"}
    PROVE  LaidInv'
<1>1. file' \in Content /\ file'.record_count \in Nat
  BY ContentOps DEF TypeOK
<1>2. Laid(file', <<>>) /\ Owed' = {}
  BY <1>1, LaidEmpty DEF Owed
<1> QED
  BY <1>1, <1>2 DEF LaidInv, RowOf

\* The record of m is at offset o.
RecordAt(f, o, m) == \A k \in 0..(RecordUnits(m) - 1) : f.body[o + k] = <<m, k>>

\* PushSize puts the record that was written at the end of the row.
LEMMA LaidAppend ==
    ASSUME NEW f \in Content, NEW g \in Content, NEW r, Laid(f, r), NEW m \in Messages,
           g.body = f.body, g.record_size = f.record_size + RecordUnits(m),
           RecordAt(f, f.record_size, m)
    PROVE  \E q : /\ Laid(g, q) /\ Len(q) = Len(r) + 1 /\ Len(r) \in Nat
                  /\ \A i \in 1..Len(r) : q[i] = r[i]
                  /\ g.body[q[Len(r) + 1]][1] = m
<1>1. /\ f.record_size \in Nat /\ g.record_size \in Nat /\ RecordUnits(m) \in Nat \ {0}
      /\ RecordUnits(m) = RecordHeader + Size[m] /\ m # NoMessage /\ Size[m] \in Nat
  BY ContentOps, Sizes DEF RecordUnits
<1>2. r \in Seq(Whole(f)) /\ Len(r) \in Nat
  BY DEF Laid
<1>3. PICK e : e = f.record_size
  OBVIOUS
<1>4. e \in Whole(g) /\ NextOffset(g, e) = g.record_size /\ g.body[e] = <<m, 0>>
  <2>1. g.body[e] = <<m, 0>>
    <3>1. 0 \in 0..(RecordUnits(m) - 1) /\ e + 0 = e
      BY <1>1, <1>3
    <3> QED
      BY <1>3, <3>1 DEF RecordAt
  <2>2. ReadLength(g, e) = Size[m]
    BY <1>1, <2>1 DEF ReadLength
  <2>3. NextOffset(g, e) = g.record_size /\ NextOffset(g, e) # e
    BY <1>1, <1>3, <2>2 DEF NextOffset
  <2>4. HashMatches(g, e)
    BY <1>1, <1>3, <2>1 DEF HashMatches, RecordAt
  <2> QED
    BY <1>1, <1>3, <2>1, <2>3, <2>4 DEF Whole
<1>5. \A o \in Whole(f) : o \in Whole(g) /\ NextOffset(g, o) = NextOffset(f, o)
  BY <1>1, WholeSame
<1>6. PICK q : q = Append(r, e)
  OBVIOUS
<1>7. /\ q \in Seq(Whole(g)) /\ Len(q) = Len(r) + 1 /\ q[Len(r) + 1] = e
      /\ \A i \in 1..Len(r) : q[i] = r[i]
  <2>1. r \in Seq(Whole(g))
    BY <1>2, <1>5
  <2> QED
    BY <1>2, <1>4, <1>6, <2>1
<1>8. \A i \in 1..(Len(r) + 1) : Place(g, q, i) = Place(f, r, i)
  BY <1>2, <1>3, <1>7 DEF Place
<1>9. Place(g, q, Len(r) + 2) = g.record_size
  BY <1>2, <1>7 DEF Place
<1>10. ASSUME NEW i \in 1..Len(q) PROVE NextOffset(g, q[i]) = Place(g, q, i + 1)
  <2>1. CASE i = Len(r) + 1
    BY <1>2, <1>4, <1>7, <1>9, <2>1
  <2>2. CASE i # Len(r) + 1
    <3>1. i \in 1..Len(r) /\ i + 1 \in 1..(Len(r) + 1)
      BY <1>2, <1>7, <2>2
    <3>2. r[i] \in Whole(f) /\ NextOffset(f, r[i]) = Place(f, r, i + 1)
      BY <1>2, <3>1 DEF Laid
    <3> QED
      BY <1>5, <1>7, <1>8, <3>1, <3>2
  <2> QED
    BY <2>1, <2>2
<1>11. Place(g, q, 1) = 0
  BY <1>2, <1>8 DEF Laid
<1>12. Laid(g, q)
  BY <1>7, <1>10, <1>11 DEF Laid
<1>13. g.body[q[Len(r) + 1]][1] = m
  BY <1>4, <1>7
<1> QED
  BY <1>2, <1>7, <1>12, <1>13

\* Reset keeps the row up to the store of record_size, and leaves none.
LEMMA LaidReset ==
    ASSUME TypeOK, TypeOK', HeaderInv, GoodInv, LaidInv, Reset
    PROVE  LaidInv'
<1> SUFFICES ASSUME torn' # "power" PROVE LaidInv'
  BY DEF LaidInv
<1>1. CASE pc \in {"reset_magic", "reset_count"}
  <2>1. /\ torn' = torn /\ kept' = kept /\ message' = message
        /\ file'.record_size = file.record_size /\ file'.body = file.body
    BY <1>1, ResetStores
  <2>2. PICK r : RowOf(r)
    BY <2>1 DEF LaidInv
  <2>3. pc' \in {"reset_count", "reset_size"}
    BY <1>1, ResetOrder
  <2>4. pc' = "reset_count" => file'.record_count = file.record_count
    BY <1>1, <2>3, ResetStores, ResetOrder
  <2>5. Owed' \subseteq Owed
    BY <2>1, <2>3 DEF Owed
  <2> QED
    BY <1>1, <2>1, <2>2, <2>3, <2>4, <2>5, RowSame
<1>2. CASE pc \notin {"reset_magic", "reset_count"}
  <2>1. file'.record_size = 0
    BY <1>2, ResetStores, ResetOrder DEF HeaderInv, Emptied, Saved
  <2>2. kept' = {}
    <3>1. CASE pc = "save_commit"
      BY <3>1, ResetStores
    <3>2. CASE pc # "save_commit"
      <4>1. torn # "power" /\ pc \in Resetting /\ kept' = kept
        BY <3>2, ResetStores, ResetOrder DEF Resetting
      <4> QED
        BY <4>1 DEF GoodInv
    <3> QED
      BY <3>1, <3>2
  <2>3. pc' \notin {"push_commit", "push_size"}
    BY ResetOrder
  <2> QED
    BY <2>1, <2>2, <2>3, RowEmpty
<1> QED
  BY <1>1, <1>2

\* Push leaves the records that are there alone.
LEMMA PushKeeps ==
    ASSUME TypeOK, HeaderInv, PushInv, PushStep, message \in Messages
    PROVE  \A o \in 0..(file.record_size - 1) : file'.body[o] = file.body[o]
<1>1. CASE pc' = "push_count"
  <2>1. pc = "push_write" /\ file \in Content
    BY <1>1, PushOrder DEF TypeOK
  <2>2. NextSize(file, message) <= MaxCache /\ file.config_size = ConfigSize
    BY <2>1 DEF PushInv, HeaderInv, CheckValid, Pushing
  <2>3. file.record_size + RecordUnits(message) <= Area
    BY <2>1, <2>2, RoomOps
  <2> QED
    BY <1>1, <2>3, PushStores, WrittenOps
<1>2. CASE pc' # "push_count"
  BY <1>2, PushStores
<1> QED
  BY <1>1, <1>2

\* Push adds its record to the row in one store, and has counted it before.
LEMMA LaidPush ==
    ASSUME TypeOK, TypeOK', HeaderInv, PushInv, LaidInv, PushStep
    PROVE  LaidInv'
<1> SUFFICES ASSUME torn' # "power" PROVE LaidInv'
  BY DEF LaidInv
<1>0. file \in Content /\ file' \in Content /\ file.record_size \in Nat
  BY ContentOps DEF TypeOK
<1>1. /\ torn' = torn /\ message' = message /\ torn # "power" /\ pc \in Pushing
      /\ pc # "reset_size" /\ pc' # "reset_size"
  BY PushStores, PushOrder DEF Pushing
<1>2. PICK r : RowOf(r)
  BY <1>1 DEF LaidInv
<1>3. message \in Messages
  BY <1>1 DEF PushInv, TypeOK
<1>4. CASE pc = "push_size"
  <2>1. /\ pc' = "push_commit" /\ file'.body = file.body /\ kept' = kept
        /\ file'.record_size = file.record_size + RecordUnits(message)
        /\ file'.record_count = file.record_count
    BY <1>4, PushStores, PushOrder
  <2>2. RecordAt(file, file.record_size, message)
    BY <1>4 DEF PushInv, RecordAt
  <2>3. Laid(file, r)
    BY <1>2 DEF RowOf
  <2>4. PICK q : /\ Laid(file', q) /\ Len(q) = Len(r) + 1 /\ Len(r) \in Nat
                 /\ \A i \in 1..Len(r) : q[i] = r[i]
                 /\ file'.body[q[Len(r) + 1]][1] = message
    BY <1>0, <1>3, <2>1, <2>2, <2>3, LaidAppend
  <2>5. ASSUME NEW m \in Owed' PROVE \E i \in 1..Len(q) : file'.body[q[i]][1] = m
    <3>1. m = message \/ m \in kept
      BY <1>1, <2>1, <2>5 DEF Owed
    <3>2. CASE m = message
      <4>1. Len(r) + 1 \in 1..Len(q)
        BY <2>4
      <4> QED
        BY <2>4, <3>2, <4>1
    <3>3. CASE m \in kept
      <4>1. PICK i \in 1..Len(r) : file.body[r[i]][1] = m
        BY <1>2, <3>3 DEF RowOf, Owed
      <4>2. i \in 1..Len(q) /\ q[i] = r[i]
        BY <2>4, <4>1
      <4> QED
        BY <2>1, <4>1, <4>2
    <3> QED
      BY <3>1, <3>2, <3>3
  <2>6. torn = "no" => Len(q) <= file'.record_count
    BY <1>2, <1>4, <2>1, <2>4 DEF RowOf
  <2> QED
    BY <1>1, <2>1, <2>4, <2>5, <2>6 DEF LaidInv, RowOf
<1>5. CASE pc # "push_size"
  <2>1. pc' # "push_commit" /\ file'.record_size = file.record_size
    BY <1>5, PushStores, PushOrder
  <2>2. \A o \in 0..(file.record_size - 1) : file'.body[o] = file.body[o]
    BY <1>0, <1>3, PushKeeps
  <2>3. Owed' \subseteq Owed
    BY <1>1, <2>1, PushStores DEF Owed
  <2>4. \/ file'.record_count = file.record_count /\ pc' # "push_size"
        \/ file'.record_count = file.record_count + 1
    BY PushStores
  <2> QED
    BY <1>1, <1>2, <1>5, <2>1, <2>2, <2>3, <2>4, RowSame
<1> QED
  BY <1>4, <1>5

\* A power loss outside an operation leaves the row.
LEMMA LaidPower ==
    ASSUME TypeOK, TypeOK', HeaderInv, GoodInv, LaidInv, PowerLoss
    PROVE  LaidInv'
<1> SUFFICES ASSUME torn' # "power" PROVE LaidInv'
  BY DEF LaidInv
<1>1. /\ ~loose /\ pc \notin Resetting \cup Pushing /\ torn # "power" /\ torn' = torn
      /\ pc' = "closed" /\ kept' = kept
  BY PowerStores
<1>2. file \in Content /\ file.record_size \in Nat
  BY ContentOps DEF TypeOK
<1>3. CASE file.hashed
  <2>1. Synced /\ CheckValid(file) /\ file.config_size = ConfigSize
    BY <1>1, <1>3 DEF GoodInv, HeaderInv, Pushing
  <2>2. file'.record_size = file.record_size /\ file'.record_count = file.record_count
    BY <2>1, PowerStores DEF Synced
  <2>3. Used(file) <= file'.size
    <3>1. file'.size = file.size \/ file'.size = disk.size
      BY PowerStores
    <3> QED
      BY <2>1, <3>1 DEF Synced, CheckValid
  <2>4. ASSUME NEW o \in 0..(file.record_size - 1) PROVE file'.body[o] = file.body[o]
    <3>1. o \in Offsets /\ disk.body = file.body
      BY <1>2, <2>1, ContentOps, Sizes DEF Synced
    <3>2. HeaderSize + ConfigSize + o < file'.size
      <4>1. file'.size \in Nat
        BY ContentOps DEF TypeOK
      <4> QED
        BY <1>2, <2>1, <2>3, <4>1 DEF Used
    <3> QED
      BY <3>1, <3>2, PowerStores
  <2>5. PICK r : RowOf(r)
    BY <1>1 DEF LaidInv
  <2>6. Owed' \subseteq Owed
    BY <1>1 DEF Owed
  <2> QED
    BY <1>1, <2>2, <2>4, <2>5, <2>6, RowSame DEF Resetting
<1>4. CASE ~file.hashed
  <2>1. file.record_size = 0 /\ disk.record_size = 0 /\ kept = {}
    BY <1>1, <1>4 DEF GoodInv
  <2>2. file'.record_size = 0
    BY <2>1, PowerStores
  <2> QED
    BY <1>1, <2>1, <2>2, RowEmpty
<1> QED
  BY <1>3, <1>4

\* Every step keeps the record area a row.
LEMMA LaidNext ==
    ASSUME TypeOK, TypeOK', HeaderInv, PushInv, GoodInv, LaidInv, [Next]_vars
    PROVE  LaidInv'
<1> SUFFICES ASSUME torn' # "power", ~Reset, ~PushStep, ~PowerLoss PROVE LaidInv'
  BY LaidReset, LaidPush, LaidPower DEF LaidInv
<1>1. /\ torn # "power" /\ file'.record_size = file.record_size /\ file'.body = file.body
      /\ file'.record_count = file.record_count
  <2>1. ASSUME NEW with \in BOOLEAN, Open(with)
        PROVE  /\ torn # "power" /\ file'.record_size = file.record_size
               /\ file'.body = file.body /\ file'.record_count = file.record_count
    BY <2>1, OpenStores
  <2>2. (\E with \in BOOLEAN : Open(with)) \/ (file' = file /\ torn # "power")
    BY DEF Next, LoadConfig, Push, PushRefused, Clear, Kill, vars, history
  <2> QED
    BY <2>1, <2>2
<1>2. PICK r : RowOf(r)
  BY <1>1 DEF LaidInv
<1>3. Owed' \subseteq Owed
  <2>1. UNCHANGED <<pc, message, kept>> \/ (pc' # "push_commit" /\ kept' \subseteq kept)
    BY DEF Next, Open, LoadConfig, Push, PushRefused, Clear, Kill, Step, vars, history
  <2> QED
    BY <2>1 DEF Owed
<1>4. ASSUME torn' = "no", pc' # "reset_size"
      PROVE  (torn = "no" /\ pc # "reset_size") \/ file.record_size = 0
  <2>1. CASE Kill
    <3>1. torn' = IF pc = "reset_size" /\ torn = "no" /\ file.record_size > 0 THEN "clear"
                                                                             ELSE torn
      BY <2>1 DEF Kill
    <3>2. file.record_size \in Nat
      BY ContentOps DEF TypeOK
    <3> QED
      BY <1>4, <3>1, <3>2
  <2>2. CASE ~Kill
    BY <1>4, <2>2 DEF Next, Open, LoadConfig, Push, PushRefused, Clear, Step, vars, history
  <2> QED
    BY <2>1, <2>2
<1>5. pc' # "push_size" \/ UNCHANGED <<pc, torn>>
  BY DEF Next, Open, LoadConfig, Push, PushRefused, Clear, Kill, Step, vars, history
<1>6. CASE pc' = "push_size"
  <2>1. pc = "push_size" /\ torn' = torn
    BY <1>5, <1>6
  <2>2. Laid(file', r) /\ \A i \in 1..Len(r) : file'.body[r[i]] = file.body[r[i]]
    BY <1>1, <1>2, LaidSame DEF RowOf, TypeOK
  <2>3. \A m \in Owed' : \E i \in 1..Len(r) : file'.body[r[i]][1] = m
    BY <1>2, <1>3, <2>2 DEF RowOf
  <2>4. torn' = "no" => Len(r) + 1 <= file'.record_count
    BY <1>1, <1>2, <2>1 DEF RowOf
  <2> QED
    BY <1>6, <2>2, <2>3, <2>4 DEF LaidInv, RowOf
<1>7. CASE pc' # "push_size"
  BY <1>1, <1>2, <1>3, <1>4, <1>7, RowSame
<1> QED
  BY <1>6, <1>7

\* The row is there always.
LEMMA LaidInvariant == Spec => [](DiskInv /\ LaidInv)
<1>1. Init => LaidInv
  BY LaidBegins
<1>2. DiskInv /\ DiskInv' /\ LaidInv /\ [Next]_vars => LaidInv'
  BY LaidNext DEF DiskInv
<1> QED
  BY <1>1, <1>2, DiskInvariant, PTL DEF Spec

\* Every message for which Push answered true is loaded again until Clear, through any
\* growing, shrinking, reopening and end of the process.
THEOREM KeptAreLoaded == Spec => []KeptIsLoaded
<1>1. DiskInv /\ LaidInv => KeptIsLoaded
  <2> SUFFICES ASSUME DiskInv, LaidInv, torn = "no", NEW m \in kept
               PROVE  m \in MessagesOf(Load(file))
    BY DEF KeptIsLoaded
  <2>1. file.hashed /\ CheckValid(file) /\ pc \notin Resetting
    BY DEF DiskInv, GoodInv
  <2>2. PICK r : RowOf(r)
    BY DEF LaidInv
  <2>3. file \in Content /\ file.record_count \in Nat /\ file.size \in Nat /\ Used(file) \in Nat
    BY ContentOps DEF DiskInv, TypeOK
  <2>4. r \in Seq(Whole(file)) /\ Len(r) \in Nat /\ Len(r) <= file.record_count
    <3>1. r \in Seq(Whole(file)) /\ Len(r) \in Nat
      BY <2>2 DEF RowOf, Laid
    <3> QED
      BY <2>1, <2>2, <2>3, <3>1 DEF RowOf, Resetting
  <2>5. LoadRounds(file, file.record_count) = SubSeq(r, 1, AtMost(file.record_count, Len(r)))
    BY <2>2, <2>3, LaidRounds DEF RowOf
  <2>6. AtMost(file.record_count, Len(r)) = Len(r)
    BY <2>3, <2>4 DEF AtMost
  <2>7. SubSeq(r, 1, Len(r)) = r
    BY <2>4
  <2>8. LoadOffsets(file) = r
    BY <2>1, <2>3, <2>5, <2>6, <2>7 DEF LoadOffsets, CheckValid
  <2>9. PICK i \in 1..Len(r) : file.body[r[i]][1] = m
    BY <2>2 DEF RowOf, Owed
  <2>10. Load(file) = [j \in DOMAIN r |-> file.body[r[j]][1]] /\ i \in DOMAIN r
    BY <2>4, <2>8 DEF Load, MessagesAt
  <2> QED
    BY <2>9, <2>10 DEF MessagesOf
<1> QED
  BY <1>1, LaidInvariant, PTL

-----------------------------------------------------------------------------
(* The file as a record log.                                               *)

\* The messages of a row.
LEMMA MessagesAtOps ==
    ASSUME NEW f \in Content, NEW r \in Seq(Whole(f))
    PROVE  /\ MessagesAt(f, r) \in Seq(Messages) /\ Len(MessagesAt(f, r)) = Len(r)
           /\ \A i \in 1..Len(r) : MessagesAt(f, r)[i] = f.body[r[i]][1]
<1>1. DOMAIN r = 1..Len(r) /\ Len(r) \in Nat
  OBVIOUS
<1>2. \A i \in 1..Len(r) : f.body[r[i]][1] \in Messages
  BY <1>1, WholeOps
<1>3. MessagesAt(f, r) = [i \in 1..Len(r) |-> f.body[r[i]][1]]
  BY <1>1 DEF MessagesAt
<1> QED
  BY <1>1, <1>2, <1>3

\* The messages of the first records of a row.
LEMMA MessagesOfFirst ==
    ASSUME NEW f \in Content, NEW r \in Seq(Whole(f)), NEW k \in 0..Len(r)
    PROVE  MessagesAt(f, SubSeq(r, 1, k)) = SubSeq(MessagesAt(f, r), 1, k)
<1>1. PICK q : q = SubSeq(r, 1, k)
  OBVIOUS
<1>2. /\ q \in Seq(Whole(f)) /\ Len(q) = k /\ \A i \in 1..k : q[i] = r[i]
      /\ Len(r) \in Nat
  BY <1>1
<1>3. PICK a : a = MessagesAt(f, q)
  OBVIOUS
<1>4. PICK b : b = MessagesAt(f, r)
  OBVIOUS
<1>5. a \in Seq(Messages) /\ Len(a) = k /\ \A i \in 1..k : a[i] = f.body[q[i]][1]
  BY <1>2, <1>3, MessagesAtOps
<1>6. b \in Seq(Messages) /\ Len(b) = Len(r) /\ \A i \in 1..Len(r) : b[i] = f.body[r[i]][1]
  BY <1>4, MessagesAtOps
<1>7. PICK c : c = SubSeq(b, 1, k)
  OBVIOUS
<1>8. c \in Seq(Messages) /\ Len(c) = k /\ \A i \in 1..k : c[i] = b[i]
  BY <1>2, <1>6, <1>7
<1>9. a = c
  <2>1. \A i \in 1..Len(a) : a[i] = c[i]
    <3> TAKE i \in 1..Len(a)
    <3>1. i \in 1..k /\ i \in 1..Len(r)
      BY <1>2, <1>5
    <3>2. q[i] = r[i] /\ a[i] = f.body[q[i]][1] /\ c[i] = b[i] /\ b[i] = f.body[r[i]][1]
      BY <1>2, <1>5, <1>6, <1>8, <3>1
    <3> QED
      BY <3>2
  <2> QED
    BY <1>5, <1>8, <2>1, SeqEqual
<1> QED
  BY <1>1, <1>3, <1>4, <1>7, <1>9

\* A file with records is one that has them all.
Fits(f) == Used(f) <= f.size \/ f.record_size = 0

\* The records of a file are those of its row, and Load returns the counted ones.
LEMMA RecordsAre ==
    ASSUME NEW f \in Content, NEW r, Laid(f, r), Fits(f)
    PROVE  /\ Records(f) = MessagesAt(f, r)
           /\ Load(f) = SubSeq(MessagesAt(f, r), 1, AtMost(f.record_count, Len(r)))
<1>1. /\ r \in Seq(Whole(f)) /\ Len(r) \in Nat /\ Len(r) <= f.record_size
      /\ f.record_size \in Nat /\ f.record_count \in Nat /\ f.size \in Nat /\ Used(f) \in Nat
  BY LaidLength, ContentOps DEF Laid
<1>2. CASE Used(f) <= f.size
  <2>1. LoadRounds(f, f.record_size) = SubSeq(r, 1, AtMost(f.record_size, Len(r)))
    BY <1>1, LaidRounds
  <2>2. AtMost(f.record_size, Len(r)) = Len(r) /\ SubSeq(r, 1, Len(r)) = r
    BY <1>1 DEF AtMost
  <2>3. Records(f) = MessagesAt(f, r)
    <3>1. LoadRounds(f, f.record_size) = r
      BY <2>1, <2>2
    <3>2. ~(Used(f) > f.size)
      BY <1>1, <1>2
    <3> QED
      BY <3>1, <3>2 DEF Records
  <2>4. LoadRounds(f, f.record_count) = SubSeq(r, 1, AtMost(f.record_count, Len(r)))
    BY <1>1, LaidRounds
  <2>5. AtMost(f.record_count, Len(r)) \in 0..Len(r)
    BY <1>1 DEF AtMost
  <2>6. Load(f) = MessagesAt(f, SubSeq(r, 1, AtMost(f.record_count, Len(r))))
    BY <1>1, <1>2, <2>4 DEF Load, LoadOffsets
  <2> QED
    BY <1>1, <2>3, <2>5, <2>6, MessagesOfFirst
<1>3. CASE ~(Used(f) <= f.size)
  <2>1. Used(f) > f.size /\ Len(r) = 0 /\ r = <<>>
    BY <1>1, <1>3 DEF Fits
  <2>2. MessagesAt(f, r) = <<>>
    BY <2>1 DEF MessagesAt
  <2>3. Records(f) = <<>>
    BY <2>1 DEF Records
  <2>4. Load(f) = MessagesAt(f, <<>>)
    BY <2>1 DEF Load, LoadOffsets
  <2>5. AtMost(f.record_count, Len(r)) = 0 /\ SubSeq(MessagesAt(f, r), 1, 0) = <<>>
    BY <1>1, <2>1, <2>2 DEF AtMost
  <2> QED
    BY <2>1, <2>2, <2>3, <2>4, <2>5
<1> QED
  BY <1>2, <1>3

\* The same record area, the same records.
LEMMA RecordsSame ==
    ASSUME NEW f \in Content, NEW g \in Content, NEW r, Laid(f, r), Fits(f), Fits(g),
           g.record_size = f.record_size,
           \A o \in 0..(f.record_size - 1) : g.body[o] = f.body[o]
    PROVE  Records(g) = Records(f)
<1>1. Laid(g, r) /\ \A i \in 1..Len(r) : g.body[r[i]] = f.body[r[i]]
  BY LaidSame
<1>2. Records(f) = MessagesAt(f, r) /\ Records(g) = MessagesAt(g, r)
  BY <1>1, RecordsAre
<1>3. DOMAIN r = 1..Len(r)
  BY DEF Laid
<1>4. MessagesAt(f, r) = MessagesAt(g, r)
  BY <1>1, <1>3 DEF MessagesAt
<1> QED
  BY <1>2, <1>4

\* No record area, no record.
LEMMA RecordsEmpty ==
    ASSUME NEW f \in Content, f.record_size = 0
    PROVE  Records(f) = <<>>
<1>1. Laid(f, <<>>) /\ Fits(f)
  BY LaidEmpty DEF Fits
<1>2. Records(f) = MessagesAt(f, <<>>)
  BY <1>1, RecordsAre
<1>3. MessagesAt(f, <<>>) = <<>>
  BY DEF MessagesAt
<1> QED
  BY <1>2, <1>3

\* The record that PushSize adds is the last.
LEMMA RecordsAppend ==
    ASSUME NEW f \in Content, NEW g \in Content, NEW r, Laid(f, r), NEW m \in Messages,
           g.body = f.body, g.record_size = f.record_size + RecordUnits(m),
           RecordAt(f, f.record_size, m),
           Fits(f), Fits(g)
    PROVE  Records(g) = Append(Records(f), m)
<1>2. PICK q : /\ Laid(g, q) /\ Len(q) = Len(r) + 1 /\ Len(r) \in Nat
               /\ \A i \in 1..Len(r) : q[i] = r[i]
               /\ g.body[q[Len(r) + 1]][1] = m
  BY LaidAppend
<1>3. PICK a : a = Records(f)
  OBVIOUS
<1>4. PICK b : b = Records(g)
  OBVIOUS
<1>5. /\ a \in Seq(Messages) /\ Len(a) = Len(r)
      /\ \A i \in 1..Len(r) : a[i] = f.body[r[i]][1]
  <2>1. r \in Seq(Whole(f)) /\ a = MessagesAt(f, r)
    BY <1>3, RecordsAre DEF Laid
  <2> QED
    BY <2>1, MessagesAtOps
<1>6. /\ b \in Seq(Messages) /\ Len(b) = Len(q)
      /\ \A i \in 1..Len(q) : b[i] = g.body[q[i]][1]
  <2>1. q \in Seq(Whole(g)) /\ b = MessagesAt(g, q)
    BY <1>2, <1>4, RecordsAre DEF Laid
  <2> QED
    BY <2>1, MessagesAtOps
<1>7. PICK c : c = Append(a, m)
  OBVIOUS
<1>8. /\ c \in Seq(Messages) /\ Len(c) = Len(r) + 1 /\ c[Len(r) + 1] = m
      /\ \A i \in 1..Len(r) : c[i] = a[i]
  BY <1>2, <1>5, <1>7
<1>9. \A i \in 1..Len(b) : b[i] = c[i]
  <2> TAKE i \in 1..Len(b)
  <2>1. CASE i = Len(r) + 1
    BY <1>2, <1>6, <1>8, <2>1
  <2>2. CASE i # Len(r) + 1
    <3>1. i \in 1..Len(r) /\ i \in 1..Len(q)
      BY <1>2, <1>6, <2>2
    <3>2. b[i] = g.body[q[i]][1] /\ q[i] = r[i] /\ a[i] = f.body[r[i]][1] /\ c[i] = a[i]
      BY <1>2, <1>5, <1>6, <1>8, <3>1
    <3> QED
      BY <3>2
  <2> QED
    BY <2>1, <2>2
<1>10. b = c
  BY <1>2, <1>6, <1>8, <1>9, SeqEqual
<1> QED
  BY <1>3, <1>4, <1>7, <1>10

\* The state of a run in which the power holds.
PowerHeld == torn # "power"
LogInv == DiskInv /\ LaidInv /\ PowerHeld

\* While the power holds the file has all of its records.
LEMMA FileFits == LogInv => Fits(file)
BY DEF LogInv, PowerHeld, DiskInv, GoodInv, Fits, CheckValid

\* At first the log is empty and closed.
LEMMA LogBegins == Init => Log!Init
<1> SUFFICES ASSUME Init PROVE Log!Init
  OBVIOUS
<1>1. file \in Content /\ file.record_size = 0 /\ file.record_count = 0 /\ pc = "closed"
  BY TypeBegins DEF TypeOK, Init, NoFile
<1>2. Records(file) = <<>>
  BY <1>1, RecordsEmpty
<1> QED
  BY <1>1, <1>2 DEF Log!Init, Log!EmptyCache, LogCache, LogStep

\* A step that leaves the record area and the count as they are is none of the log.
LEMMA LogSame ==
    ASSUME LogInv, TypeOK', Fits(file'), file'.record_size = file.record_size,
           \A o \in 0..(file.record_size - 1) : file'.body[o] = file.body[o],
           file'.record_count = file.record_count
    PROVE  LogCache' = LogCache
<1>1. PICK r : Laid(file, r)
  BY DEF LogInv, PowerHeld, LaidInv, RowOf
<1>2. file \in Content /\ file' \in Content /\ Fits(file)
  BY FileFits DEF LogInv, PowerHeld, DiskInv, TypeOK
<1>3. Records(file') = Records(file)
  BY <1>1, <1>2, RecordsSame
<1> QED
  BY <1>3 DEF LogCache

\* The two stores of Reset are those of the log, its other steps none.
LEMMA LogReset ==
    ASSUME LogInv, TypeOK', Fits(file'), Reset
    PROVE  [Log!Next]_Log!vars
<1>0. file \in Content /\ file' \in Content /\ HeaderInv /\ TypeOK
  BY DEF LogInv, PowerHeld, DiskInv, TypeOK
<1>1. CASE pc = "reset_magic"
  <2>1. LogCache' = LogCache
    BY <1>0, <1>1, ResetStores, LogSame
  <2>2. LogStep' = LogStep
    BY <1>1, ResetOrder DEF LogStep
  <2> QED
    BY <2>1, <2>2 DEF Log!vars
<1>2. CASE pc = "reset_count"
  <2>1. /\ file'.record_size = file.record_size /\ file'.body = file.body
        /\ file'.record_count = 0 /\ pc' = "reset_size"
    BY <1>0, <1>2, ResetStores, ResetOrder
  <2>2. PICK r : Laid(file, r)
    BY DEF LogInv, PowerHeld, LaidInv, RowOf
  <2>3. Records(file') = Records(file)
    BY <1>0, <2>1, <2>2, FileFits, RecordsSame
  <2>4. LogCache' = Log!ZeroCount(LogCache)
    BY <2>1, <2>3 DEF LogCache, Log!ZeroCount
  <2>5. LogStep = "idle" /\ LogStep' = "zeroed"
    BY <1>2, <2>1 DEF LogStep
  <2> QED
    BY <2>4, <2>5 DEF Log!Next, Log!ClearCount
<1>3. CASE pc = "reset_size"
  <2>1. file'.record_size = 0 /\ file'.record_count = file.record_count /\ pc' = "reset_commit"
    BY <1>0, <1>3, ResetStores, ResetOrder
  <2>2. Records(file') = <<>>
    BY <1>0, <2>1, RecordsEmpty
  <2>3. LogCache' = Log!ZeroSize(LogCache)
    BY <2>1, <2>2 DEF LogCache, Log!ZeroSize
  <2>4. LogStep = "zeroed" /\ LogStep' = "idle"
    BY <1>3, <2>1 DEF LogStep
  <2> QED
    BY <2>3, <2>4 DEF Log!Next, Log!ClearSize
<1>4. CASE pc \notin {"reset_magic", "reset_count", "reset_size"}
  <2>1. file.record_size = 0
    BY <1>0, <1>4, ResetOrder DEF HeaderInv, Emptied, Saved
  <2>2. file'.record_size = 0 /\ file'.record_count = file.record_count
    BY <1>0, <1>4, <2>1, ResetStores
  <2>3. LogCache' = LogCache
    BY <1>0, <2>1, <2>2, RecordsEmpty DEF LogCache
  <2>4. LogStep' = LogStep \/ LogStep' = "closed"
    BY <1>4, ResetOrder DEF LogStep
  <2> QED
    BY <2>3, <2>4 DEF Log!Next, Log!End, Log!vars
<1> QED
  BY <1>1, <1>2, <1>3, <1>4

\* The two stores of Push are those of the log, its other steps none.
LEMMA LogPush ==
    ASSUME LogInv, TypeOK', Fits(file'), PushStep
    PROVE  [Log!Next]_Log!vars
<1>0. /\ file \in Content /\ file' \in Content /\ HeaderInv /\ PushInv /\ TypeOK
      /\ file.record_size \in Nat /\ Fits(file)
  BY FileFits, ContentOps DEF LogInv, PowerHeld, DiskInv, TypeOK
<1>1. pc \in Pushing /\ message \in Messages
  BY <1>0, PushOrder DEF PushInv, TypeOK, Pushing
<1>2. PICK r : Laid(file, r)
  BY DEF LogInv, PowerHeld, LaidInv, RowOf
<1>3. CASE pc = "push_size"
  <2>1. /\ pc' = "push_commit" /\ file'.body = file.body
        /\ file'.record_size = file.record_size + RecordUnits(message)
        /\ file'.record_count = file.record_count
    BY <1>0, <1>3, PushStores, PushOrder
  <2>2. RecordAt(file, file.record_size, message)
    BY <1>0, <1>3 DEF PushInv, RecordAt
  <2>3. Records(file') = Append(Records(file), message)
    BY <1>0, <1>1, <1>2, <2>1, <2>2, RecordsAppend
  <2>4. LogCache' = Log!Recorded(LogCache, message)
    <3>1. PICK a : a = Records(file)
      OBVIOUS
    <3>2. PICK b : b = Append(a, message)
      OBVIOUS
    <3>3. PICK n : n = file.record_count
      OBVIOUS
    <3>4. LogCache = [recs |-> a, count |-> n] /\ LogCache' = [recs |-> b, count |-> n]
      BY <2>1, <2>3, <3>1, <3>2, <3>3 DEF LogCache
    <3>5. Log!Recorded(LogCache, message) = [LogCache EXCEPT !.recs = b]
      BY <3>2, <3>4 DEF Log!Recorded
    <3> QED
      BY <3>4, <3>5
  <2>5. LogStep = "counted" /\ LogStep' = "idle"
    BY <1>3, <2>1 DEF LogStep
  <2> QED
    BY <1>1, <2>4, <2>5 DEF Log!Next, Log!PushRecords
<1>4. CASE pc # "push_size"
  <2>1. pc' # "push_commit" /\ file'.record_size = file.record_size
    BY <1>0, <1>4, PushStores, PushOrder
  <2>2. \A o \in 0..(file.record_size - 1) : file'.body[o] = file.body[o]
    BY <1>0, <1>1, PushKeeps
  <2>3. CASE pc = "push_count"
    <3>1. pc' = "push_size" /\ file'.record_count = file.record_count + 1
      BY <1>0, <2>3, PushStores, PushOrder
    <3>2. Records(file') = Records(file)
      BY <1>0, <1>2, <2>1, <2>2, RecordsSame
    <3>3. LogCache' = Log!Counted(LogCache)
      BY <3>1, <3>2 DEF LogCache, Log!Counted
    <3>4. LogStep = "idle" /\ LogStep' = "counted"
      BY <2>3, <3>1 DEF LogStep
    <3> QED
      BY <3>3, <3>4 DEF Log!Next, Log!PushCounts
  <2>4. CASE pc # "push_count"
    <3>1. file'.record_count = file.record_count
      BY <1>0, <2>4, PushStores, PushOrder
    <3>2. LogCache' = LogCache
      BY <2>1, <2>2, <3>1, LogSame
    <3>3. LogStep' = LogStep \/ LogStep' = "closed"
      BY <1>4, <2>4, PushOrder DEF LogStep
    <3> QED
      BY <3>2, <3>3 DEF Log!Next, Log!End, Log!vars
  <2> QED
    BY <2>3, <2>4
<1> QED
  BY <1>3, <1>4

\* Every step is one of the log or none.
LEMMA LogNext ==
    ASSUME LogInv, TypeOK', Fits(file'), ~PowerLoss, [Next]_vars
    PROVE  [Log!Next]_Log!vars
<1> SUFFICES ASSUME ~Reset, ~PushStep PROVE [Log!Next]_Log!vars
  BY LogReset, LogPush
<1>0. TypeOK
  BY DEF LogInv, PowerHeld, DiskInv
<1>1. CASE \E with \in BOOLEAN : Open(with)
  <2>1. PICK with \in BOOLEAN : Open(with)
    BY <1>1
  <2>2. LogCache' = LogCache
    BY <1>0, <2>1, OpenStores, LogSame
  <2>3. LogStep = "closed" /\ LogStep' = "idle"
    BY <1>0, <2>1, OpenStores DEF LogStep
  <2> QED
    BY <2>2, <2>3 DEF Log!Next, Log!Open
<1>2. CASE ~\E with \in BOOLEAN : Open(with)
  <2>1. file' = file
    BY <1>2 DEF Next, LoadConfig, Push, PushRefused, Clear, Kill, vars, history
  <2>2. LogCache' = LogCache
    BY <2>1, LogSame
  <2>3. LogStep' = LogStep \/ LogStep' = "closed"
    BY <1>2 DEF Next, LoadConfig, Push, PushRefused, Clear, Kill, Step, vars, history, LogStep
  <2> QED
    BY <2>2, <2>3 DEF Log!Next, Log!End, Log!vars
<1> QED
  BY <1>1, <1>2

\* Load returns what the record log loads.
LEMMA LoadsLog == LogInv => Load(file) = Loaded(LogCache)
<1> SUFFICES ASSUME LogInv PROVE Load(file) = Loaded(LogCache)
  OBVIOUS
<1>1. PICK r : Laid(file, r)
  BY DEF LogInv, PowerHeld, LaidInv, RowOf
<1>2. file \in Content /\ Fits(file)
  BY FileFits DEF LogInv, PowerHeld, DiskInv, TypeOK
<1>3. PICK a : a = MessagesAt(file, r)
  OBVIOUS
<1>4. Records(file) = a /\ Load(file) = SubSeq(a, 1, AtMost(file.record_count, Len(r)))
  BY <1>1, <1>2, <1>3, RecordsAre
<1>5. Len(a) = Len(r)
  BY <1>1, <1>2, <1>3, MessagesAtOps DEF Laid
<1> QED
  BY <1>4, <1>5 DEF Loaded, LogCache, AtMost

\* As long as the power holds, the file is a record log: Push and Clear take effect at two
\* stores each, no other step touches a record, and Load returns what the log loads.
THEOREM ImplementsRecordLog ==
    ASSUME PowerFails = FALSE
    PROVE  Spec => IsRecordLog
<1>1. ~PowerLoss
  BY DEF PowerLoss
<1>2. Init => PowerHeld
  BY DEF Init, PowerHeld
<1>3. DiskInv /\ PowerHeld /\ [Next]_vars => PowerHeld'
  <2> SUFFICES ASSUME DiskInv, torn # "power", [Next]_vars PROVE torn' # "power"
    BY DEF PowerHeld
  <2>1. CASE Reset
    BY <2>1, ResetStores DEF DiskInv
  <2>2. CASE PushStep
    BY <2>2, PushStores DEF DiskInv
  <2>3. CASE ~Reset /\ ~PushStep
    BY <1>1, <2>3 DEF Next, Open, LoadConfig, Push, PushRefused, Clear, Kill, vars, history
  <2> QED
    BY <2>1, <2>2, <2>3
<1>4. Spec => []LogInv
  BY <1>2, <1>3, DiskInvariant, LaidInvariant, PTL DEF Spec, LogInv
<1>5. LogInv /\ LogInv' /\ [Next]_vars => [Log!Next]_Log!vars
  <2> SUFFICES ASSUME LogInv, LogInv', [Next]_vars PROVE [Log!Next]_Log!vars
    OBVIOUS
  <2>1. TypeOK' /\ Fits(file')
    BY DEF LogInv, PowerHeld, DiskInv, GoodInv, Fits, CheckValid
  <2> QED
    BY <1>1, <2>1, LogNext
<1>6. Spec => Log!Spec
  BY <1>4, <1>5, LogBegins, PTL DEF Spec, Log!Spec
<1>7. Spec => [](Load(file) = Loaded(LogCache))
  BY <1>4, LoadsLog, PTL
<1> QED
  BY <1>6, <1>7 DEF IsRecordLog
=============================================================================
