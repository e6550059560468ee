-------------------------- MODULE WeightCache_proofs --------------------------
(***************************************************************************)
(* What the decoded-weight cache serves, for any number of processes, of   *)
(* tensors and of model files.                                             *)
(*                                                                         *)
(* Two invariants carry it.  OwnParts holds whatever overlaps, fails or is *)
(* killed: a key's file only ever receives parts of the key's own tensor,  *)
(* from a model file of the key's own size.  Calm holds until something    *)
(* has gone wrong: the one process alive stores between an empty .meta and *)
(* a whole one, so that a whole .meta seals whole data, and as no two      *)
(* files so far had one size, that data is the decoding of the file the    *)
(* reader has mapped.                                                      *)
(***************************************************************************)
EXTENDS WeightCache, TLAPS

\* The parts that an entry for a tensor of a version may hold.
Own(v, t) == {Zero} \cup {<<w, t>> : w \in {u \in Versions : FileSize(u) = FileSize(v)}}

DiskEntry == [meta : Meta, data : {None} \cup FileContents]

\* get_or_decode() runs only for a tensor that memory_cache_ did not have.
AskedIsMissing ==
  \A p \in Procs :
    pc[p] \in {"meta", "data", "int8", "scales", "decode"} => memory[p][asked[p]] = None

\* A process reads from, and writes into, a data file that is there.
DataIsThere ==
  \A p \in Procs :
    pc[p] \in {"int8", "scales", "store_int8", "store_scales"} => disk[KeyOf(p)].data \in FileContents

\* A process that is no more holds no entry; one that lives has mapped a file
\* that was already there.
ProcessesAreSane ==
  \A p \in Procs : /\ ver[p] <= model
                   /\ ~Alive(p) => memory[p] = NoMemory

OwnParts ==
  /\ \A v \in Versions, t \in Tensors : disk[Key(v, t)].data # None =>
       \A part \in {"int8", "scales"} : disk[Key(v, t)].data[part] \in Own(v, t)
  /\ "uninit" \notin faults =>
       \A p \in Procs :
         /\ sizes[p]
         /\ pc[p] = "scales" => buf[p] \in Own(ver[p], asked[p])
         /\ \A t \in Tensors : memory[p][t] # None =>
              \A part \in {"int8", "scales"} : memory[p][t][part] \in Own(ver[p], t)

\* A whole .meta seals the decoding of a file of the key's size that was put
\* at the path already.
Sealed ==
  \A v \in Versions, t \in Tensors :
    disk[Key(v, t)].meta = "full" =>
      \E w \in 1 .. model : FileSize(w) = FileSize(v) /\ disk[Key(v, t)].data = Decoded(w, t)

\* Where the process alive stands with the entry it reads or writes.
EntryInHand(p) ==
  LET d == disk[KeyOf(p)]
      own == <<ver[p], asked[p]>>
  IN  /\ pc[p] \in {"data", "int8", "scales"} => d.meta = "full"
      /\ pc[p] = "scales" => buf[p] = own
      /\ pc[p] \in {"store_data", "store_int8", "store_scales", "close_meta"} => d.meta = "empty"
      /\ pc[p] = "store_scales" => d.data.int8 = own
      /\ pc[p] = "close_meta" => d.data = Decoded(ver[p], asked[p])

Calm ==
  faults = {} =>
    /\ \A p, q \in Procs : Alive(p) /\ Alive(q) => p = q
    /\ \A v, w \in 1 .. model : FileSize(v) = FileSize(w) => v = w
    /\ Sealed
    /\ \A p \in Procs : EntryInHand(p)
    /\ \A p \in Procs, t \in Tensors : memory[p][t] \in {None, Decoded(ver[p], t)}

IInv == TypeOK /\ AskedIsMissing /\ DataIsThere /\ ProcessesAreSane /\ OwnParts /\ Calm

-----------------------------------------------------------------------------
(* Keys and entries.                                                        *)

LEMMA KeyIsKey == \A v \in Versions, t \in Tensors : Key(v, t) \in Keys
BY DEF Keys

LEMMA KeyOwns ==
  ASSUME NEW v \in Versions, NEW w \in Versions, NEW t \in Tensors, NEW s \in Tensors,
         Key(v, t) = Key(w, s)
  PROVE  FileSize(v) = FileSize(w) /\ t = s /\ Own(v, t) = Own(w, s)
BY DEF Key, Own

LEMMA AnyTensorIsOne == AnyTensor \in Tensors
BY WeightCacheAssumption DEF AnyTensor

\* What a step of store_weights() does to the entry in hand.
LEMMA WrittenEntry ==
  ASSUME NEW d \in DiskEntry, NEW step \in Storing, NEW v \in Versions, NEW t \in Tensors,
         step \in {"store_int8", "store_scales"} => d.data \in FileContents
  PROVE  /\ Written(d, step, v, t) \in DiskEntry
         /\ d.data \in FileContents => Written(d, step, v, t).data \in FileContents
         /\ step = "store_meta" => Written(d, step, v, t) = [meta |-> "empty", data |-> d.data]
         /\ step = "store_data" => Written(d, step, v, t) = [meta |-> d.meta, data |-> Empty]
         /\ step = "store_int8" => Written(d, step, v, t) =
              [meta |-> d.meta, data |-> [int8 |-> <<v, t>>, scales |-> d.data.scales]]
         /\ step = "store_scales" => Written(d, step, v, t) =
              [meta |-> d.meta, data |-> [int8 |-> d.data.int8, scales |-> <<v, t>>]]
         /\ step = "close_meta" => Written(d, step, v, t) = [meta |-> "full", data |-> d.data]
<1> DEFINE new == Written(d, step, v, t)
<1> USE DEF DiskEntry, Meta
<1>0. <<v, t>> \in OnDisk /\ Zero \in OnDisk
  BY DEF OnDisk
<1>1. CASE step = "store_meta"
  <2>1. new = [meta |-> "empty", data |-> d.data]
    BY <1>1 DEF Written, AfterOpenMeta
  <2> QED
    BY <1>1, <2>1
<1>2. CASE step = "store_data"
  <2>1. new = [meta |-> d.meta, data |-> Empty]
    BY <1>2 DEF Written
  <2>2. Empty \in FileContents
    BY <1>0 DEF Empty, FileContents
  <2> QED
    BY <1>2, <2>1, <2>2
<1>3. CASE step = "store_int8"
  <2>1. d.data \in FileContents
    BY <1>3
  <2>2. new = [meta |-> d.meta, data |-> [int8 |-> <<v, t>>, scales |-> d.data.scales]]
    BY <1>3, <2>1 DEF Written, FileContents
  <2>3. new.data \in FileContents
    BY <1>0, <2>1, <2>2 DEF FileContents
  <2> QED
    BY <1>3, <2>2, <2>3
<1>4. CASE step = "store_scales"
  <2>1. d.data \in FileContents
    BY <1>4
  <2>2. new = [meta |-> d.meta, data |-> [int8 |-> d.data.int8, scales |-> <<v, t>>]]
    BY <1>4, <2>1 DEF Written, FileContents
  <2>3. new.data \in FileContents
    BY <1>0, <2>1, <2>2 DEF FileContents
  <2> QED
    BY <1>4, <2>2, <2>3
<1>5. CASE step = "close_meta"
  <2>1. new = [meta |-> "full", data |-> d.data]
    BY <1>5 DEF Written
  <2> QED
    BY <1>5, <2>1
<1> QED
  BY <1>1, <1>2, <1>3, <1>4, <1>5 DEF Storing

\* Where a step of store_weights() leads, written or not.
LEMMA AfterStep ==
  ASSUME NEW step \in Storing
  PROVE  /\ step = "store_meta" => After(step) = "store_data" /\ AfterFailed(step) = "idle"
         /\ step = "store_data" => After(step) = "store_int8" /\ AfterFailed(step) = "close_meta"
         /\ step = "store_int8" => After(step) = "store_scales" /\ AfterFailed(step) = "store_scales"
         /\ step = "store_scales" => After(step) = "close_meta" /\ AfterFailed(step) = "close_meta"
         /\ step = "close_meta" => After(step) = "idle" /\ AfterFailed(step) = "idle"
<1>1. CASE step = "store_meta"
  BY <1>1 DEF After, AfterFailed
<1>2. CASE step = "store_data"
  BY <1>2 DEF After, AfterFailed
<1>3. CASE step = "store_int8"
  BY <1>3 DEF After, AfterFailed
<1>4. CASE step = "store_scales"
  BY <1>4 DEF After, AfterFailed
<1>5. CASE step = "close_meta"
  BY <1>5 DEF After, AfterFailed
<1> QED
  BY <1>1, <1>2, <1>3, <1>4, <1>5 DEF Storing

-----------------------------------------------------------------------------
LEMMA InitIInv == Init => IInv
<1> SUFFICES ASSUME Init PROVE IInv
  OBVIOUS
<1> USE WeightCacheAssumption, AnyTensorIsOne DEF Init, Alive
<1>1. TypeOK
  BY DEF TypeOK, Versions, Meta, PC, OnDisk, NoMemory, AnyVersion
<1>2. AskedIsMissing /\ DataIsThere /\ ProcessesAreSane
  BY DEF AskedIsMissing, DataIsThere, ProcessesAreSane, AnyVersion
<1>3. OwnParts
  BY KeyIsKey DEF OwnParts, NoMemory
<1>4. Calm
  BY KeyIsKey DEF Calm, Sealed, EntryInHand, NoMemory
<1> QED
  BY <1>1, <1>2, <1>3, <1>4 DEF IInv

\* Everything but the calm half is a matter of types and of whose part it is.
LEMMA TypeStep == IInv /\ [Next]_vars => TypeOK'
<1> SUFFICES ASSUME IInv, [Next]_vars PROVE TypeOK'
  OBVIOUS
<1> USE DEF IInv, TypeOK
<1>1. CASE Replace
  BY <1>1, WeightCacheAssumption DEF Replace, Versions, Fault, procVars
<1>2. ASSUME NEW p \in Procs
      PROVE  /\ Gone(p) /\ UNCHANGED <<model, disk>> /\ faults' \subseteq Fault => TypeOK'
             /\ Start(p) \/ Stop(p) => TypeOK'
             /\ (\E t \in Tensors : Ask(p, t)) => TypeOK'
             /\ ReadMeta(p) \/ ReadEmptyMeta(p) => TypeOK'
             /\ OpenData(p) \/ ReadInt8(p) => TypeOK'
             /\ ReadScales(p) \/ Decode(p) => TypeOK'
             /\ Store(p) \/ StoreFails(p) => TypeOK'
  <2> USE DEF Goto
  <2>0. KeyOf(p) \in Keys /\ <<ver[p], asked[p]>> \in OnDisk
    BY DEF KeyOf, Keys, OnDisk
  <2>1. Gone(p) /\ UNCHANGED <<model, disk>> /\ faults' \subseteq Fault => TypeOK'
    BY WeightCacheAssumption, AnyTensorIsOne DEF Gone, PC, NoMemory, AnyVersion, Versions, OnDisk
  <2>2. Start(p) => TypeOK'
    <3> SUFFICES ASSUME Start(p) PROVE TypeOK'
      OBVIOUS
    <3>1. PICK on \in BOOLEAN : enabled' = [enabled EXCEPT ![p] = on]
      BY DEF Start
    <3>2. faults' \subseteq Fault
      BY DEF Start, Fault
    <3> QED
      BY <3>1, <3>2 DEF Start, PC
  <2>3. Stop(p) => TypeOK'
    BY <2>1 DEF Stop
  <2>4. ASSUME NEW t \in Tensors, Ask(p, t) PROVE TypeOK'
    BY <2>4 DEF Ask, PC
  <2>5. ReadMeta(p) => TypeOK'
    BY DEF ReadMeta, PC
  <2>6. ReadEmptyMeta(p) => TypeOK'
    <3> SUFFICES ASSUME ReadEmptyMeta(p) PROVE TypeOK'
      OBVIOUS
    <3>1. UNCHANGED <<model, disk>> /\ faults' \subseteq Fault
      BY DEF ReadEmptyMeta, Fault
    <3>2. CASE Gone(p)
      BY <2>1, <3>1, <3>2
    <3>3. CASE ~Gone(p)
      BY <3>1, <3>3 DEF ReadEmptyMeta, PC
    <3> QED
      BY <3>2, <3>3
  <2>7. OpenData(p) => TypeOK'
    BY DEF OpenData, PC
  <2>8. ASSUME pc[p] \in {"int8", "scales"}, NEW part \in {"int8", "scales"}
        PROVE  Part(p, part) \in OnDisk \cup {Garbage}
    BY <2>0, <2>8 DEF Part, DataIsThere, FileContents
  <2>9. ReadInt8(p) => TypeOK'
    BY <2>8 DEF ReadInt8, PC
  <2>10. ReadScales(p) => TypeOK'
    <3> SUFFICES ASSUME ReadScales(p) PROVE TypeOK'
      OBVIOUS
    <3>1. [int8 |-> buf[p], scales |-> Part(p, "scales")] \in Entry
      BY <2>8 DEF ReadScales, Entry
    <3>2. memory' \in [Procs -> [Tensors -> {None} \cup Entry]]
      BY <3>1 DEF ReadScales
    <3> QED
      BY <3>2 DEF ReadScales, PC, OnDisk
  <2>11. Decode(p) => TypeOK'
    <3> SUFFICES ASSUME Decode(p) PROVE TypeOK'
      OBVIOUS
    <3>1. Decoded(ver[p], asked[p]) \in Entry
      BY <2>0 DEF Decoded, Entry
    <3>2. \/ memory' = [memory EXCEPT ![p][asked[p]] = Decoded(ver[p], asked[p])]
          \/ memory' = memory
      BY DEF Decode
    <3>3. [memory EXCEPT ![p][asked[p]] = Decoded(ver[p], asked[p])]
            \in [Procs -> [Tensors -> {None} \cup Entry]]
      BY <3>1
    <3>4. memory' \in [Procs -> [Tensors -> {None} \cup Entry]]
      BY <3>2, <3>3
    <3> QED
      BY <3>4 DEF Decode, PC, Storing
  <2>12. Store(p) => TypeOK'
    <3> SUFFICES ASSUME Store(p) PROVE TypeOK'
      OBVIOUS
    <3>1. Written(disk[KeyOf(p)], pc[p], ver[p], asked[p]) \in DiskEntry
      BY <2>0, WrittenEntry DEF Store, DataIsThere, DiskEntry
    <3>2. disk' \in [Keys -> DiskEntry]
      BY <3>1 DEF Store, DiskEntry
    <3>3. After(pc[p]) \in PC
      BY AfterStep DEF Store, PC, Storing
    <3> QED
      BY <3>2, <3>3 DEF Store, DiskEntry
  <2>13. StoreFails(p) => TypeOK'
    <3> SUFFICES ASSUME StoreFails(p) PROVE TypeOK'
      OBVIOUS
    <3>1. pc[p] \in Storing
      BY DEF StoreFails
    <3>2. AfterFailed(pc[p]) \in PC
      BY <3>1, AfterStep DEF PC, Storing
    <3> QED
      BY <3>2 DEF StoreFails, Fault
  <2> QED
    BY <2>1, <2>2, <2>3, <2>4, <2>5, <2>6, <2>7, <2>9, <2>10, <2>11, <2>12, <2>13
<1>3. CASE UNCHANGED vars
  BY <1>3 DEF vars, procVars
<1> QED
  BY <1>1, <1>2, <1>3 DEF Next

-----------------------------------------------------------------------------
(* A step is Replace or the act of one process.                             *)

Act(p) ==
  \/ Start(p) \/ Stop(p) \/ \E t \in Tensors : Ask(p, t)
  \/ ReadMeta(p) \/ ReadEmptyMeta(p) \/ OpenData(p) \/ ReadInt8(p) \/ ReadScales(p)
  \/ Decode(p) \/ Store(p) \/ StoreFails(p)

LEMMA NextActs == [Next]_vars => Replace \/ (\E p \in Procs : Act(p)) \/ UNCHANGED vars
BY DEF Next, Act

\* A process acts on its own variables only.
LEMMA OthersStay ==
  ASSUME TypeOK, NEW p \in Procs, Act(p), NEW q \in Procs, q # p
  PROVE  /\ pc'[q] = pc[q] /\ ver'[q] = ver[q] /\ memory'[q] = memory[q]
         /\ asked'[q] = asked[q] /\ buf'[q] = buf[q] /\ sizes'[q] = sizes[q]
<1> USE DEF TypeOK, Goto
<1>1. Gone(p) => /\ pc'[q] = pc[q] /\ ver'[q] = ver[q] /\ memory'[q] = memory[q]
                 /\ asked'[q] = asked[q] /\ buf'[q] = buf[q] /\ sizes'[q] = sizes[q]
  BY DEF Gone
<1>2. CASE Start(p) \/ \E t \in Tensors : Ask(p, t)
  BY <1>2 DEF Start, Ask
<1>3. CASE Stop(p)
  BY <1>1, <1>3 DEF Stop
<1>4. CASE ReadMeta(p) \/ OpenData(p) \/ ReadInt8(p)
  BY <1>4 DEF ReadMeta, OpenData, ReadInt8
<1>5. CASE ReadEmptyMeta(p)
  BY <1>1, <1>5 DEF ReadEmptyMeta
<1>6. CASE ReadScales(p)
  BY <1>6 DEF ReadScales
<1>7. CASE Decode(p)
  BY <1>7 DEF Decode
<1>8. CASE Store(p) \/ StoreFails(p)
  BY <1>8 DEF Store, StoreFails
<1> QED
  BY <1>2, <1>3, <1>4, <1>5, <1>6, <1>7, <1>8 DEF Act

\* The disk changes by a step of store_weights() only.
LEMMA DiskStays ==
  ASSUME NEW p \in Procs, Act(p), ~Store(p)
  PROVE  disk' = disk
BY DEF Act, Start, Stop, Ask, ReadMeta, ReadEmptyMeta, OpenData, ReadInt8, ReadScales,
       Decode, StoreFails

\* What a step of store_weights() leaves in a file.
LEMMA DiskStep ==
  ASSUME TypeOK, DataIsThere, NEW p \in Procs, Store(p), NEW k \in Keys
  PROVE  /\ disk[k].data \in FileContents => disk'[k].data \in FileContents
         /\ k # KeyOf(p) => disk'[k] = disk[k]
         /\ k = KeyOf(p) => disk'[k] = Written(disk[k], pc[p], ver[p], asked[p])
<1>1. disk' = [disk EXCEPT ![KeyOf(p)] = Written(@, pc[p], ver[p], asked[p])] /\ pc[p] \in Storing
  BY DEF Store
<1>2. disk[KeyOf(p)] \in DiskEntry /\ ver[p] \in Versions /\ asked[p] \in Tensors
  BY KeyIsKey DEF TypeOK, DiskEntry, KeyOf
<1>3. pc[p] \in {"store_int8", "store_scales"} => disk[KeyOf(p)].data \in FileContents
  BY DEF DataIsThere
<1>4. k # KeyOf(p) => disk'[k] = disk[k]
  BY <1>1 DEF TypeOK
<1>5. k = KeyOf(p) => disk'[k] = Written(disk[k], pc[p], ver[p], asked[p])
  BY <1>1 DEF TypeOK
<1>6. disk[k].data \in FileContents => disk'[k].data \in FileContents
  BY <1>1, <1>2, <1>3, <1>4, <1>5, WrittenEntry
<1> QED
  BY <1>4, <1>5, <1>6

LEMMA SaneStep == IInv /\ [Next]_vars => AskedIsMissing' /\ ProcessesAreSane'
<1> SUFFICES ASSUME IInv, [Next]_vars PROVE AskedIsMissing' /\ ProcessesAreSane'
  OBVIOUS
<1> USE DEF IInv, AskedIsMissing, ProcessesAreSane, Alive
<1>0. model \in Nat /\ \A p \in Procs : ver[p] \in Nat
  BY WeightCacheAssumption DEF TypeOK, Versions
<1>1. CASE Replace
  BY <1>0, <1>1 DEF Replace, procVars
<1>2. ASSUME NEW p \in Procs, Act(p)
      PROVE  AskedIsMissing' /\ ProcessesAreSane'
  <2> SUFFICES /\ pc'[p] \in {"meta", "data", "int8", "scales", "decode"} => memory'[p][asked'[p]] = None
               /\ ver'[p] <= model' /\ (pc'[p] = "off" => memory'[p] = NoMemory)
    <3>1. model' = model
      BY <1>2 DEF Act, Start, Stop, Ask, ReadMeta, ReadEmptyMeta, OpenData, ReadInt8, ReadScales,
                  Decode, Store, StoreFails
    <3> QED
      BY <1>2, <3>1, OthersStay
  <2> USE <1>0 DEF Goto, TypeOK
  <2>1. CASE Gone(p) /\ model' = model
    BY <2>1, WeightCacheAssumption DEF Gone, AnyVersion, Versions
  <2>2. CASE Start(p)
    BY <2>2 DEF Start
  <2>3. CASE \E t \in Tensors : Ask(p, t)
    BY <2>3 DEF Ask
  <2>4. CASE ReadMeta(p) \/ OpenData(p) \/ ReadInt8(p)
    BY <2>4 DEF ReadMeta, OpenData, ReadInt8
  <2>5. CASE ReadEmptyMeta(p)
    BY <2>1, <2>5 DEF ReadEmptyMeta
  <2>6. CASE ReadScales(p)
    BY <2>6 DEF ReadScales
  <2>7. CASE Decode(p)
    BY <2>7 DEF Decode
  <2>8. CASE Store(p)
    BY <2>8, AfterStep DEF Store, Storing
  <2>9. CASE StoreFails(p)
    BY <2>9, AfterStep DEF StoreFails, Storing
  <2> QED
    BY <1>2, <2>1, <2>2, <2>3, <2>4, <2>5, <2>6, <2>7, <2>8, <2>9 DEF Act, Stop
<1>3. CASE UNCHANGED vars
  BY <1>3 DEF vars, procVars
<1> QED
  BY <1>1, <1>2, <1>3, NextActs

LEMMA DataStep == IInv /\ [Next]_vars => DataIsThere'
<1> SUFFICES ASSUME IInv, [Next]_vars PROVE DataIsThere'
  OBVIOUS
<1> USE DEF IInv, DataIsThere
<1>1. CASE Replace \/ UNCHANGED vars
  BY <1>1 DEF Replace, vars, procVars, KeyOf
<1>2. ASSUME NEW p \in Procs, Act(p), NEW q \in Procs,
             pc'[q] \in {"int8", "scales", "store_int8", "store_scales"}
      PROVE  disk'[KeyOf(q)'].data \in FileContents
  <2>0. \A r \in Procs : KeyOf(r) \in Keys
    BY KeyIsKey DEF KeyOf, TypeOK
  <2>1. KeyOf(q)' = KeyOf(q) /\ disk[KeyOf(q)].data \in FileContents => disk'[KeyOf(q)'].data \in FileContents
    BY <1>2, <2>0, DiskStays, DiskStep
  <2>2. CASE q # p
    BY <1>2, <2>1, <2>2, OthersStay DEF KeyOf
  <2>3. CASE q = p /\ ~Store(p) /\ ~StoreFails(p)
    <3> USE <2>3 DEF TypeOK, Goto
    <3>1. ~Start(p) /\ ~Stop(p) /\ ~Gone(p) /\ ~ \E t \in Tensors : Ask(p, t)
      BY <1>2 DEF Start, Stop, Gone, Ask
    <3>2. ~ReadMeta(p) /\ ~ReadEmptyMeta(p) /\ ~ReadScales(p) /\ ~Decode(p)
      BY <1>2, <3>1 DEF ReadMeta, ReadEmptyMeta, ReadScales, Decode
    <3>3. CASE OpenData(p)
      <4>1. KeyOf(p)' = KeyOf(p) /\ disk' = disk /\ disk[KeyOf(p)].data # None
        BY <1>2, <3>3 DEF OpenData, KeyOf
      <4>2. disk[KeyOf(p)] \in [meta : Meta, data : {None} \cup FileContents]
        BY <2>0
      <4> QED
        BY <4>1, <4>2
    <3>4. CASE ReadInt8(p)
      BY <2>1, <3>4 DEF ReadInt8, KeyOf
    <3> QED
      BY <1>2, <3>1, <3>2, <3>3, <3>4 DEF Act
  <2>4. CASE q = p /\ Store(p)
    <3>0. KeyOf(p)' = KeyOf(p) /\ pc[p] \in Storing /\ pc'[p] = After(pc[p])
      BY <2>4 DEF Store, KeyOf, TypeOK, Goto
    <3>1. CASE pc[p] = "store_data"
      <4>1. disk[KeyOf(p)] \in DiskEntry /\ ver[p] \in Versions /\ asked[p] \in Tensors
        BY <2>0 DEF TypeOK, DiskEntry
      <4>2. disk'[KeyOf(p)].data = Empty
        BY <2>0, <2>4, <3>1, <4>1, DiskStep, WrittenEntry DEF Storing
      <4> QED
        BY <2>4, <3>0, <4>2 DEF Empty, FileContents, OnDisk
    <3>2. CASE pc[p] # "store_data"
      <4>1. pc[p] = "store_int8"
        BY <1>2, <2>4, <3>0, <3>2, AfterStep DEF Storing
      <4> QED
        BY <2>1, <2>4, <3>0, <4>1
    <3> QED
      BY <3>1, <3>2
  <2>5. CASE q = p /\ StoreFails(p)
    <3>0. KeyOf(p)' = KeyOf(p) /\ pc[p] \in Storing /\ pc'[p] = AfterFailed(pc[p])
      BY <2>5 DEF StoreFails, KeyOf, TypeOK, Goto
    <3>1. pc[p] = "store_int8"
      BY <1>2, <2>5, <3>0, AfterStep DEF Storing
    <3> QED
      BY <2>1, <2>5, <3>0, <3>1
  <2> QED
    BY <2>2, <2>3, <2>4, <2>5
<1> QED
  BY <1>1, <1>2, NextActs

-----------------------------------------------------------------------------
(* Whose parts an entry holds, whatever overlaps or is killed.              *)

LEMMA DiskOwnStep ==
  ASSUME IInv, [Next]_vars, NEW v \in Versions, NEW t \in Tensors,
         disk'[Key(v, t)].data # None, NEW part \in {"int8", "scales"}
  PROVE  disk'[Key(v, t)].data[part] \in Own(v, t)
<1> DEFINE k == Key(v, t)
           d == disk[k]
<1> USE DEF IInv
<1>0. k \in Keys /\ d \in DiskEntry
  BY KeyIsKey DEF TypeOK, DiskEntry
<1>1. CASE disk'[k] = disk[k]
  BY <1>1 DEF OwnParts
<1>2. CASE disk'[k] # disk[k]
  <2>1. PICK p \in Procs : Store(p) /\ KeyOf(p) = k
    <3>1. disk' # disk
      BY <1>2
    <3>2. PICK p \in Procs : Store(p)
      BY <3>1, NextActs, DiskStays DEF Replace, vars
    <3> QED
      BY <1>0, <1>2, <3>2, DiskStep
  <2>2. disk'[k] = Written(d, pc[p], ver[p], asked[p]) /\ pc[p] \in Storing
    BY <1>0, <2>1, DiskStep DEF Store
  <2>3. ver[p] \in Versions /\ asked[p] \in Tensors
    BY DEF TypeOK
  <2>4. FileSize(ver[p]) = FileSize(v) /\ asked[p] = t
    BY <2>1, <2>3, KeyOwns DEF KeyOf
  <2>5. Zero \in Own(v, t) /\ <<ver[p], asked[p]>> \in Own(v, t)
    BY <2>3, <2>4 DEF Own
  <2>6. pc[p] \in {"store_int8", "store_scales"} => d.data \in FileContents
    BY <2>1 DEF DataIsThere
  <2>7. CASE pc[p] \in {"store_meta", "close_meta"}
    <3>1. disk'[k].data = d.data
      BY <1>0, <2>2, <2>3, <2>6, <2>7, WrittenEntry
    <3> QED
      BY <3>1 DEF OwnParts
  <2>8. CASE pc[p] = "store_data"
    <3>1. disk'[k].data = Empty
      BY <1>0, <2>2, <2>3, <2>6, <2>8, WrittenEntry
    <3> QED
      BY <2>5, <3>1 DEF Empty
  <2>9. CASE pc[p] \in {"store_int8", "store_scales"}
    <3>1. \A other \in {"int8", "scales"} : d.data # None => d.data[other] \in Own(v, t)
      BY DEF OwnParts
    <3>2. d.data # None => d.data.int8 \in Own(v, t) /\ d.data.scales \in Own(v, t)
      BY <3>1
    <3>3. d.data # None
      BY <2>6, <2>9, NoneAssumption DEF FileContents, Entry
    <3>4. CASE pc[p] = "store_int8"
      <4>1. Written(d, pc[p], ver[p], asked[p]) =
              [meta |-> d.meta, data |-> [int8 |-> <<ver[p], asked[p]>>, scales |-> d.data.scales]]
        BY <1>0, <2>2, <2>3, <2>6, <3>4, WrittenEntry
      <4>2. disk'[k].data = [int8 |-> <<ver[p], asked[p]>>, scales |-> d.data.scales]
        BY <2>2, <4>1
      <4> QED
        BY <2>5, <3>2, <3>3, <4>2
    <3>5. CASE pc[p] = "store_scales"
      <4>1. Written(d, pc[p], ver[p], asked[p]) =
              [meta |-> d.meta, data |-> [int8 |-> d.data.int8, scales |-> <<ver[p], asked[p]>>]]
        BY <1>0, <2>2, <2>3, <2>6, <3>5, WrittenEntry
      <4>2. disk'[k].data = [int8 |-> d.data.int8, scales |-> <<ver[p], asked[p]>>]
        BY <2>2, <4>1
      <4> QED
        BY <2>5, <3>2, <3>3, <4>2
    <3> QED
      BY <2>9, <3>4, <3>5
  <2> QED
    BY <2>2, <2>7, <2>8, <2>9 DEF Storing
<1> QED
  BY <1>1, <1>2

LEMMA FaultsStay == [Next]_vars => faults \subseteq faults'
BY DEF Next, Replace, Start, Stop, Ask, ReadMeta, ReadEmptyMeta, OpenData, ReadInt8, ReadScales,
       Decode, Store, StoreFails, vars

\* The process half of OwnParts, for one process.
HeldIsOwn(p) ==
  /\ sizes[p]
  /\ pc[p] = "scales" => buf[p] \in Own(ver[p], asked[p])
  /\ \A t \in Tensors : memory[p][t] # None =>
       \A part \in {"int8", "scales"} : memory[p][t][part] \in Own(ver[p], t)

LEMMA HeldOwnStep ==
  ASSUME IInv, [Next]_vars, "uninit" \notin faults', NEW q \in Procs
  PROVE  HeldIsOwn(q)'
<1> USE DEF IInv
<1>0. HeldIsOwn(q)
  BY FaultsStay DEF OwnParts, HeldIsOwn
<1>1. CASE Replace \/ UNCHANGED vars
  BY <1>0, <1>1 DEF HeldIsOwn, Replace, vars, procVars
<1>2. ASSUME NEW p \in Procs, Act(p)
      PROVE  HeldIsOwn(q)'
  <2>1. CASE q # p
    BY <1>0, <1>2, <2>1, OthersStay DEF HeldIsOwn
  <2>2. CASE q = p
    <3> HIDE DEF IInv
    <3>0. TypeOK /\ KeyOf(p) = Key(ver[p], asked[p]) /\ KeyOf(p) \in Keys
      BY KeyIsKey DEF IInv, TypeOK, KeyOf
    <3>1. CASE Gone(p)
      BY <2>2, <3>0, <3>1 DEF HeldIsOwn, Gone, NoMemory, TypeOK, Goto
    <3>2. CASE Start(p)
      <4>1. memory[p] = NoMemory
        BY <3>2 DEF Start, IInv, ProcessesAreSane
      <4>2. memory'[p] = NoMemory /\ pc'[p] = "idle" /\ sizes'[p]
        BY <1>0, <2>2, <3>0, <3>2, <4>1 DEF Start, TypeOK, Goto, HeldIsOwn
      <4> QED
        BY <2>2, <4>2 DEF HeldIsOwn, NoMemory
    <3>3. CASE \/ \E t \in Tensors : Ask(p, t)
               \/ ReadMeta(p) \/ OpenData(p) \/ Store(p) \/ StoreFails(p)
      <4>1. ver'[p] = ver[p] /\ memory'[p] = memory[p] /\ sizes'[p]
        BY <1>0, <2>2, <3>0, <3>3
        DEF HeldIsOwn, Ask, ReadMeta, OpenData, Store, StoreFails, TypeOK
      <4>2. pc'[p] # "scales"
        <5>1. CASE (\E t \in Tensors : Ask(p, t)) \/ ReadMeta(p) \/ OpenData(p)
          BY <3>0, <5>1 DEF Ask, ReadMeta, OpenData, Goto, TypeOK
        <5>2. CASE Store(p)
          BY <3>0, <5>2, AfterStep DEF Store, Storing, Goto, TypeOK
        <5>3. CASE StoreFails(p)
          BY <3>0, <5>3, AfterStep DEF StoreFails, Storing, Goto, TypeOK
        <5> QED
          BY <3>3, <5>1, <5>2, <5>3
      <4> QED
        BY <1>0, <2>2, <4>1, <4>2 DEF HeldIsOwn
    <3>4. ~ReadEmptyMeta(p)
      BY DEF ReadEmptyMeta
    <3>5. ASSUME pc[p] \in {"int8", "scales"}, NEW part \in {"int8", "scales"}
          PROVE  Part(p, part) \in Own(ver[p], asked[p])
      <4>1. disk[KeyOf(p)].data \in FileContents /\ disk[KeyOf(p)].data # None
        BY <3>5, NoneAssumption DEF IInv, DataIsThere, FileContents, Entry
      <4> QED
        BY <1>0, <2>2, <3>0, <4>1 DEF Part, IInv, OwnParts, HeldIsOwn, TypeOK
    <3>6. CASE ReadInt8(p)
      <4>1. buf'[p] \in Own(ver[p], asked[p])
        BY <3>0, <3>5, <3>6 DEF ReadInt8, TypeOK
      <4> QED
        BY <1>0, <2>2, <3>6, <4>1 DEF ReadInt8, HeldIsOwn
    <3>7. CASE ReadScales(p)
      <4> DEFINE e == [int8 |-> buf[p], scales |-> Part(p, "scales")]
      <4>1. pc[p] = "scales" /\ pc'[p] = "idle" /\ sizes'[p] /\ ver'[p] = ver[p]
        BY <3>0, <3>7 DEF ReadScales, Goto, TypeOK
      <4>2. \A part \in {"int8", "scales"} : e[part] \in Own(ver[p], asked[p])
        BY <1>0, <2>2, <3>5, <4>1 DEF HeldIsOwn
      <4>3. \A t \in Tensors : memory'[p][t] = IF t = asked[p] THEN e ELSE memory[p][t]
        BY <3>0, <3>7 DEF ReadScales, TypeOK
      <4> HIDE DEF e
      <4> QED
        BY <1>0, <2>2, <4>1, <4>2, <4>3 DEF HeldIsOwn
    <3>8. CASE Decode(p)
      <4> DEFINE e == Decoded(ver[p], asked[p])
      <4>1. pc'[p] # "scales" /\ sizes'[p] /\ ver'[p] = ver[p]
        BY <1>0, <2>2, <3>0, <3>8 DEF Decode, Goto, TypeOK, HeldIsOwn
      <4>2. \A part \in {"int8", "scales"} : e[part] \in Own(ver[p], asked[p])
        BY <3>0 DEF Decoded, Own, TypeOK
      <4>3. \A t \in Tensors : (memory'[p][t] = e /\ t = asked[p]) \/ memory'[p][t] = memory[p][t]
        BY <3>0, <3>8 DEF Decode, TypeOK
      <4> HIDE DEF e
      <4> QED
        BY <1>0, <2>2, <4>1, <4>2, <4>3 DEF HeldIsOwn
    <3> QED
      BY <1>2, <3>1, <3>2, <3>3, <3>4, <3>6, <3>7, <3>8 DEF Act, Stop
  <2> QED
    BY <2>1, <2>2
<1> QED
  BY <1>1, <1>2, NextActs

LEMMA OwnStep == IInv /\ [Next]_vars => OwnParts'
BY DiskOwnStep, HeldOwnStep DEF OwnParts, HeldIsOwn

-----------------------------------------------------------------------------
(* The calm half: nothing has gone wrong yet.                               *)

\* Behind a whole .meta the process alive finds the decoding of its own file.
LEMMA WholeIsOwn ==
  ASSUME IInv, faults = {}, NEW p \in Procs, pc[p] \in {"data", "int8", "scales"}
  PROVE  disk[KeyOf(p)].data = Decoded(ver[p], asked[p])
<1>1. ver[p] \in Versions /\ asked[p] \in Tensors /\ ver[p] \in 1 .. model
  BY WeightCacheAssumption DEF IInv, TypeOK, ProcessesAreSane, Versions
<1>2. disk[KeyOf(p)].meta = "full"
  BY DEF IInv, Calm, EntryInHand
<1>3. PICK w \in 1 .. model : /\ FileSize(w) = FileSize(ver[p])
                              /\ disk[KeyOf(p)].data = Decoded(w, asked[p])
  BY <1>1, <1>2 DEF IInv, Calm, Sealed, KeyOf
<1>4. w = ver[p]
  BY <1>1, <1>3 DEF IInv, Calm
<1> QED
  BY <1>3, <1>4

LEMMA AloneStep ==
  ASSUME IInv, [Next]_vars, faults' = {}
  PROVE  /\ faults = {}
         /\ (\A p, q \in Procs : Alive(p) /\ Alive(q) => p = q)'
         /\ (\A v, w \in 1 .. model : FileSize(v) = FileSize(w) => v = w)'
<1>1. faults = {}
  BY FaultsStay
<1>2. /\ \A p, q \in Procs : Alive(p) /\ Alive(q) => p = q
      /\ \A v, w \in 1 .. model : FileSize(v) = FileSize(w) => v = w
  BY <1>1 DEF IInv, Calm
<1>3. model \in Nat
  BY WeightCacheAssumption DEF IInv, TypeOK, Versions
<1>4. CASE Replace
  <2>1. model' = model + 1 /\ ~SizeSeen(model') /\ UNCHANGED pc
    BY <1>4 DEF Replace, procVars
  <2>2. \A w \in 1 .. model : FileSize(w) # FileSize(model')
    BY <1>3, <2>1 DEF SizeSeen
  <2>3. \A v \in 1 .. model' : v \in 1 .. model \/ v = model'
    BY <1>3, <2>1
  <2> QED
    BY <1>1, <1>2, <2>1, <2>2, <2>3 DEF Alive
<1>5. ASSUME NEW p \in Procs, Act(p)
      PROVE  /\ model' = model
             /\ (\A q, r \in Procs : Alive(q) /\ Alive(r) => q = r)'
  <2>1. model' = model
    BY <1>5 DEF Act, Start, Stop, Ask, ReadMeta, ReadEmptyMeta, OpenData, ReadInt8, ReadScales,
                Decode, Store, StoreFails
  <2>2. \A q \in Procs : q # p => (Alive(q)' <=> Alive(q))
    BY <1>5, OthersStay DEF IInv, Alive
  <2>3. CASE Start(p)
    <3>1. \A q \in Procs : ~Alive(q)
      BY <2>3 DEF Start
    <3> QED
      BY <2>1, <2>2, <3>1
  <2>4. CASE ~Start(p)
    <3>1. Alive(p)
      BY <1>5, <2>4 DEF Act, Stop, Ask, ReadMeta, ReadEmptyMeta, OpenData, ReadInt8, ReadScales,
                Decode, Store, StoreFails, Alive, Storing
    <3> QED
      BY <1>2, <2>1, <2>2, <3>1
  <2> QED
    BY <2>3, <2>4, <2>1
<1>6. CASE UNCHANGED vars
  BY <1>1, <1>2, <1>6 DEF vars, procVars, Alive
<1> QED
  BY <1>1, <1>2, <1>4, <1>5, <1>6, NextActs

LEMMA SealedStep == ASSUME IInv, [Next]_vars, faults' = {} PROVE Sealed'
<1>0. faults = {} /\ Sealed
  BY AloneStep DEF IInv, Calm
<1>1. model \in Nat /\ model' \in Nat /\ model <= model'
  <2>1. model' = model \/ model' = model + 1
    BY DEF Next, Replace, Start, Stop, Ask, ReadMeta, ReadEmptyMeta, OpenData, ReadInt8, ReadScales,
           Decode, Store, StoreFails, vars
  <2> QED
    BY <2>1, WeightCacheAssumption DEF IInv, TypeOK, Versions
<1>2. CASE disk' = disk
  BY <1>0, <1>1, <1>2 DEF Sealed
<1>3. ASSUME NEW p \in Procs, Store(p), NEW v \in Versions, NEW t \in Tensors,
             disk'[Key(v, t)].meta = "full"
      PROVE  \E w \in 1 .. model' : FileSize(w) = FileSize(v) /\ disk'[Key(v, t)].data = Decoded(w, t)
  <2> DEFINE d == disk[Key(v, t)]
  <2>0. Key(v, t) \in Keys /\ d \in DiskEntry /\ ver[p] \in Versions /\ asked[p] \in Tensors
    BY KeyIsKey DEF IInv, TypeOK, DiskEntry
  <2>1. CASE Key(v, t) # KeyOf(p)
    <3>1. disk'[Key(v, t)] = d
      BY <1>3, <2>0, <2>1, DiskStep DEF IInv
    <3> QED
      BY <1>0, <1>1, <1>3, <3>1 DEF Sealed
  <2>2. CASE Key(v, t) = KeyOf(p)
    <3>1. disk'[Key(v, t)] = Written(d, pc[p], ver[p], asked[p]) /\ pc[p] \in Storing
      BY <1>3, <2>0, <2>2, DiskStep DEF IInv, Store
    <3>2. pc[p] \in {"store_int8", "store_scales"} => d.data \in FileContents
      BY <2>2 DEF IInv, DataIsThere
    <3>3. pc[p] \in {"store_data", "store_int8", "store_scales"} => d.meta = "empty"
      BY <1>0, <2>2 DEF IInv, Calm, EntryInHand
    <3>4. pc[p] = "close_meta"
      <4>1. pc[p] \in {"store_data", "store_int8", "store_scales"} => disk'[Key(v, t)].meta = d.meta
        BY <2>0, <3>1, <3>2, WrittenEntry
      <4>2. pc[p] = "store_meta" => disk'[Key(v, t)].meta = "empty"
        BY <2>0, <3>1, <3>2, WrittenEntry
      <4> QED
        BY <1>3, <3>1, <3>3, <4>1, <4>2 DEF Storing
    <3>5. disk'[Key(v, t)].data = d.data /\ d.data = Decoded(ver[p], asked[p])
      <4>1. disk'[Key(v, t)].data = d.data
        BY <2>0, <3>1, <3>2, <3>4, WrittenEntry
      <4> QED
        BY <1>0, <2>2, <3>4, <4>1 DEF IInv, Calm, EntryInHand
    <3>6. FileSize(ver[p]) = FileSize(v) /\ asked[p] = t
      BY <2>0, <2>2, KeyOwns DEF KeyOf
    <3>7. ver[p] \in 1 .. model'
      BY <1>1, <2>0, WeightCacheAssumption DEF IInv, ProcessesAreSane, Versions
    <3> QED
      BY <3>5, <3>6, <3>7
  <2> QED
    BY <2>1, <2>2
<1>4. CASE \E p \in Procs : Store(p)
  BY <1>3, <1>4 DEF Sealed
<1> QED
  BY <1>2, <1>4, NextActs, DiskStays DEF Replace, vars

\* What store_weights() has done to the entry in hand when a step ends.
LEMMA StoringStep ==
  ASSUME IInv, faults = {}, NEW p \in Procs, Store(p)
  PROVE  EntryInHand(p)'
<1> DEFINE k == KeyOf(p)
           d == disk[k]
           own == <<ver[p], asked[p]>>
<1>0. /\ k \in Keys /\ d \in DiskEntry /\ ver[p] \in Versions /\ asked[p] \in Tensors
      /\ pc[p] \in Storing
      /\ pc[p] \in {"store_int8", "store_scales"} => d.data \in FileContents
  BY KeyIsKey DEF IInv, TypeOK, DiskEntry, KeyOf, DataIsThere, Store
<1>1. /\ KeyOf(p)' = k /\ ver'[p] = ver[p] /\ asked'[p] = asked[p]
      /\ pc'[p] = After(pc[p]) /\ disk'[k] = Written(d, pc[p], ver[p], asked[p])
  BY <1>0, DiskStep DEF Store, KeyOf, IInv, TypeOK, Goto
<1>2. EntryInHand(p)
  BY DEF IInv, Calm
<1>3. CASE pc[p] = "store_meta"
  <2>1. pc'[p] = "store_data" /\ disk'[k].meta = "empty"
    BY <1>0, <1>1, <1>3, AfterStep, WrittenEntry
  <2> QED
    BY <1>1, <2>1 DEF EntryInHand
<1>4. CASE pc[p] = "store_data"
  <2>1. pc'[p] = "store_int8" /\ disk'[k].meta = d.meta
    BY <1>0, <1>1, <1>4, AfterStep, WrittenEntry
  <2> QED
    BY <1>1, <1>2, <1>4, <2>1 DEF EntryInHand
<1>5. CASE pc[p] = "store_int8"
  <2>1. pc'[p] = "store_scales"
    BY <1>0, <1>1, <1>5, AfterStep
  <2>2. disk'[k] = [meta |-> d.meta, data |-> [int8 |-> own, scales |-> d.data.scales]]
    BY <1>0, <1>1, <1>5, WrittenEntry
  <2>3. disk'[k].meta = d.meta /\ disk'[k].data.int8 = own
    BY <2>2
  <2> QED
    BY <1>1, <1>2, <1>5, <2>1, <2>3 DEF EntryInHand
<1>6. CASE pc[p] = "store_scales"
  <2>1. pc'[p] = "close_meta"
    BY <1>0, <1>1, <1>6, AfterStep
  <2>2. disk'[k] = [meta |-> d.meta, data |-> [int8 |-> d.data.int8, scales |-> own]]
    BY <1>0, <1>1, <1>6, WrittenEntry
  <2>3. d.data.int8 = own
    BY <1>2, <1>6 DEF EntryInHand
  <2>4. disk'[k].meta = d.meta /\ disk'[k].data = Decoded(ver[p], asked[p])
    BY <2>2, <2>3 DEF Decoded
  <2> QED
    BY <1>1, <1>2, <1>6, <2>1, <2>4 DEF EntryInHand
<1>7. CASE pc[p] = "close_meta"
  <2>1. pc'[p] = "idle"
    BY <1>0, <1>1, <1>7, AfterStep
  <2> QED
    BY <2>1 DEF EntryInHand
<1> QED
  BY <1>0, <1>3, <1>4, <1>5, <1>6, <1>7 DEF Storing

LEMMA HandStep == ASSUME IInv, [Next]_vars, faults' = {}, NEW q \in Procs PROVE EntryInHand(q)'
<1>0. faults = {} /\ TypeOK /\ EntryInHand(q)
  BY AloneStep DEF IInv, Calm
<1>1. CASE Replace \/ UNCHANGED vars
  BY <1>0, <1>1 DEF Replace, vars, procVars, EntryInHand, KeyOf
<1>2. ASSUME NEW p \in Procs, Act(p) PROVE EntryInHand(q)'
  <2>1. CASE Store(p) /\ q = p
    BY <1>0, <2>1, StoringStep
  <2>2. CASE q # p
    <3>1. CASE ~Alive(q)
      <4>1. pc'[q] = "off"
        BY <1>0, <1>2, <2>2, <3>1, OthersStay DEF Alive
      <4> QED
        BY <4>1 DEF EntryInHand
    <3>2. CASE Alive(q)
      <4>1. Alive(q)' /\ \E r \in Procs : r # q /\ (Alive(r) \/ Start(r))
        BY <1>0, <1>2, <2>2, <3>2, OthersStay DEF Alive, Act, Stop, Ask, ReadMeta, ReadEmptyMeta,
           OpenData, ReadInt8, ReadScales, Decode, Store, StoreFails, Storing
      <4>2. ~ \E r \in Procs : r # q /\ Alive(r)
        BY <1>0, <3>2 DEF IInv, Calm
      <4>3. ~ \E r \in Procs : Start(r)
        BY <3>2 DEF Start
      <4> QED
        BY <4>1, <4>2, <4>3
    <3> QED
      BY <3>1, <3>2
  <2>3. CASE q = p /\ ~Store(p)
    <3>0. disk' = disk /\ ~StoreFails(p) /\ ~ReadEmptyMeta(p)
      BY <1>2, <2>3, DiskStays DEF StoreFails, ReadEmptyMeta
    <3> USE <1>0, <2>3 DEF TypeOK, Goto
    <3>1. CASE Start(p) \/ Stop(p) \/ (\E t \in Tensors : Ask(p, t)) \/ ReadScales(p)
      <4>1. pc'[p] \in {"idle", "off", "meta", "decode"}
        BY <3>1 DEF Start, Stop, Gone, Ask, ReadScales
      <4> QED
        BY <4>1 DEF EntryInHand
    <3>2. CASE ReadMeta(p) \/ OpenData(p)
      <4>1. /\ KeyOf(p)' = KeyOf(p) /\ pc'[p] \in {"decode", "data", "int8"}
            /\ pc'[p] # "decode" => disk[KeyOf(p)].meta = "full"
        <5>1. disk[KeyOf(p)].meta \in Meta
          BY KeyIsKey DEF KeyOf
        <5> QED
          BY <3>2, <5>1 DEF ReadMeta, OpenData, KeyOf, EntryInHand, Meta
      <4> QED
        BY <3>0, <4>1 DEF EntryInHand
    <3>3. CASE ReadInt8(p)
      <4>1. pc[p] = "int8" /\ pc'[p] = "scales" /\ KeyOf(p)' = KeyOf(p)
            /\ ver'[p] = ver[p] /\ asked'[p] = asked[p] /\ buf'[p] = Part(p, "int8")
        BY <3>3 DEF ReadInt8, KeyOf
      <4>2. disk[KeyOf(p)].data = Decoded(ver[p], asked[p]) /\ sizes[p]
        <5>1. disk[KeyOf(p)].data = Decoded(ver[p], asked[p])
          BY <4>1, WholeIsOwn
        <5>2. sizes[p]
          BY DEF IInv, OwnParts
        <5> QED
          BY <5>1, <5>2
      <4>3. Part(p, "int8") = <<ver[p], asked[p]>>
        BY <4>2 DEF Part, Decoded
      <4> QED
        BY <3>0, <4>1, <4>3 DEF EntryInHand
    <3>4. CASE Decode(p)
      <4>1. pc'[p] \in {"idle", "store_meta"}
        BY <3>4 DEF Decode
      <4> QED
        BY <4>1 DEF EntryInHand
    <3> QED
      BY <1>2, <3>0, <3>1, <3>2, <3>3, <3>4 DEF Act
  <2> QED
    BY <2>1, <2>2, <2>3
<1> QED
  BY <1>1, <1>2, NextActs

LEMMA MemoryStep ==
  ASSUME IInv, [Next]_vars, faults' = {}, NEW q \in Procs, NEW t \in Tensors
  PROVE  memory'[q][t] \in {None, Decoded(ver'[q], t)}
<1>0. faults = {} /\ TypeOK /\ memory[q][t] \in {None, Decoded(ver[q], t)}
  BY AloneStep DEF IInv, Calm
<1>1. CASE Replace \/ UNCHANGED vars
  BY <1>0, <1>1 DEF Replace, vars, procVars
<1>2. ASSUME NEW p \in Procs, Act(p) PROVE memory'[q][t] \in {None, Decoded(ver'[q], t)}
  <2>1. CASE q # p
    BY <1>0, <1>2, <2>1, OthersStay
  <2>2. CASE q = p
    <3> USE <1>0, <2>2 DEF TypeOK, Goto
    <3>1. CASE Stop(p)
      BY <3>1 DEF Stop, Gone, NoMemory
    <3>2. CASE Start(p)
      BY <3>2 DEF Start, IInv, ProcessesAreSane, NoMemory
    <3>3. CASE \/ (\E s \in Tensors : Ask(p, s)) \/ ReadMeta(p) \/ OpenData(p) \/ ReadInt8(p)
               \/ Store(p) \/ StoreFails(p)
      BY <3>3 DEF Ask, ReadMeta, OpenData, ReadInt8, Store, StoreFails
    <3>4. ~ReadEmptyMeta(p)
      BY DEF ReadEmptyMeta
    <3>5. CASE ReadScales(p)
      <4>1. /\ pc[p] = "scales" /\ ver' = ver
            /\ memory' = [memory EXCEPT ![p][asked[p]] =
                            [int8 |-> buf[p], scales |-> Part(p, "scales")]]
        BY <3>5 DEF ReadScales
      <4>2. disk[KeyOf(p)].data = Decoded(ver[p], asked[p])
        BY <4>1, WholeIsOwn
      <4>3. sizes[p] /\ buf[p] = <<ver[p], asked[p]>>
        BY <4>1 DEF IInv, OwnParts, Calm, EntryInHand
      <4>4. Part(p, "scales") = <<ver[p], asked[p]>>
        BY <4>2, <4>3 DEF Part, Decoded
      <4> QED
        BY <4>1, <4>3, <4>4 DEF Decoded
    <3>6. CASE Decode(p)
      BY <3>6 DEF Decode
    <3> QED
      BY <1>2, <3>1, <3>2, <3>3, <3>4, <3>5, <3>6 DEF Act
  <2> QED
    BY <2>1, <2>2
<1> QED
  BY <1>1, <1>2, NextActs

LEMMA CalmStep == IInv /\ [Next]_vars => Calm'
BY AloneStep, SealedStep, HandStep, MemoryStep DEF Calm

LEMMA StepIInv == IInv /\ [Next]_vars => IInv'
BY TypeStep, SaneStep, DataStep, OwnStep, CalmStep DEF IInv

\* The inductive invariant holds for any number of processes, tensors and
\* model files, whatever their sizes.
THEOREM CacheInvariant == Spec => []IInv
BY InitIInv, StepIInv, PTL DEF Spec

-----------------------------------------------------------------------------
(* The properties.                                                          *)

\* Every process holds whole entries of known parts, wherever it is killed.
THEOREM CacheTypes == Spec => []TypeOK
<1>1. IInv => TypeOK
  BY DEF IInv
<1> QED
  BY <1>1, CacheInvariant, PTL

\* Until processes overlap, a write fails or a model file takes the size of an
\* earlier one, store_weights() reaches the disk in an order that seals the
\* entry last: a whole .meta stands for the whole decoding of a file of the
\* key's size, whenever a process was killed.
THEOREM MetaSeals == Spec => []MetaSealsData
<1>1. ASSUME IInv, faults = {}, NEW v \in Versions, NEW t \in Tensors, disk[Key(v, t)].meta = "full"
      PROVE  \E w \in Versions : FileSize(w) = FileSize(v) /\ disk[Key(v, t)].data = Decoded(w, t)
  <2>1. PICK w \in 1 .. model : FileSize(w) = FileSize(v) /\ disk[Key(v, t)].data = Decoded(w, t)
    BY <1>1 DEF IInv, Calm, Sealed
  <2>2. w \in Versions
    BY <1>1, WeightCacheAssumption DEF IInv, TypeOK, Versions
  <2> QED
    BY <2>1, <2>2
<1>2. IInv => MetaSealsData
  BY <1>1 DEF MetaSealsData
<1> QED
  BY <1>2, CacheInvariant, PTL

\* In the same conditions get_or_decode() serves the decoding of the file its
\* process mapped, from memory, from the disk or from the decoder alike.
THEOREM ServedIsRight == Spec => []ServedRight
<1>1. IInv => ServedRight
  BY DEF IInv, Calm, ServedRight
<1> QED
  BY <1>1, CacheInvariant, PTL

\* Whatever overlaps, fails or is killed, with sizes read from the disk a
\* process is never served another tensor's part, nor one from a model file of
\* another size.
THEOREM ServedIsNotForeign == Spec => []NothingForeign
<1>1. IInv => NothingForeign
  BY DEF IInv, OwnParts, NothingForeign, Own
<1> QED
  BY <1>1, CacheInvariant, PTL

\* What get_or_decode() has returned for a tensor stays its entry for as long
\* as the process lives: no later read of the disk and no later decoding, of
\* this process or another, replaces it.
THEOREM ServedStays == Spec => ServedOnce
<1> DEFINE Stays == \A p \in Procs, t \in Tensors :
                      memory[p][t] # None /\ Alive(p)' => memory'[p][t] = memory[p][t]
<1>1. ASSUME IInv, [Next]_vars PROVE Stays
  <2> USE <1>1
  <2>1. ASSUME NEW q \in Procs, Act(q), NEW p \in Procs, NEW t \in Tensors,
               memory[p][t] # None, Alive(p)'
        PROVE  memory'[p][t] = memory[p][t]
    <3>0. TypeOK /\ (pc[p] \in {"scales", "decode"} => t # asked[p])
      BY <2>1 DEF IInv, AskedIsMissing
    <3>1. CASE q # p
      BY <2>1, <3>0, <3>1, OthersStay
    <3>2. CASE q = p
      <4> USE <3>0, <3>2 DEF TypeOK
      <4>1. ~Gone(p)
        BY <2>1 DEF Gone, Goto, Alive
      <4>2. CASE ReadScales(p)
        BY <4>2 DEF ReadScales
      <4>3. CASE Decode(p)
        BY <4>3 DEF Decode
      <4>4. CASE ~ReadScales(p) /\ ~Decode(p)
        BY <2>1, <4>1, <4>4 DEF Act, Start, Stop, Ask, ReadMeta, ReadEmptyMeta, OpenData, ReadInt8,
                               Store, StoreFails
      <4> QED
        BY <4>2, <4>3, <4>4
    <3> QED
      BY <3>1, <3>2
  <2> QED
    BY <2>1, NextActs DEF Replace, vars, procVars
<1>2. IInv /\ [Next]_vars => [Stays]_vars
  BY <1>1
<1> QED
  BY <1>2, CacheInvariant, PTL DEF Spec, ServedOnce
=============================================================================
