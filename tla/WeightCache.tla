----------------------------- MODULE WeightCache -----------------------------
(***************************************************************************)
(* The decoded-weight cache: WeightCache (include/ggnpu/weight_cache.h)    *)
(* over CompileCache's weight files (src/cache/cache.cpp), shared by every *)
(* ggnpu process of a machine, any of which may be killed at any moment    *)
(* (the chat server kills the one it waits for on a timeout).              *)
(*                                                                         *)
(* Data abstraction.  A decoded tensor is a pair of parts, the int8 values *)
(* and the scales; a part is the version of the model file and the tensor  *)
(* it was decoded from, Zero (what resize() leaves where the file is       *)
(* short) or Garbage (read with sizes that are not the file's).            *)
(***************************************************************************)
EXTENDS Integers, FiniteSets

CONSTANTS Procs,
          LastVersion,   \* bound: the files that are put at the model's path
          FileSize(_),   \* its size on disk
          Tensors,
          Type(_), DataSize(_),
          Decodable,     \* the tensors whose type decode_for_npu() knows
          Zero, Garbage, None

ASSUME WeightCacheAssumption ==
  /\ LastVersion \in Nat \ {0}
  /\ Tensors # {} /\ Decodable \subseteq Tensors
  /\ Zero # Garbage

Versions == 1 .. LastVersion     \* in the order in which they come

VARIABLES
  model,      \* the version the model file holds now
  disk,       \* the files <key>.meta and <key>, per key
  pc, ver, enabled,   \* per process: where it is, the version it mapped, --no-cache
  memory,     \* memory_cache_
  asked,      \* the tensor get_or_decode() is running for
  buf,        \* cached_int8, while cached_scales is still to be read
  sizes,      \* did int8_size and scales_size come from the file?
  faults      \* history: what has gone wrong so far

procVars == <<pc, ver, enabled, memory, asked, buf, sizes>>
vars == <<model, disk, procVars, faults>>

-----------------------------------------------------------------------------
(* Keys and contents.                                                       *)

\* Mutant: the model's fingerprint is left out.
KeyWithoutModel(v, t) == <<t, Type(t), DataSize(t)>>

\* make_key(): the fingerprint is "<path>:<file size>"; the path is the same
\* for every version.  The hash is taken to be injective, and the version
\* prefix, a function of the type, adds nothing to it.
Key(v, t) == <<FileSize(v), t, Type(t), DataSize(t)>>

Keys == {Key(v, t) : v \in Versions, t \in Tensors}

Decoded(v, t) == [int8 |-> <<v, t>>, scales |-> <<v, t>>]
Empty == [int8 |-> Zero, scales |-> Zero]

OnDisk == {Zero} \cup (Versions \X Tensors)
FileContents == [int8 : OnDisk, scales : OnDisk]
Entry == [int8 : OnDisk \cup {Garbage}, scales : OnDisk \cup {Garbage}]

\* No file, and no entry, differ from every file and entry there is.
ASSUME NoneAssumption == None \notin Entry

Meta == {"none", "empty", "full"}
Storing == {"store_meta", "store_data", "store_int8", "store_scales", "close_meta"}
PC == {"off", "idle", "meta", "data", "int8", "scales", "decode"} \cup Storing

\* The hazards that a run can meet.
Fault == {"overlap",    \* two processes have been alive at once
          "replaced",   \* the model file was replaced by one of a size it had before
          "unwritten",  \* a write to the cache failed (a full disk)
          "uninit"}     \* sizes were read from an empty .meta

\* The types: no process ever holds half an entry, or a part that is neither
\* read, zero-filled nor garbage.
TypeOK ==
  /\ model \in Versions
  /\ disk \in [Keys -> [meta : Meta, data : {None} \cup FileContents]]
  /\ pc \in [Procs -> PC]
  /\ ver \in [Procs -> Versions]
  /\ enabled \in [Procs -> BOOLEAN]
  /\ memory \in [Procs -> [Tensors -> {None} \cup Entry]]
  /\ asked \in [Procs -> Tensors]
  /\ buf \in [Procs -> OnDisk \cup {Garbage}]
  /\ sizes \in [Procs -> BOOLEAN]
  /\ faults \subseteq Fault

\* What the variables of a process hold while it does not use them.
AnyVersion == 1
AnyTensor == CHOOSE t \in Tensors : TRUE
NoMemory == [t \in Tensors |-> None]

Init ==
  /\ model = 1
  /\ disk = [k \in Keys |-> [meta |-> "none", data |-> None]]
  /\ pc = [p \in Procs |-> "off"]
  /\ ver = [p \in Procs |-> AnyVersion]
  /\ enabled = [p \in Procs |-> TRUE]
  /\ memory = [p \in Procs |-> NoMemory]
  /\ asked = [p \in Procs |-> AnyTensor]
  /\ buf = [p \in Procs |-> Zero]
  /\ sizes = [p \in Procs |-> TRUE]
  /\ faults = {}

-----------------------------------------------------------------------------
(* Processes and the model file.                                            *)

Alive(p) == pc[p] # "off"
Goto(p, where) == pc' = [pc EXCEPT ![p] = where]

\* A process maps the model and opens the cache; with --no-cache, without it.
Start(p) ==
  /\ ~Alive(p)
  /\ Goto(p, "idle")
  /\ ver' = [ver EXCEPT ![p] = model]
  /\ enabled' \in {[enabled EXCEPT ![p] = on] : on \in BOOLEAN}
  /\ faults' = faults \cup IF \E q \in Procs : Alive(q) THEN {"overlap"} ELSE {}
  /\ UNCHANGED <<model, disk, memory, asked, buf, sizes>>

\* A process is no more: its memory goes with it.
Gone(p) ==
  /\ Goto(p, "off")
  /\ ver' = [ver EXCEPT ![p] = AnyVersion]
  /\ enabled' = [enabled EXCEPT ![p] = TRUE]
  /\ memory' = [memory EXCEPT ![p] = NoMemory]
  /\ asked' = [asked EXCEPT ![p] = AnyTensor]
  /\ buf' = [buf EXCEPT ![p] = Zero]
  /\ sizes' = [sizes EXCEPT ![p] = TRUE]

\* It ends, or is killed, wherever it is; buffered writes are lost.
Stop(p) ==
  /\ Alive(p)
  /\ Gone(p)
  /\ UNCHANGED <<model, disk, faults>>

SizeSeen(v) == \E w \in 1 .. v - 1 : FileSize(w) = FileSize(v)

\* Another file is moved to the model's path: a running process keeps the one
\* it has mapped.
Replace ==
  /\ model < LastVersion
  /\ model' = model + 1
  /\ faults' = faults \cup IF SizeSeen(model') THEN {"replaced"} ELSE {}
  /\ UNCHANGED <<disk, procVars>>

-----------------------------------------------------------------------------
(* get_or_decode().                                                         *)

KeyOf(p) == Key(ver[p], asked[p])

\* Mutant: memory_cache_ is not looked at.
AskAgain(p, t) ==
  /\ pc[p] = "idle"
  /\ asked' = [asked EXCEPT ![p] = t]
  /\ Goto(p, IF enabled[p] THEN "meta" ELSE "decode")
  /\ UNCHANGED <<model, disk, ver, enabled, memory, buf, sizes, faults>>

\* A miss in memory_cache_; a hit changes nothing.
Ask(p, t) ==
  /\ pc[p] = "idle"
  /\ memory[p][t] = None
  /\ asked' = [asked EXCEPT ![p] = t]
  /\ Goto(p, IF enabled[p] THEN "meta" ELSE "decode")
  /\ UNCHANGED <<model, disk, ver, enabled, memory, buf, sizes, faults>>

\* get_weights(): no .meta is a miss, a whole one gives the sizes.
ReadMeta(p) ==
  /\ pc[p] = "meta"
  /\ disk[KeyOf(p)].meta # "empty"
  /\ Goto(p, IF disk[KeyOf(p)].meta = "none" THEN "decode" ELSE "data")
  /\ UNCHANGED <<model, disk, ver, enabled, memory, asked, buf, sizes, faults>>

\* An empty .meta: both reads fail, nothing looks at it, and the sizes are
\* whatever the stack held.  resize() throws (nobody catches it), or int8 has
\* size 0 (a miss), or some other size, the right one included.
ReadEmptyMeta(p) ==
  /\ pc[p] = "meta"
  /\ disk[KeyOf(p)].meta = "empty"
  /\ \/ Gone(p)
     \/ /\ Goto(p, "decode")
        /\ UNCHANGED <<ver, enabled, memory, asked, buf, sizes>>
     \/ /\ Goto(p, "data")
        /\ sizes' \in {[sizes EXCEPT ![p] = right] : right \in BOOLEAN}
        /\ UNCHANGED <<ver, enabled, memory, asked, buf>>
  /\ faults' = faults \cup {"uninit"}
  /\ UNCHANGED <<model, disk>>

\* Opening the data file; none is a miss.
OpenData(p) ==
  /\ pc[p] = "data"
  /\ IF disk[KeyOf(p)].data = None
     THEN Goto(p, "decode") /\ sizes' = [sizes EXCEPT ![p] = TRUE]
     ELSE Goto(p, "int8") /\ UNCHANGED sizes
  /\ UNCHANGED <<model, disk, ver, enabled, memory, asked, buf, faults>>

\* Mutant: what the file does not have is not filled with zeros.
PartUnfilled(p, part) ==
  IF ~sizes[p] THEN Garbage
  ELSE IF disk[KeyOf(p)].data[part] = Zero THEN None ELSE disk[KeyOf(p)].data[part]

\* resize() has filled the buffers with zeros; a short file leaves them.
Part(p, part) == IF sizes[p] THEN disk[KeyOf(p)].data[part] ELSE Garbage

ReadInt8(p) ==
  /\ pc[p] = "int8"
  /\ buf' = [buf EXCEPT ![p] = Part(p, "int8")]
  /\ Goto(p, "scales")
  /\ UNCHANGED <<model, disk, ver, enabled, memory, asked, sizes, faults>>

\* A short read is not noticed: the entry is used as it is.
ReadScales(p) ==
  /\ pc[p] = "scales"
  /\ memory' = [memory EXCEPT ![p][asked[p]] = [int8 |-> buf[p], scales |-> Part(p, "scales")]]
  /\ Goto(p, "idle")
  /\ buf' = [buf EXCEPT ![p] = Zero]
  /\ sizes' = [sizes EXCEPT ![p] = TRUE]
  /\ UNCHANGED <<model, disk, ver, enabled, asked, faults>>

\* decode_for_npu() throws for a type it does not know: nullptr.
Decode(p) ==
  /\ pc[p] = "decode"
  /\ IF asked[p] \in Decodable
     THEN /\ memory' = [memory EXCEPT ![p][asked[p]] = Decoded(ver[p], asked[p])]
          /\ Goto(p, IF enabled[p] THEN "store_meta" ELSE "idle")
     ELSE Goto(p, "idle") /\ UNCHANGED memory
  /\ UNCHANGED <<model, disk, ver, enabled, asked, buf, sizes, faults>>

-----------------------------------------------------------------------------
(* store_weights().  The sixteen bytes of the .meta sit in its stream until *)
(* the stream is destroyed, which is after the data file has been closed.   *)

\* Mutant: the .meta is written out before the data.
AfterOpenMetaEager(d) == [d EXCEPT !.meta = "full"]

AfterOpenMeta(d) == [d EXCEPT !.meta = "empty"]

Written(d, step, v, t) ==
  CASE step = "store_meta" -> AfterOpenMeta(d)
    [] step = "store_data" -> [d EXCEPT !.data = Empty]
    [] step = "store_int8" -> [d EXCEPT !.data.int8 = <<v, t>>]
    [] step = "store_scales" -> [d EXCEPT !.data.scales = <<v, t>>]
    [] step = "close_meta" -> [d EXCEPT !.meta = "full"]

After(step) ==
  CASE step = "store_meta" -> "store_data"
    [] step = "store_data" -> "store_int8"
    [] step = "store_int8" -> "store_scales"
    [] step = "store_scales" -> "close_meta"
    [] step = "close_meta" -> "idle"

Store(p) ==
  /\ pc[p] \in Storing
  /\ disk' = [disk EXCEPT ![KeyOf(p)] = Written(@, pc[p], ver[p], asked[p])]
  /\ Goto(p, After(pc[p]))
  /\ UNCHANGED <<model, ver, enabled, memory, asked, buf, sizes, faults>>

\* An open or a write that fails is not noticed either; what would have gone
\* through a stream that did not open is lost with it.
AfterFailed(step) ==
  CASE step = "store_meta" -> "idle"
    [] step = "store_data" -> "close_meta"
    [] OTHER -> After(step)

StoreFails(p) ==
  /\ pc[p] \in Storing
  /\ Goto(p, AfterFailed(pc[p]))
  /\ faults' = faults \cup {"unwritten"}
  /\ UNCHANGED <<model, disk, ver, enabled, memory, asked, buf, sizes>>

Next ==
  \/ Replace
  \/ \E p \in Procs :
       \/ Start(p) \/ Stop(p) \/ \E t \in Tensors : Ask(p, t)
       \/ ReadMeta(p) \/ ReadEmptyMeta(p) \/ OpenData(p) \/ ReadInt8(p) \/ ReadScales(p)
       \/ Decode(p) \/ Store(p) \/ StoreFails(p)

Spec == Init /\ [][Next]_vars

-----------------------------------------------------------------------------
(* Properties.                                                              *)

\* As long as processes run one after the other, no write fails and no model
\* file takes the size of an earlier one, a whole .meta stands for whole data,
\* whenever a process is killed: the order in which store_weights() reaches the
\* disk seals the entry last.
MetaSealsData ==
  faults = {} =>
    \A v \in Versions, t \in Tensors :
      disk[Key(v, t)].meta = "full" =>
        \E w \in Versions : FileSize(w) = FileSize(v) /\ disk[Key(v, t)].data = Decoded(w, t)

\* In the same conditions, and while no process has met the empty .meta a
\* killed one left behind, what a process multiplies by is the decoding of the
\* file it mapped, whether it came from its memory, the disk or the decoder.
ServedRight ==
  faults = {} =>
    \A p \in Procs : Alive(p) =>
      \A t \in Tensors : memory[p][t] \in {None, Decoded(ver[p], t)}

\* Whatever overlaps, fails to be written or is killed, every part a process
\* is served with sizes read from the disk is missing (zero) or decoded from
\* that very tensor of a file of the same size: never another tensor's, nor
\* another model's.
NothingForeign ==
  "uninit" \notin faults =>
    \A p \in Procs : Alive(p) =>
      \A t \in Tensors : memory[p][t] # None =>
        \A part \in {"int8", "scales"} :
          memory[p][t][part] \in
            {Zero} \cup {<<v, t>> : v \in {w \in Versions : FileSize(w) = FileSize(ver[p])}}

\* What a process has been served it keeps for as long as it lives: the pointer
\* get_or_decode() returned is a key of the tile caches of the backend.
ServedOnce ==
  [][\A p \in Procs, t \in Tensors :
       memory[p][t] # None /\ Alive(p)' => memory'[p][t] = memory[p][t]]_vars
=============================================================================
