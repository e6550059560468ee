------------------------------- MODULE GgufFile -------------------------------
(***************************************************************************)
(* src/gguf/gguf.cpp: GgufLoader reads a model file field by field through *)
(* a buffer, maps it, and finds where the tensors' data begin.  A file is  *)
(* a function from the offset at which a field starts to its value; only   *)
(* the first `size` bytes of it are there.                                 *)
(***************************************************************************)
EXTENDS GgufTypes, FiniteSets, TLC

CONSTANTS Chunk,    \* kChunk, the size of the read buffer
          SizeMod   \* size_t counts modulo this (2^64 in the program)

ASSUME GgufAssumption == Chunk \in Nat \ {0} /\ SizeMod \in Nat \ {0}

VARIABLES
  disk,        \* the file opened: its fields, how many of its bytes are there, and what
               \* its writer put into it
  stage,       \* what load() does next, or how it ended
  turn,        \* the turns of the current parsing loop that are done
  rd,          \* fd_'s offset, read_buf_pos_, read_buf_len_, read_pos_
  header,      \* header_
  kv,          \* kv_pairs_
  tensors,     \* tensors_
  headerEnd,   \* header_end_offset_
  view         \* tensor_data_ptr_ (as an offset of the file), tensor_data_size_

ggufVars == <<disk, stage, turn, rd, header, kv, tensors, headerEnd, view>>

Loading == {"header", "kv", "tensors", "map"}
NoHeader == [magic |-> "", version |-> 0, tensor_count |-> 0, kv_count |-> 0]
NoView == [start |-> -1, size |-> 0]

LeastOf(m, n) == IF m < n THEN m ELSE n

-----------------------------------------------------------------------------
(* buffered_read().  A reader also says whether its last read was complete  *)
(* and what it read.                                                        *)

Unread == [fd |-> 0, at |-> 0, len |-> 0, pos |-> 0, ok |-> TRUE, val |-> 0]

\* Mutant: read_buf_pos_ is not reset.
RefilledAtOldPlace(r) ==
  LET n == LeastOf(Chunk, disk.size - r.fd) IN [r EXCEPT !.fd = @ + n, !.len = n]

\* One ::read() into the buffer.
Refilled(r) ==
  LET n == LeastOf(Chunk, disk.size - r.fd) IN [r EXCEPT !.fd = @ + n, !.len = n, !.at = 0]

RECURSIVE Advanced(_, _)
Advanced(r, n) ==
  IF n = 0 \/ (r.at >= r.len /\ r.fd = disk.size) THEN r
  ELSE IF r.at >= r.len THEN Advanced(Refilled(r), n)
  ELSE LET take == LeastOf(r.len - r.at, n)
       IN Advanced([r EXCEPT !.at = @ + take, !.pos = @ + take], n - take)

\* The byte of the file that comes out of the buffer next.
Source(r) == r.fd - r.len + r.at
FieldAt(p) == IF p \in DOMAIN disk.field THEN disk.field[p] ELSE 0

\* A read that follows a read that failed is not made.
Read(r, n) ==
  IF ~r.ok THEN r
  ELSE LET got == Advanced(r, n)
       IN [got EXCEPT !.ok = got.pos - r.pos = n, !.val = FieldAt(Source(r))]

Checked(r, fine) == [r EXCEPT !.ok = @ /\ fine]

\* A length and as many bytes; lengths above `limit` are refused.
ReadString(r, limit) ==
  LET len == Read(r, 8) IN Read(Checked(len, ~len.ok \/ len.val <= limit), len.val)

MaxName == 1024
MaxString == 64 * 1024 * 1024

-----------------------------------------------------------------------------
(* parse_kv(): one entry.  The bytes of a number are a number here; what    *)
(* the code makes of the sign of narrow integers is in Widened.             *)

Widened(t, v) ==
  CASE t \in {"UINT8", "INT8", "BOOL"} -> v % 256
    [] t \in {"UINT16", "INT16"} -> v % 65536
    [] OTHER -> v

NoValue == [type |-> "UINT8", int |-> 0, float |-> 0, str |-> "", elem |-> "UINT8", data |-> <<>>]

ScalarValue(t, v) ==
  IF t \in Floats THEN [NoValue EXCEPT !.type = t, !.float = v]
                  ELSE [NoValue EXCEPT !.type = t, !.int = Widened(t, v)]

RECURSIVE ReadStrings(_, _, _)
ReadStrings(r, n, read) ==
  IF ~r.ok \/ n = 0 THEN [rd |-> r, data |-> read]
  ELSE LET s == ReadString(r, MaxString) IN ReadStrings(s, n - 1, Append(read, s.val))

ReadArray(r) ==
  LET type == Read(r, 4)
      count == Read(type, 8)
      strings == ReadStrings(count, count.val, <<>>)
      numbers == Read(count, count.val * ElemSize(type.val))
      array == IF type.ok /\ type.val = "STRING" THEN strings ELSE [rd |-> numbers, data |-> numbers.val]
  IN [rd |-> array.rd,
      value |-> [NoValue EXCEPT !.type = "ARRAY", !.elem = type.val, !.data = array.data]]

ReadValue(r, type) ==
  CASE type = "STRING" ->
         LET s == ReadString(r, MaxString)
         IN [rd |-> s, value |-> [NoValue EXCEPT !.type = "STRING", !.str = s.val]]
    [] type = "ARRAY" -> ReadArray(r)
    [] IsScalar(type) ->
         LET s == Read(r, ScalarSize(type)) IN [rd |-> s, value |-> ScalarValue(type, s.val)]
    [] OTHER -> [rd |-> Checked(r, FALSE), value |-> NoValue]

KvEntry ==
  LET key == ReadString(rd, MaxName)
      type == Read(key, 4)
      rest == IF type.ok THEN ReadValue(type, type.val) ELSE [rd |-> type, value |-> NoValue]
  IN [rd |-> rest.rd, key |-> key.val, value |-> rest.value]

(* parse_tensors(): one entry.                                              *)

RECURSIVE ReadDims(_, _, _)
ReadDims(r, n, dims) ==
  IF ~r.ok \/ n = 0 THEN [rd |-> r, dims |-> dims]
  ELSE LET d == Read(r, 8) IN ReadDims(d, n - 1, Append(dims, d.val))

TensorEntry ==
  LET name == ReadString(rd, MaxName)
      ndim == Read(name, 4)
      dims == ReadDims(ndim, ndim.val, <<>>)
      type == Read(dims.rd, 4)
      offset == Read(type, 8)
  IN [rd |-> offset,
      info |-> [name |-> name.val, dims |-> dims.dims, type |-> type.val,
                offset |-> offset.val]]

-----------------------------------------------------------------------------
(* The accessors.                                                           *)

Has(key) == key \in DOMAIN kv
IsNumber(key) == Has(key) /\ kv[key].type \notin {"STRING", "ARRAY"}

get_string(key, default) == IF Has(key) THEN kv[key].str ELSE default
get_int(key, default) == IF IsNumber(key) THEN kv[key].int ELSE default
get_float(key, default) == IF IsNumber(key) THEN kv[key].float ELSE default

ArrayOf(key, types) ==
  IF Has(key) /\ kv[key].type = "ARRAY" /\ kv[key].elem \in types THEN kv[key].data ELSE <<>>
get_int_array(key) == ArrayOf(key, {t \in GgufType \ Floats : IsScalar(t)})
get_float_array(key) == ArrayOf(key, Floats)

General(name) == <<"general", name>>
arch == get_string(General("architecture"), get_string(General("name"), ""))
arch_key(suffix) == <<IF arch = "" THEN "llama" ELSE arch, suffix>>

\* A scalar's bytes are never kept, so general.data_offset is never found.
general_alignment == get_float(General("alignment"), 32)
tensor_data_offset == IF headerEnd = 0 THEN 0 ELSE AlignUp(headerEnd, general_alignment)

-----------------------------------------------------------------------------
GgufInit ==
  /\ stage = "closed" /\ turn = 0
  /\ rd = Unread
  /\ header = NoHeader
  /\ kv = <<>> /\ tensors = <<>>
  /\ headerEnd = 0 /\ view = NoView

Open ==
  /\ stage = "closed"
  /\ stage' = IF disk.exists THEN "header" ELSE "failed"
  /\ UNCHANGED <<disk, turn, rd, header, kv, tensors, headerEnd, view>>

ParseHeader ==
  /\ stage = "header"
  /\ rd' = Read(rd, 24)
  /\ IF rd'.ok /\ rd'.val.magic = "GGUF" /\ rd'.val.version = 3
     THEN header' = rd'.val /\ stage' = "kv"
     ELSE stage' = "failed" /\ UNCHANGED header
  /\ UNCHANGED <<disk, turn, kv, tensors, headerEnd, view>>

\* One turn of a parsing loop: it fails when one of its reads does.
Turn(entry) ==
  /\ rd' = entry.rd
  /\ turn' = turn + 1
  /\ stage' = IF entry.rd.ok THEN stage ELSE "failed"

\* A key that comes again replaces its first value.
ParseKv ==
  /\ stage = "kv" /\ turn < header.kv_count
  /\ LET e == KvEntry
     IN /\ Turn(e)
        /\ kv' = IF e.rd.ok THEN (e.key :> e.value) @@ kv ELSE kv
  /\ UNCHANGED <<disk, header, tensors, headerEnd, view>>

EndKv ==
  /\ stage = "kv" /\ turn >= header.kv_count
  /\ stage' = "tensors" /\ turn' = 0
  /\ UNCHANGED <<disk, rd, header, kv, tensors, headerEnd, view>>

ParseTensor ==
  /\ stage = "tensors" /\ turn < header.tensor_count
  /\ LET e == TensorEntry
     IN /\ Turn(e)
        /\ tensors' = IF e.rd.ok THEN Append(tensors, e.info) ELSE tensors
  /\ UNCHANGED <<disk, header, kv, headerEnd, view>>

EndTensors ==
  /\ stage = "tensors" /\ turn >= header.tensor_count
  /\ headerEnd' = rd.pos
  /\ stage' = "map"
  /\ UNCHANGED <<disk, turn, rd, header, kv, tensors, view>>

\* map_tensor_data()'s own reading of the alignment, for an offset past the file.
FallbackAlign ==
  LET int == get_int(General("alignment"), 0) IN IF int > 0 THEN int ELSE 32

DataOffset ==
  LET found == tensor_data_offset
  IN IF found = 0 \/ found >= disk.size THEN AlignUp(headerEnd, FallbackAlign) ELSE found

\* An alignment of zero is divided by: the process is killed.
MapTensorData ==
  /\ stage = "map"
  /\ IF headerEnd # 0 /\ general_alignment = 0
     THEN stage' = "crashed" /\ UNCHANGED view
     ELSE /\ view' = [start |-> DataOffset, size |-> (disk.size - DataOffset) % SizeMod]
          /\ stage' = "loaded"
  /\ UNCHANGED <<disk, turn, rd, header, kv, tensors, headerEnd>>

Load ==
  \/ Open \/ ParseHeader
  \/ ParseKv \/ EndKv \/ ParseTensor \/ EndTensors
  \/ MapTensorData

Unload ==
  /\ stage' = "unloaded"
  /\ view' = NoView
  /\ kv' = <<>> /\ tensors' = <<>>
  /\ header' = NoHeader
  /\ UNCHANGED <<disk, turn, rd, headerEnd>>
=============================================================================
