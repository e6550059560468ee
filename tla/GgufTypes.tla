------------------------------ MODULE GgufTypes ------------------------------
(* The types of a model file's values and tensors and the sizes they take    *)
(* (include/ggnpu/gguf.h, src/gguf/tensor.cpp).                              *)
EXTENDS Integers, Sequences

GgufType == {"UINT8", "INT8", "UINT16", "INT16", "UINT32", "INT32", "FLOAT32", "BOOL",
             "STRING", "ARRAY", "UINT64", "INT64", "FLOAT64"}
Floats == {"FLOAT32", "FLOAT64"}
IsScalar(t) == t \in GgufType \ {"STRING", "ARRAY"}

ScalarSize(t) ==
  CASE t \in {"UINT8", "INT8", "BOOL"} -> 1
    [] t \in {"UINT16", "INT16"} -> 2
    [] t \in {"UINT32", "INT32", "FLOAT32"} -> 4
    [] OTHER -> 8

ElemSize(t) == IF IsScalar(t) THEN ScalarSize(t) ELSE 4

\* ggml_blck_size() and ggml_type_size(), from F32 (0) to Q4_0_4_4 (31).
block_sizes == <<1, 1, 32, 32, 1, 1, 32, 32, 32, 32, 256, 256, 256, 256, 256, 256,
                 256, 256, 256, 256, 32, 256, 256, 256, 1, 1, 1, 1, 1, 256, 1, 32>>
type_sizes == <<4, 2, 18, 20, 1, 1, 20, 22, 34, 34, 84, 110, 144, 176, 210, 292,
                66, 74, 98, 50, 18, 110, 82, 136, 1, 2, 4, 8, 8, 56, 2, 18>>

BlckSize(t) == IF t + 1 \in DOMAIN block_sizes THEN block_sizes[t + 1] ELSE 1
TypeSize(t) == IF t + 1 \in DOMAIN type_sizes THEN type_sizes[t + 1] ELSE 4

Product(dims) ==
  LET upTo[i \in 0 .. Len(dims)] == IF i = 0 THEN 1 ELSE upTo[i - 1] * dims[i]
  IN upTo[Len(dims)]

DataSize(dims, t) == (Product(dims) \div BlckSize(t)) * TypeSize(t)

AlignUp(n, align) == ((n + align - 1) \div align) * align
=============================================================================
