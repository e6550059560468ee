# ggnpu: a TLA+ model of the runtime

ggnpu runs GGUF language models on AMD XDNA NPUs. This directory models a run
of it from the model file to the text printed: reading the file and setting up
the context, cutting the prompt into tokens, decoding the weights, the generation
loop with its KV cache, and the operators of the NPU backend with the kernels they
find or build; beside it, the weight cache that processes share through the disk,
and the chat server that runs one process per message. TLC checks each of them
on small instances; TLAPS proves the main results about the generation loop and
the bf16 product for all sizes.

Paths below are relative to the repository.

## 1. Inventory

| Component | Source | State | Operations | Modelled in |
|---|---|---|---|---|
| Generation loop | `src/cli/main.cpp` (`main`, 2286-3669) | `pos`, `prompt_idx`, `generated`, `last_sampled`, `seq`, the current block, `inp_embd` | prefill chunk, decode, draft (`lookup_draft`), forward pass, sampling, verification, rollback, emission, error returns | `Generate` (abstract: `GreedyDecode`) |
| Gemma, LFM2 and Qwen3.5 passes | `src/cli/main.cpp` (2077-2284, 2378-3232) | `gplan`, `lconv_state`, `q35_conv_state`, `q35_rec_state`, the K/V stores of each | one layer of each kind, per-layer embeddings, experts | `HybridForward` |
| KV cache | `src/runtime/kv_cache.cpp` | `keys_`, `values_`, `current_pos_` | `reset`, `update_slab`, `set_position`, `key_buffer` | `KVCache` |
| Quantized product | `src/backends/amd_xdna/amd_xdna.cpp` (`mul_mat_q`, 491-952) | pipeline slots per kernel, global B-tile cache, `resident_b_bos_` | path choice, pack, submit, wait, accumulate | `MatmulPipeline` |
| bf16 product | same file (`matmul_bf16`, 1133-1282) | staging buffers and the extents last written, accumulator | pack, clear border, launch, accumulate, store | `Bf16Matmul` |
| Other NPU operators | same file (954-2034) | tiled sizes, validated sizes | `rms_norm`, `rope`, `rope_batched`, `softmax`, `silu`, `gelu`, `flash_attn` fused and decomposed | `NpuOps` |
| Kernel registry, JIT | same file (2050-2900), `kernels.cpp`, half of `src/cache/cache.cpp` | xclbin files and sequences, kernels by shape, optional paths | open at start, `ensure_*_kernel`, `jit_compile_*` | `NpuKernels` |
| Weight cache | `include/ggnpu/weight_cache.h`, `src/cache/cache.cpp` | `memory_cache_`; two files per tensor | `get_or_decode`, `get_weights`, `store_weights` | `WeightCache` |
| GGUF parser | `src/gguf/gguf.cpp`, `tensor.cpp` | file position and read buffer, header, `kv_pairs_`, `tensors_`, mapping | `load`, `unload`, accessors | `GgufTypes`, `GgufFile` |
| Model loading | `src/arch/llama/llama.cpp`, `main.cpp` (1210-1290) | `hparams_`, `tensor_map_`, `tensors_`, the cache's geometry, the loop's sizes | `load`, `set_context_length`, `-c`, the cap | `ModelSetup` |
| Decoders | `src/quant/`, `include/ggnpu/quant/`, `main.cpp` (266-328) | none | `decode_for_npu`, `dequant_tensor_row`, `compute_logits` | `QuantBlocks`, `Weights` |
| Tokenizer | `src/cli/tokenizer.cpp` | vocabulary, merges, scores | load, encode, decode | `Tokenizer` |
| Unicode | `src/cli/unicode.cpp`, `unicode-data.cpp` | none | UTF-8, classes, `unicode_regex_split` | `Unicode`, `PreTokenize` |
| Chat | `scripts/chat_server.py`, `web/index.html` | `_inference_lock`; `history`, `busy` | send, clear, reload; `do_POST`, `run_ggnpu` | `ChatServer` |
| CPU backend | `src/backends/cpu_ref/` | none | one loop per operator | the reference of `NpuOps` |
| Scripts, tests | `scripts/*.sh`, `tests/` | | | one installation step, in `NpuOps` |

How they interact. `main()` loads the model, sizes the cache and the loop, encodes
the prompt, and enters the loop. The loop calls the backend synchronously, one
thread, and keeps the only reference to the KV cache. It asks `WeightCache` for
the int8 form of each weight before each product and passes the *address* to
`mul_mat_q`, which uses it as a cache key. `mul_mat_q` starts many device runs
before it waits for the first. Several ggnpu processes share the files of
`~/.cache/ggnpu`, the weights and the kernels; `build-kernels.sh` adds kernels
while they run. The chat server starts one process per message and kills it when
it takes too long.

What is hard, and where it is modelled:

* a speculative block writes K/V rows of tokens that are then rejected, and
  positions, counters and the end of the context have to agree over any number
  of chunks and drafts (`Generate`, with `KVCache`);
* layers that remember in ways a KV cache does not, and layers that borrow from
  others (`HybridForward`);
* buffers that live across calls and are only partly rewritten (`Bf16Matmul`,
  `MatmulPipeline`);
* asynchronous completion in any order, an error half way through a batch
  (`MatmulPipeline`);
* kernels of fixed sizes behind operators of any size: padding, tiling, packing,
  corrections, a validation that looks once, a kernel that is missing, built
  wrongly, of another shape, or installed while the process runs (`NpuKernels`,
  `NpuOps`);
* processes killed between two writes, writes that fail, two writers of the same
  file, a model file replaced under the cache (`WeightCache`);
* a file format read through a buffer from files that end anywhere, and two
  places that work out the size of the context (`GgufFile`, `ModelSetup`);
* bit layouts read by code written more than once (`QuantBlocks`, `Weights`);
* regular expressions translated by hand, and a queue of candidates that go stale
  (`PreTokenize`, `Tokenizer`);
* threads, timeouts, requests whose page is gone (`ChatServer`).

`PROJECT.json` lists each of these hazards at its line.

## 2. Modules

    KVCache <-- Generate <-- MCGenerate                 (TLC)
                   |   \---- Generate_proofs            (TLAPS)
                   \- INSTANCE GreedyDecode             (what it implements)
    HybridForward <-- MCHybridForward, HybridForward_proofs
    Bf16Matmul <-- MCBf16Matmul, Bf16Matmul_proofs
    MatmulPipeline <-- MCMatmulPipeline, MatmulPipeline_proofs
    NpuKernels <-- NpuOps <-- MCNpuOps, NpuOps_proofs
    WeightCache <-- MCWeightCache, WeightCache_proofs
    Unicode <-- PreTokenize <-- Tokenizer <-- MCTokenizer, Tokenizer_proofs
    GgufTypes <-- GgufFile <-- ModelSetup <-- Weights <-- MCWeights
              \-- GgufWriter (test files)  QuantBlocks --/
    ChatServer <-- MCChatServer, ChatServer_proofs

`MC*` modules only give constants their values. An operator whose comment starts
with "Mutant:" is a plausible mistake in the definition that follows it. No
specification uses one; the `mutants` of `PROJECT.json` say which property fails
when it takes the place of that definition.

### KVCache and Generate

`KVCache` has one row per layer and position: a row stands for the K and the V
of all heads, which `update_slab()` copies in the same way. `Generate` EXTENDS it.
A row holds the *token* it was computed from, or `NoRow`. The hidden state of a
row of the block is the sequence of tokens it has attended, or not ok: it is ok
after a layer exactly when it was ok before, every row it attends is a token's,
and the tokens are the ones it attended in the previous layer. The model is any
function `Greedy(weights, tokens)`, the arg max of the logits; when a hidden
state is not ok, the prediction is any token.

| Action | Code (`src/cli/main.cpp`) |
|---|---|
| `BeginPrefill` | 2332-2337, 2351-2375 |
| `BeginDecode` (with `Drafts`) | 2340-2350, `lookup_draft` 397-415 |
| `LayerForward` | one iteration of 3235-3500, every launch successful |
| `LayerForwardFailedMatmul` | the same with a failed `mul_mat_weight`, whose result is ignored |
| `LayerFails` | the `return 1` of `rms_norm`, `flash_attn`, `silu` |
| `LayerOverrun` | RoPE tables and the K/V expansion past the context |
| `FinishPrefillChunk` | 3514-3522 |
| `SampleNext` | 3514, 3590-3652 at temperature 0 |
| `VerifyDraft` | 3514, 3524-3568 |
| `EmitCommitted` | one iteration of 3571-3581 |
| `ExitLoop` | the loop condition 2315, 3654-3669 |

`LayerOverrun` is an alternative to `LayerForward`, not forced: the reads are
undefined behaviour, and the build may crash or go on with meaningless values (which
then make the row not ok).

`GreedyDecode` is what the loop promises: tokens appended one at a time, each the
greedy one, stopping when the sequence ends in EOS, the token budget is spent or
the context is full; or failing at any time. It has two concessions, each a named
part of it: with drafts a run may stop up to `Slack` = `SpecK` positions before the
end of the context (the loop over the accepted tokens compares a `pos` that is
already at the end of the block, `main.cpp:3579`), and from the first lost product
on (`Spoil`) nothing is promised of the tokens, only that they end.
`ImplementsSequential` states that `Generate` implements it; an emission step is one
abstract step, everything else stutters.

### HybridForward

The same loop for the architectures with a forward pass of their own, which do not
speculate and do not use the KV cache. Values are symbols: a row is the expression
that gave it, with the layer, head and position of everything that went in, so a
layer that reads the wrong input, head, tap, range or order gives another symbol.

| Action | Code (`src/cli/main.cpp`) |
|---|---|
| `BeginPrefill`, `BeginDecode`, `ExitLoop` | 2319-2375, 3654-3669 |
| `ShortConvLayer` | 2687-2734: `lconv_state` read oldest first, then rolled |
| `DeltaNetLayer` | 2893-3035: convolution, heads, gated delta rule |
| `AttentionLayer` | 2735-2818 and 3036-3095: append K/V, expand to all heads |
| `GemmaLayer` | 2425-2666: all rows, own or borrowed K/V, window, per-layer embedding |
| `LayerFails` | every `return 1` inside a pass |
| `FinishPrefillChunk`, `SampleNext` | 3502-3522, 3590-3648 |

The matrix of a value head is the sequence of updates made to it, and what is read
from it names how many had been made. A feed-forward network is a function of its
row; the router's choice of experts is spelled out, with logits given by the row's
token. A product whose failure is ignored leaves `Junk`, in what is remembered or only
in what is passed on; one such failure per behaviour. `WholeRows` is the reference:
the same architecture as a function of the whole text, without any memory.
`ModelsAssumption` says what a model is: a number of layers and heads, query heads that
divide among the key-value heads, for each gemma4 layer one at or below it that
has keys of its range (the code does not look whether `kv_src` stayed -1), and router
logits without ties (`partial_sort` leaves the order of equal ones open).

### Bf16Matmul

Elements are named by call and indices, so a stale element of an earlier call can
be told from a current one. A device result at (r, c) is the *set* of products of
non-zero pairs, an accumulator the sequence of such sets. `Pack` is 1198-1221,
`Launch` 1224-1246, `LaunchFails` 1233-1237, `Store` 1255-1262 and the loop heads.

### MatmulPipeline

A packed tile is named by the weight, its origin, row stride and depth; an
output by the pair of tiles multiplied. `Submit` is one iteration of phase 1 of
`flush_batch` (792-854), `Wait` one of phase 2 (865-900) plus the tile loops,
`SubmitThrows` the `catch` of 849, `Unsupported` the check of 807.
`DeviceCompletes` is external: a run completes at any time after its start and
reads its operand buffers then, at the latest moment the hardware could. The four
paths (plain, small M, deep K, wide N) have slots of their own, as in the code.

### NpuKernels and NpuOps

A behaviour follows one operator, `op`, through up to `MaxRuns` processes over one
cache directory. `NpuKernels` has the files: an xclbin keeps the shape it was
compiled for and whether it computes rightly, a sequence the shape it drives; the
name `<<>>` is that of a file without a shape. `Preloaded` and `OpenBackend` are the
constructor, `Candidates` the order in which each `ensure_*_kernel()` looks (the
orders differ between operators, as in the code), `JitDisk` what the compiler
leaves behind, which is not always what was asked for. `Lookup` is the map of
kernels in front of it, `PathLoaded` the memo of the optional product kernels.

`NpuOps` has one action per operator. A call holds the backend's mutex and no
two overlap, so it is one step; whether a device takes a file (`opens`), the
compiler works (`builds`) and the launch throws (`throws`) are chosen by it.
Values are symbols: an element is its place in the input, a result the expression
computed, so a head rotated with another's angles, a chunk written twice or a sum
over the wrong width differ from what they should be. `Fits` says when a kernel
computes what a call needs; otherwise the output is `Junk`. `Reference` is the
CPU backend. `InstallFile` and `InstallSequence` are `build-kernels.sh` in another
terminal.

### WeightCache

`get_or_decode()` is cut where another process, or the kill of this one, can fall
between two effects on the disk: `Ask` (memory), `ReadMeta`, `OpenData`,
`ReadInt8`, `ReadScales`, `Decode`, and the five steps of `Store`. The sixteen
bytes of the `.meta` stay in the stream's buffer until the stream is destroyed,
which C++ does after destroying the data stream declared later: the `.meta` is
created empty first and filled last. Local variables keep the two sizes
uninitialized when the `.meta` is empty; the model takes every outcome. The
history variable `faults` records which unusual circumstances a behaviour has met.

### GgufTypes, GgufFile, ModelSetup, QuantBlocks, Weights

One specification grown in layers. `GgufFile` is `GgufLoader`: a file is a function
from offsets to field values of which only the first `size` bytes are there;
`buffered_read()` is modelled with its descriptor, buffer and position, in chunks of
`Chunk` bytes. `Load` steps through header, one key-value pair or tensor at a
time, and the mapping; every early return is there, and an alignment of zero
divides (`stage = "crashed"`). `ModelSetup` follows `Model::load()` and then what
`main()` does until the loop: `OverrideContext` (`-c`), `CapContext`, `SizeLoop`.
`QuantBlocks` has the layout of each block type, at the offsets and shifts of the
code, in integers (eighths of 2^-24); `Weights` what is made of them:
`DecodeForNpu`, `DequantRow`, expert slices, flat fall-backs, `Logits` by both ways.
`GgufWriter`, external, writes test files: it packs known weights by its own
definitions of the formats, so a layout read wrongly shows as another weight.

### Unicode, PreTokenize, Tokenizer

A string is a sequence of bytes. `Unicode` is UTF-8 and the classes of code points;
`PreTokenize` each hand-written splitter as a function from the classes of a text
to the ends of its words, and, apart from it, a small matcher of regular
expressions with the expression each splitter's comment gives. `Tokenizer` is
loading, encoding and decoding. The merge loop is one action per popped candidate
(`Pop`), over the linked list `symbols` and the `queue` whose members may be stale;
the queue's order says nothing of two candidates with the same left symbol and
score, so `Pop` takes any. `SplitSpare` runs the splitters no known model asks for.

### ChatServer

One variable per fact of the page and of a handler thread; a request goes through
`stage`. `BadRequest`, `Unavailable`, `Reply`, `ReplyFails` and `Drop` are the ways
a request ends. `SpawnFails` stands for both exceptions that can be raised
between acquisition and reply. `Restart` closes all connections and may leave ggnpu
processes behind (`orphans`).

## 3. Runs

| Run | Instance | Shows |
|---|---|---|
| `gen` | 48 models, prompts up to 3 and one of 4, context 5, 3 tokens, drafts and chunks of 2, projections fail | `IInv`, `OutputIsGreedy`, `CacheHoldsSequence`, `Accounting`, `CommittedRowsStay`, `ImplementsSequential`, `Terminates` |
| `gen_overrun` | context 5, 6 tokens, drafts of 2 | violates `BlockFitsContext` |
| `hybrid` | seven models of 2 to 5 layers, prompts of 1, 2, 3 and 6 in a context of 5, blocks of 2 | `OutputIsWhole`, `MemoriesMatchPosition` |
| `bf16` | tile 2, shapes below, at and above it, three calls | `StagePadding`, `ProductExact` |
| `pipeline` | tiles 2, deep 4, wide 4, batches of 3, four weights, two calls | `ProductExact`, `OperandsStay`, `CallReturns` |
| `ops` | see below, two calls in each of two processes | `OkIsReference`, `ErrorHasCause`, `RouteIsFixed` |
| `weight_cache` | two processes, two tensors (one that cannot be decoded), three model files, the third of the size of the first | `MetaSealsData`, `ServedRight`, `NothingForeign`, `ServedOnce` |
| `text` | 12 tokenizers, 3 more splitters, about 2000 prompts | `CutsCover`, `SplitIsRegex`, `HanApart`, `ListSpellsWord`, `BestFirst`, `RoundTrip`, `ThrowsOnlyPastUnicode` |
| `load` | a buffer of 64 bytes; files of every value and block type, 32 subsets of keys, one file cut at every byte | `FileIsWhatWasWritten`, `TensorDataIsWhereWritten`, `CacheFitsLoop`, `RowsAreWritten`, `NpuWeightsAreWritten`, `LogitsAreProducts` |
| `load_align` | a file with `general.alignment` | violates `AlignmentIsRead` |
| `chat` | two tabs, two threads, one turn, one clear, one orphan | `OneInference`, `HistoryIsCurrent`, `LockComesFree`, `TabComesBack` |
| `chat_timeout` | the same | violates `TimeoutAnswered` |

Why the bounds are enough.

*Generation.* Two layers let one layer be ahead of another. Three tokens and models
that look at the last two make drafts that are accepted whole, in part and not at
all, and bonus tokens that match or not; models that end the text after more than
one pair of tokens print little and are left out of `gen`. The context of 5 puts
its end inside a draft, at a draft's end and just after; prompts of 3 take two
chunks, and the one of 4 leaves room for two tokens. Prompts beginning with the
other letter only rename the models.

*Other architectures.* Two and three taps; 4 query heads on 2 K/V heads, 4 value heads
on 2 key heads, so that remainder and quotient differ; gemma models whose owners of
the two ranges alternate or do not, with borrowers of both, windows of 1 and 2 and
none, one pattern shorter than the layers; a last layer cut by `GGNPU_MAX_LAYERS` and
one that only predicts (`nextn`). Six tokens are three blocks, each window starting
inside and before the block.

*Products.* Tiles of 2 with sizes of 1 to 3 have full, partial, single and several
tiles in each dimension, and the extents grow and shrink between calls.
`StagePadding` is a property of its own because `ProductExact` alone would not
notice one dirty stage: a stale element of B's padding is multiplied by a zero of
A's. Batches of 3 divide no tile count evenly and reuse slots within a call.

*Operators.* rmsnorm widths 1, 2, 4 and the power of two above, with sizes at and
between them; an activation kernel of 3 elements for inputs of 1, 3, 4 and 7
(below, exact, one and two chunks over); rope launches that hold one or several
heads, with full and partial groups, adjacent and split pairs; softmax 1 and 2
square; attention with a query before, at and without a position. A disk starts
with the default kernel absent, without its sequence, wrong or right, alone or
beside a kernel of another shape.

*Weights and disks.* Two processes are enough to overlap, and a kill and a restart
give a reader any number of predecessors.

*Files.* The 64-byte buffer is refilled inside strings, arrays and between fields;
in the program the same code runs with a megabyte. Each quantized type has whole
tensors of two rows, with every nibble value and scale field taking several
values; both values of every sign and high bit occur.

*Text.* Prompts over an alphabet with one member of each class a splitter tests
(letter, other letter case, digit, blank, line feed, punctuation, no-break space,
mark, Han, and the letters of contractions), up to 3 of the whole alphabet and 4 or
5 of the parts that interact; for merging, all words of two letters up to 6 with
merges whose ranks overlap.

CHECK_DEADLOCK is off where the system stops (`Generate`, `ModelSetup`) or where a
bound on calls ends the behaviour; `weight_cache`, `text` and `chat` check it.

Fairness. `Generate`: one thread that never blocks, weak fairness of `Next`.
`MatmulPipeline`: weak fairness of the host inside a call and of the device, which
completes what it has been given; no fairness that a caller calls. `ChatServer`: weak
fairness of each handler thread: `subprocess.run` returns at the latest at its
timeout, the lock is never waited for; nothing is assumed of the browser or of
orphans. The safety-only modules have none.

### Where code and documentation disagree

The violated properties are the findings of `PROJECT.json`:

* **Overrun.** A draft or a prompt is not bounded by the room left in the context.
* **Alignment.** `general_alignment()` reads an integer key with `get_float()`, gets
  0 and divides by it (`gguf.cpp:461-466`).
* **Timeout.** `subprocess.TimeoutExpired` carries bytes; the reply cannot be
  encoded and is never sent.

Others were met and have no run of their own.

Generation and chat:

* No forward pass looks at what `mul_mat_weight` returns: a failed projection leaves
  zeros and tokens computed from them are printed, although NPU operations "**fail with
  an error**" (`IMPLEMENTATION.md:584`). What the runs show after such a failure is
  what still holds: positions, counters, lengths.
* With an accepted draft that ends at the context's end, the commit loop prints one
  token and stops, although "argmax verification == sequential greedy"
  (`main.cpp:2297`); `GreedyDecode` allows it as `Slack`.
* The clear button works while a reply is pending, and the reply then adds the old
  turn to the new conversation's history. `HistoryIsCurrent` excludes tabs cleared
  while busy (`clearedBusy`).

Caches:

* `IMPLEMENTATION.md:324` says the weight cache is "keyed by `(model_path, mtime,
  tensor_name)`"; the key has the size in place of the time (`main.cpp:1208`).
  `ServedRight` therefore excludes behaviours in which a file of a size seen
  before takes the model's path (fault `replaced`).
* `BTileKey` (`amd_xdna.cpp:305`) has neither the row stride nor the depth of the
  tile; without resident weights (`GGNPU_NO_RESIDENT_W`) a tail tile packed for one
  path can be found by another. `pipeline` has resident weights, the default.
* An empty `.meta` left by a killed process makes `get_weights()` use uninitialized
  sizes (fault `uninit`), and a start that throws leaves runs in flight whose
  buffers the next call rewrites (`thrown`).

Operators and kernels:

* "Prefer an exact-N kernel (prebuilt 8192, or one JIT-built for this N)"
  (`amd_xdna.cpp:1644`): JIT compiles a fixed size, or takes the file that is there,
  and files it under N; then the launch computes part of the output. silu,
  softmax and rope check nothing, so `OkIsReference` excludes it (`Unnoticed`).
* `jit_compile_rmsnorm()` overwrites the file without a shape; instruction sequences
  are looked for in the cache directory only, and all but rmsnorm use the one
  without a shape.
* A size is marked validated before it is (1081, 1800), which is harmless only
  because `main()` ends on ERROR; a first input near zero validates anything.
* The fused attention kernel is not told `query_pos`.

Loading:

* A file without `context_length` gets a cache of 2048 positions and `ctx_size` 0;
  `CacheFitsLoop` is about runs with a context.
* `general.data_offset` is never honoured (a scalar never fills `data`); integer
  `rope.freq_base` is ignored; 8- and 16-bit integers are not sign-extended; a file
  cut between metadata and data wraps `tensor_data_size_`, and the end of a tensor
  is not compared with the file's.
* `dequant_tensor_row()` has no case for the repacked Q4_0_4_4: when the NPU fails,
  its logits are zero. Types nothing decodes are read as F32 with a warning.

Text:

* Unknown `tokenizer.ggml.pre` values give the text's own bytes to a vocabulary in
  the byte alphabet: bytes from 0x80 and blanks are dropped. A unigram byte without a
  token becomes `unk_token_id_`, which may be -1.
* Bytes F4 to F7 that spell a code point past U+10FFFF throw (`unicode.cpp:1117`).
* tekken goes through the generic splitter, whose collapsed classes do not tell
  cases apart: "HelloWorld" is one word, which the comment at `tokenizer.cpp:253`
  does not expect.
* `add_bos_token` is read and not used; two tokens of one text make `vocab_size()`
  smaller than the matrix has rows (`LogitsAreProducts` includes this case).

## 4. Proofs

`Generate_proofs` proves, for all models, prompts, contexts, chunk sizes, draft
lengths and budgets:

    InvariantHolds         Spec => []IInv
    TypeCorrect            Spec => []TypeOK
    GreedyOutput           Spec => []OutputIsGreedy
    CacheCorrect           Spec => []CacheHoldsSequence
    AccountingCorrect      Spec => []Accounting
    CommittedRowsAreFinal  Spec => CommittedRowsStay

Assumptions: the named ones of the modules (`KVCacheAssumption`,
`GenerateAssumption`) and two hypotheses of the theorems. `GreedyIsToken`: the arg
max is a token of the vocabulary. `PromptsFit`: no prompt is longer than the
context; without it the program overruns before it prints anything (the finding
above), and nothing can be said.

The argument. None of the three safety properties is inductive. While a block is in
its forward pass the cache has rows of layers already run and old rows of the
others, so `IInv` describes the pass: `BlockRows` (layers below `layer` have the
block's tokens at the block's positions), `BlockHidden` (row r has attended
exactly the tokens up to its own), `CommittedRows` (below `pos`, every layer
has the sequence's tokens). With these, a row's prediction is the greedy token
for the prefix that ends at it, *provided the tokens fed before it are the
sequence's*; that is so for row 1, and for row m+1 once draft m has been accepted.
`VerifyDraft` thus commits greedy tokens (`FullIsGreedy` speaks of `seq \o committed`,
printed and accepted), and rolls `pos` back to the end of what it committed, so that
`CommittedRows` holds again although rejected rows remain above `pos`. `Shape`
relates counters, `pos` and the sequence at each phase and holds even after a
failed projection; `Contents` holds until one. Rows past the context are the
subtle case: a query at or past `NCtx` is not ok and predicts anything, but
`ContextFull` stops the emission before a token predicted from such a row is
printed, which is why `FullIsGreedy` is bounded by `NCtx + 1`.

    LoopImplementsSequential
        Spec => Sequential!Init /\ [][Sequential!Next]_(Sequential!gdVars)

`LoopImplementsSequential`, with the same hypotheses, is the refinement of
`GreedyDecode` but for its fairness. The simulation goes by `IInv`: an emission
is `GreedyDecode`'s next token (`GreedyPrinted`), its stop conditions are those of the
loop's head and of the loop over the accepted tokens, and every other step leaves
what `GreedyDecode` sees alone.

`Bf16Matmul_proofs`, for all tile sizes and sequences of shapes, any launch failing:

    PaddingStaysZero       Spec => []StagePadding
    TypesHold              Spec => []TypeOK
    ProductIsExact         Spec => []ProductExact

The padding is its own invariant, with the types of stages and extents: clearing
the border of a zero-padded stage and packing over it leaves it zero-padded
to the new extent. `ProductExact` needs to know where in its loops a call stands:
`Staged` (the part in use is the tile at the loops' position), `AddedUp` (the accumulator
has the partial sums of the K tiles before it), `StoredSoFar` (the tiles before it are in the
output). What takes arithmetic is in lemmas of its own: every place of the output lies in
exactly one tile, and a tile's extent is what the matrix leaves of it.

`MatmulPipeline_proofs`, for all shapes, tile and batch sizes, orders of completion
and starts that throw:

    OperandsAreStable                     Spec => OperandsStay
    ProductIsExact         Default  |-    Spec => []ProductExact

A slot that is started holds the operands of its tile until its run completes and
their product after that (`SlotsHoldTiles`), whatever an earlier call left in
flight; a tile in either cache is the one its key is asked for (`CachesTell`); the
result has, block by block, the products waited for so far, in the order of K
(`SummedSoFar`). `Default` is the configuration nobody overrides: resident weights,
no F32 weights, tensors at addresses of their own. Without it `CachesTell` is
false (the key of the other cache has neither stride nor depth; see above).

`WeightCache_proofs`, for all numbers of processes, tensors and model files:

    CacheTypes             Spec => []TypeOK
    MetaSeals              Spec => []MetaSealsData
    ServedIsRight          Spec => []ServedRight
    ServedIsNotForeign     Spec => []NothingForeign
    ServedStays            Spec => ServedOnce

Two invariants. `OwnParts` holds whatever overlaps, fails or is killed: files and
memory have parts of the key's own tensor only. `Calm` holds until the first
fault: the one process alive is between the empty `.meta` and the full one, nobody
has stored a whole entry that is not of the file this process has mapped, and so a
full `.meta` seals (`Sealed`).

`ChatServer_proofs`, for all numbers of tabs, threads and clears:

    OneInferenceAtATime    Spec => []OneInference
    HistoryStaysCurrent    Spec => []HistoryIsCurrent
    LockHandedOverFree     the holder or a restart frees the lock before the next has it

The lock is the region between acquisition and release, in both directions
(`LockIsRegion`), a busy tab has exactly one thread that answers to it (`OneAnswer`),
and what that thread was asked belongs to the present conversation unless the tab was
cleared meanwhile (`TurnsAreCurrent`).

`NpuOps_proofs`, for all sizes, head counts, tile lengths, contents of the
directories, outcomes of compiler and device:

    OkIsRight       JunkIsNoResult  |-    Spec => []OkIsReference
    ErrorsHaveCause JunkIsNoResult  |-    Spec => []ErrorHasCause
    RoutesAreFixed                        Spec => RouteIsFixed

That an operator is right on a kernel that fits is a lemma for each: the chunks of an
activation are a division with remainder, heads packed into one rope launch come apart again,
padding adds nothing to the sum of squares and the correction restores divisor and
eps, the decomposed attention's chunks add up. The invariant is for calls that
are *not* validated because the size was before: `ValidatedServes` says that the kernel
such a size uses is still right, and it holds because a registered kernel is
never replaced and a size known to have no kernel of its own is never looked up again.
For routes it is `Settled`: the optional kernels of a class already used were found
up to some point, and the next one was not; both answers are remembered.
`JunkIsNoResult` says of the constant `Junk` that it is no pair, so no result
can be mistaken for it; it is a hypothesis, not an ASSUME, because TLC cannot evaluate
a quantifier over everything.

`HybridForward_proofs`, for all models of the four architectures, prompts, chunk and
context sizes:

    RowsOfPrefix           texts that agree on n tokens have the same first n rows
    InvHolds               Spec => []Inv
    MemoriesAlwaysMatch    Spec => []MemoriesMatchPosition
    OutputIsAlwaysWhole    Spec => []OutputIsWhole

The reference `WholeRows` is a recursion over layers, so there is induction here: over
layers that the recursion defines a function at all (`WholeRowsAre`; the plan of gemma4 in
the same way, `PlanIs`), that the plan names the nearest layer that can lend
(`PlanLends`), and that a row depends on the tokens up to its own only (`RowsOfPrefix`). The
prover cannot instantiate the library's induction theorems; each induction is the
argument by the smallest counterexample for its own statement (`Smallest`, `Counting`).
What is arithmetic or counting is a lemma: a slice of the keys is the set of visible
positions in order, the quotient and the remainder the code takes for a head are the
shared and the tiled head, the experts that the sort takes are those with fewer
than `used` above them.

The invariant `Inv` describes a block half way through the layers: the memories of the
layers that have run are ahead by the block (`FedAt`), the others are not, and the rows
under way are those of the layer below. For each kind of layer there is one lemma
(`ShortConvStep`, `DeltaNetStep`, `AttentionStep`, `GemmaRowStep`): memories of n tokens
become memories of one more while the row of the reference is computed. For gemma4 it takes that
the keys borrowed are those of the whole block *and no more than the block*, which is so
because the lender is at or below the layer (`OwnerIs`). After an ignored failure only
`Sizes` remains, which is why it is a conjunct of its own. Sampling appends to the text, and
`RowsOfPrefix` carries everything over.

`Tokenizer_proofs`, for all model files and byte texts, valid UTF-8 or not:

    PromptedHolds                         Spec => []Prompted
    CutsCoverHolds                        Spec => []CutsCover
    ThrowsOnlyPastUnicodeHolds            Spec => []ThrowsOnlyPastUnicode
    ListedHolds                           Spec => []Listed
    ListSpellsWordHolds                   Spec => []ListSpellsWord
    BestFirstHolds                        Spec => BestFirst
    CutBySplitterHolds                    Spec => []CutBySplitter
    SplitIsRegexHolds                     Spec => []SplitIsRegex
    HanApartHolds                         Spec => []HanApart

The text is read, cut and chained by recursive functions, so the first thing to prove of each
is that it is one: each goes from a position to a later one (`Walk`, `Ends`, `WalkExists`). That
every splitter's every rule cuts past the position it is tried at (`SplittersCut`, and
`MatchAtIsPast` for the regular expression of tekken) is then all that `CutsCover` takes;
`ThrowsOnlyPastUnicode` is the arithmetic of what one to four bytes can spell. `Prompted` carries
both, and says that words are sequences of bytes.

The merge loop has the invariant `Listed`. `Path`: the places of the live symbols, in order,
are linked to each other in both directions, and even a dead symbol's `next` leads forward.
`Queued`: *every* pair of neighbours that can be joined is in the queue, and whatever is in the
queue is a `Candidate`: if both of its symbols are still live they are neighbours, the left one
has not changed and the right one has at most grown. That is why the code's test for a stale
candidate, which compares texts and not versions, is exact: the joined text is the same only if
the right symbol did not grow. So a candidate that is not stale is a pair of neighbours with
the priority it was queued with, the best of the queue is the best of all neighbours
(`BestFirst`), and an empty queue means that nothing can be joined. TLC found `Path` and `Queued`
to hold in all states of the `text` run before they were proved.

`SplitIsRegex` compares two programs: a splitter tries hand-written rules at a position, and the
reference tries the alternatives of the expression in its comment, each a sequence of items
matched as long as possible with backtracking. For each kind of item there is a lemma on where it
ends (`LastRun`, `StarStep`, `OneStep`, ...), for each rule one that says that its alternative ends
where the rule cuts first, or that neither applies, and then both walks go through the same
positions (`SplitsAgree`). They differ in two places that are harmless, and had to be
shown so. A llama-3 splitter cuts a whole run of digits by threes in one call, where the
expression takes three at a time and comes back to the rest of the run: the walks meet again at its
end. And blanks at the end of the text are taken by the rule for the
last blanks, where the expression takes them with `\s+(?!\S)`: they end alike. What it takes of the
classes of characters is `Apart` (no character is of two of letters, numbers, marks and white
space, and a line break is white space but no blank), which `ClassesApart` proves of every text.

`HanApart` was first stated of every border between a Han character and another, and is
false so: U+FA6E lies in the range the code calls Han (`unicode.cpp:1211`) but
is unassigned, so that it is no letter, and the rules for symbols and single characters take it
together with what is around it. No prompt of the run had it; the proof of
`KimiCuts` did not go through at the rule for symbols. It is now stated of Han *letters*, the
table has the true ranges of the Han blocks, and the run has such prompts.

The named assumptions of the modules are evaluated by TLC in the runs. Six are there
for the proofs: `WeightCacheAssumption` says that there is a tensor,
`FilesAssumption` that a kernel file was compiled for some length,
`ModelsAssumption` what a model of the four architectures is, `CallsAssumption`
what an operator's first lines accept (positive sizes, heads and pairs), `CasesAreTexts`
that a prompt is a sequence of bytes for a file there is, and `SpareSplitters` which
splitters no known model asks for.

Only model-checked, and why:

* All liveness (`Terminates`, `CallReturns`, `LockComesFree`, `TabComesBack`, and the
  fairness half of `ImplementsSequential`) depends on fairness and ENABLED, which
  the prover does not have.
* `RoundTrip`: that encoding and decoding give the text back is a statement about
  the vocabularies of the run, not about every vocabulary: a model whose tokens lack a byte
  loses text, as the code does. A proof would need a condition on vocabularies that no
  line of the code checks, and the inverse of the alphabet of bytes over sequences.
* `FileIsWhatWasWritten`, `TensorDataIsWhereWritten`, `CacheFitsLoop`,
  `NpuWeightsAreWritten`, `RowsAreWritten` and `LogitsAreProducts`: the writer that the reader
  of `GgufFile` is compared with and the reader itself go through nested values of types
  and lengths found on the way by RECURSIVE operators, of which the prover knows nothing, and
  the modules above extend it.

## 5. Not modelled

* Sampling at temperature above 0, chat templates, the bench and debug modes (among
  them `GGNPU_Q35_SKIP_*`).
* Float arithmetic inside a feed-forward network, a norm or a rotation.
* Float rounding. Results are equal when the same terms are added in the same
  order; the tolerances of first-call validation are "right" and "wrong".
* NaN logits, for which `row_argmax` and `sample_token` differ.
* The flat layout of the KV cache, `update()` and `increment_position()`.
* Metadata keys that only architectures other than llama use.
* Splitters of several regular expressions and the NFD normalization of texts, which
  no tokenizer of this program uses; the generated tables past U+07C0, but for white
  space and Han.
* Codebook values of the IQ types: the grids are a constant function.
* The compiler, the driver and the tests. Two ggnpu processes that build or load
  kernels at the same moment: processes of `NpuOps` follow each other.
* `CompileCache::clear()` and `WeightCache::get_scales()` without the mutex: no
  second thread calls them.

## 6. Plan

In this order; done so far: 1 to 11.

1. `KVCache`, `Generate`, `GreedyDecode`: the core, its runs and its invariant proof.
2. `Bf16Matmul` and the proof of its padding.
3. `MatmulPipeline`.
4. `WeightCache`.
5. `ChatServer`.
6. Findings with their runs.
7. `NpuKernels` and `NpuOps`.
8. `GgufFile` and `ModelSetup`.
9. `QuantBlocks` and `Weights`.
10. `Unicode`, `PreTokenize`, `Tokenizer`.
11. `HybridForward`.
12. The flat layout of the KV cache, refined to rows.
13. Composition of `ChatServer` with `WeightCache` (a timeout kill inside a store).

Theorems left: `CacheFitsLoop` and `FileIsWhatWasWritten`, once the reader of `GgufFile`
is in the form of functions, as `PreTokenize` and `Tokenizer` are.
