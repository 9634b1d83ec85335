# go-ds4 in TLA+

TLA+ models, TLC runs and TLAPS proofs for go-ds4, an inference engine for
DeepSeek V4 Flash that exists twice in the repository: the C engine with its
HTTP server and command line (`ds4.c`, `ds4_server.c`, `ds4_cli.c`, `rax.c`)
and the Go port (`pkg/ds4`, `cmd/`).

## 1. Inventory

The numerical kernels are pure functions over arrays; what can go wrong in ways
a test hardly reaches is the bookkeeping around them: which tokens a KV cache
stands for, which thread owns what, what has been sent, what is on disk after a
crash.

| component | state | operations | what makes it correct |
|---|---|---|---|
| CPU worker pool (`ds4.c`) | generation, done counter, posted job, per-thread position | post, take, run slice, report, barrier, shutdown, lazy restart | no worker runs a job whose caller returned; each row exactly once; every call returns |
| HTTP server (`ds4_server.c`) | listening socket, client count, job queue, stop flag | accept, parse, enqueue, wait, dequeue, answer, signal, drain, close | a job lives on its client's stack until the worker is done with it; nothing accepted is lost; resources close last |
| tool memory (`ds4_server.c`) | id map, LRU list, ref-counted DSML blocks, byte count | put, lookup/touch, prune, remove, attach | the LRU, the id map and the block reference counts agree; budgets hold after prune |
| radix tree (`rax.c`) | nodes, values in place, counts; an iterator; a defragmentation | insert, remove, find, seek, step, walk, defragment | it is a map, after failed insertions too; iterators see it in order |
| tool map file (`ds4_server.c`) | the records behind a cache file, two buffers | rewrite in place, read | a restored id gets the text it was sampled with |
| live session (`ds4.c`) | token vector, graph rows, valid flag | sync, eval, rewrite, invalidate, save, load | the tokens claimed are the tokens the KV state was computed from |
| disk KV cache (`ds4_server.c`) | files keyed by token prefix, budget, hit counters | store, find, load, touch, evict, open | a loaded file is a prefix of the prompt; budget after eviction; a crash never leaves a readable half-file |
| request execution (`ds4_server.c`, `generate_job`) | composition of session, cache and request | lookup, store before switch, load, sync, generate, canonicalise, store | a reply is computed from the request's own prompt |
| streaming and output parsing (`ds4_server.c`) | generated text, held-back tail, open block or call | parse, hold, release, open and close blocks, finish, render | the stream is the message the parser reads, and what had to be held back was not sent |
| speculative decoding (`ds4.c`) | frontier snapshot, captured prefix, drafts | draft, verify, accept, commit, restore, replay, fall back | the tokens are those the target alone would pick, the graph is that of the accepted ones |
| graph KV internals (`ds4.c`, `ds4_metal.m`) | raw ring, compressors, index of each layer | one token, two exact tokens, batch, chunks | a row is that of its position and history |
| command line (`ds4_cli.c`) | transcript, thinking mode, prefix length, interrupt flag | commands, turn, interrupt, roll-back | the transcript is the conversation and the session is that of the transcript |
| instance lock (`ds4.c`) | lock file, pid | acquire, release, exit, kill | one engine per machine |
| Go KV rings (`kvcache.go`) | raw, compressed and index rings per layer | push, row lookup, reset | chronological rows are the newest pushes, in order |
| Go session (`session.go`) | position, token list, KV cache | prefill, eval, rewind, save, load | a saved and reloaded session equals the original |
| compact expert cache (Go `internal/gpu`) | entries, LRU list, live bytes, budget | CopyTo, evict, free | live bytes equal the sum of the entries and stay in budget; nothing freed twice |
| disk streamer and expert pools (Go) | buffers checked out, file offset | load, release | buffers return to the pool on every path |
| Go HTTP server (`cmd/ds4server`) | one mutex, one session | chat, completion, stream | one generation at a time |
| tokenizer, GGUF parser, kernels, GPU back ends, line editor | tables and arrays | pure functions, device calls | not a question of states |

How they interact in the C server: client threads talk to the worker through one
FIFO queue of jobs that live on the clients' stacks; the worker alone owns the
live session and the disk cache; the tool memory, whose index is a radix tree, is
shared by client threads and the worker under `tool_mu`; the progress callback of
`ds4_session_sync` stores snapshots from inside a prefill; the decode loop hands
each token to the stream writer, which decides what may leave the process; the
CPU backend calls the worker pool from every kernel. The command line drives the
same sessions from one thread, with a signal handler that sets a flag, and holds
the instance lock as the server does. In the Go port one goroutine at a time
drives a session, with the Metal graph as an optional way to evaluate a prompt.

## 2. Modules

| module | models | state and actions in the code |
|---|---|---|
| `ThreadPool` | `ds4_thread_pool` | each critical section of `g_pool.mutex` is one step; condition waits are pc values; `runs` is a history counter of kernel calls per row |
| `ServerLoop` | the threads of `ds4_server.c` | pc variables for main, worker and client threads; a critical section of `server.mu` is one step; the job's own mutex is the pc "holding" |
| `RequestService` | what the server promises | requests accepted, refused or served one at a time in order; `ServerLoop` refines it |
| `ToolMemory` | `tool_memory_*`, `tool_mu` | the entry list, block reference counts and byte count; work inside the lock is split into puts, evictions and lookups; the records of all cache files are one set, and a rewrite that falls between a client's reads is marked (`overlaps`) |
| `RaxTree` | the tree operations of `rax.c` | pure operators from tree to tree: a node is named by the path that leads to it, values in place are a partial function of its child slots, allocations are counted so that any of them may fail, and a realloc may move the node (`moved`) |
| `Rax` | the interface: insertions, removals, iterators, random walk, defragmentation | one tree, one iterator, one defragmentation; their stacks and keys are those of the code |
| `Dictionary` | what a tree promises | a partial function from keys to values, and what a failed store may do to it; `Rax` refines it |
| `ToolMapFile` | the tool map of one cache file | buffer flushes and refills of writer and reader as steps, crashes between them |
| `LiveSession` | `ds4_session_*` | checkpoint, valid flag, graph rows and logits, each as the tokens it stands for; the four ways of `ds4_session_sync` |
| `DiskCache` | `kv_cache_*` | files as a function from token prefixes; a store is a routine of several steps between which the process may die |
| `GenerateJob` | `generate_job` and the worker | drives the two above; callbacks of a prefill store from inside it |
| `GeneratedText` | `parse_generated_message`, the DSML writer | pure operators over texts of symbols: markers, attributes, entities, split characters, and the JSON of arguments: written from parameters, read again and turned back into parameters |
| `StreamText` | the decode loop's text, stop lists, `openai_*` and `anthropic_*` stream writers | a step is one token of generated text and everything the loop sends for it; then the end of the turn |
| `MetalGraph` | the KV state of the Metal graph | raw rings, compressors and index of every layer; a row is the history it depends on, or wrong |
| `CpuCache` | the KV cache of the CPU reference | the same with sliding rows, as a function of the tokens |
| `MtpSession` | a session that speculates | sync, eval, the speculative call step by step, payloads; any Metal command may fail half done |
| `Repl` | `run_repl`, `run_chat_turn`, one-shot runs | the transcript over `LiveSession`; `at` is where the code is, `turns` is a history of what the user saw |
| `Cli` | a `ds4` process from main to exit, the instance lock | process places; the running one has `Repl`'s variables |
| `KVRing` | `PushRawKV`, `PushCompKV`, `PushIndexCompKV` and their row lookups | slots, live count, write cursor |
| `GoSession` | the Go session | rings and compressor states of every layer; a row is the position and history it was computed from |

`MC*` modules give constants to TLC. `*Proofs` modules hold the theorems. The
configurations only give constants their values.

Composition: `GenerateJob` extends `DiskCache`, which extends `LiveSession`; the
three share one next-state relation. `Cli` extends `Repl`, which extends the same
`LiveSession`, so that the server and the command line drive one model of the
session. `MtpSession` extends `CpuCache` and `MetalGraph`: it opens the session up
to its tensors, which `LiveSession` keeps as one value each. `Rax` uses `RaxTree`
and implements `Dictionary`, which is what `ToolMemory` takes its id map for.
`StreamText` uses `GeneratedText`. `GoSession` uses `KVRing`. `ServerLoop` and
`GenerateJob` meet at one point, the worker's call of `generate_job`, which
`ServerLoop` treats as a step that takes a while and `GenerateJob` as a loop over
requests; their composition adds nothing either of them can disturb, because the
session and the disk cache belong to the worker thread.

## 3. Runs

| run | asks | bounds and why they are enough |
|---|---|---|
| `thread_pool` | each row once, on a live frame; every call and the shutdown end | three threads, so that two workers race each other and the caller; four rows against a minimum of two: serial, uneven and even splits; a generation counter modulo 2 wraps at every other job |
| `server` | job lifetime, queue, shutdown, refinement; accepted requests run and, until a stop, answered; termination | three connections: one served, one queued, one arriving while the stop request is handled; the peer of one of them may stall |
| `tool_memory` | indexes, budgets, LRU order, replay | three ids and three blocks against two entries or five bytes: each budget binds alone, a block is shared by two ids; one id is paired wrongly by a read that a rewrite overlaps (`MaxAstray`) |
| `rax` | the tree is a map, its counts and shape are right, lookups, seeks and steps agree with the set of keys, a defragmentation visits all | six keys over three characters, the empty one among them: shared compressed edges, a fork past the bitmap of values in place (`InlineSlots` two instead of 13), a chain that removals join again; `MaxMem` allocations of an operation succeed before one fails, at most `MaxDrops` keys are lost to such a failure, `MaxSteps` bounds a random walk |
| `tool_map_crash` | only a read that a rewrite overlaps is torn, whatever crashes cut | three ids and two blocks, so that records of two generations of the map differ; two buffer fills that meet at any cell |
| `job` | coherence of session, files and prompts | prompts where one extends another and one diverges, contexts of five and four, chunks of two, a budget of six bytes that two files exceed; a tool map is up to one byte long (`MaxMap`) and may be rewritten longer or shorter; failing unlinks and rewrites leave up to one byte over the budget (`MaxExcess`) |
| `job_liveness` | every request ends, its prefill in chunks included | three prompts in one configuration whose ring (`raw`) is narrower than its prefill chunk: cold in two chunks, resumed in chunks from one token and from two, and not in chunks at all |
| `stream` | what is streamed is what the parser reads; nothing that had to be held back was sent; blocks are balanced; the calls a client sends back are rendered from their JSON into text that reads as the same calls | 112 outputs made of reasoning, text, well and badly written calls, arguments that are JSON (an array with white space and escapes, a string marked as none) and that are not, for 19 kinds of request (both APIs, completions, thinking, tools, stop strings, streamed or not); an output is cut into tokens of one or two symbols in every way and may end after any of them; a marker, a stop string, an entity and a character of three bytes are each more than one token long; `MarkerHold` stands for the 80 bytes that bound a partial marker |
| `graph` | the graph's rows, windows and logits are those of the checkpoint and of the CPU reference; speculation speaks as the target | an uncompressed layer, one of ratio 4 with its index, one of ratio 3 standing for 128; a window of three in a ring of seven under batches of four in a context of eleven, so that the ring wraps under a batch; up to three drafts, each of the three verifiers, one failed command of any kind (`MaxFaults`), two prompts from token zero (`MaxColds`), one payload; free decoding up to five tokens (`MaxLen`) |
| `cli` | the transcript is the conversation, answers come from it, one engine | two processes killed at any point; contexts of eight and eleven, of which only the larger allows the max effort prefix of two tokens; answers of up to two tokens, two per evaluation; the context bounds the conversation |
| `go_session` | the cache is that of the history; cursors stay in range, a good load or an invalidation heals | twelve tokens, so that in a context of 2 the raw ring and both compressed rings wrap, and in one of 9 none of the compressed ones does; ratio 3 stands for 128; versions 2 and 5 are the oldest with an index and the newest; transfers stop after the fields named in `Cuts`, in any layer; a prefill starts from an empty session (`MaxPrefill`), later tokens come from decoding, which is the same code |
| `graph_window` | a counterexample to a comment, section 6 | a prompt of five tokens |

The properties relate pieces of state that different steps maintain, or a state
to an earlier one. `TypeOK` of `ThreadPool`, `ServerLoop`, `ToolMemory` and
`GenerateJob` is a theorem and no run repeats it; those of `GoSession`, `Rax`,
`MtpSession` and `StreamText` are conjuncts of `CacheExact`, `WellFormed`,
`GraphExact` and `HeldBack`.

Deadlock is checked except in `go_session`, where the bound on the token history
stops a prefill in its middle.

## 4. Fairness

Safety never needs fairness. `thread_pool` assumes weak fairness of the caller
and of each worker: threads are scheduled, and a condition variable wakes a
signalled waiter. `server` assumes weak fairness of main, of the signal
handler, of the worker and of every client thread, that accept fails once the
listening socket is closed, and strong fairness of the worker's last step,
taking the job's mutex: POSIX gives no bound on waiting for a mutex, but the
client gives it up for good when it sleeps. Peers get no fairness: a client
thread may wait for a stalled peer only as long as the socket's time-outs
allow. `job_liveness` assumes that the worker goes on working; nothing is
assumed about crashes, which may stop happening or not, and that a request ends
does not count on an evaluation failing (`Fault` gets no fairness). The other
modules state safety only: they are sequential, and a user, a peer or a device may
stop.

## 5. Proofs

| module | theorems |
|---|---|
| `ThreadPoolProofs` | `TypeCorrectness`, `FrameSafety`, `ExactlyOnce` |
| `ServerLoopProofs` | `TypeCorrectness`, `JobLifetime`, `NothingLost`, `CleanShutdown`, `Refinement` |
| `ToolMemoryProofs` | `TypeCorrectness`, `MapsAgree`, `Verbatim`, `LeastRecentFirst`, `BudgetsHold`, `AttachDecides`; of `ToolMapFile`, `RestoredGenuine` |
| `GenerateJobProofs` | `TypeCorrect`, `SessionCoherent`, `CacheGenuine`, `OwnPrompt`, `CacheOnBudget`, `ReplacedIsSaved`, `FallbacksGoFirst`, `ChunkProgress` |
| `GoSessionProofs` | `TypeCorrect`, `CacheIsExact`, `BoundsAreHeld` |
| `MtpSessionProofs` | `GraphIsExact`, `SpeaksTheTarget`, `AgreesWithCpu` |
| `CliProofs` | `LockDiscipline`, `OneEngineAtATime`, `AnswersItsTranscript`, `TranscriptIsTrue` |
| `LiveSessionProofs` | lemmas about the session, for the two modules that drive it, and about sequences, concatenation, prefixes and sums over finite sets |

All are for every value of the constants that meets the named assumptions; two
theorems of `GenerateJobProofs` and two of `GoSessionProofs` have a hypothesis
more, given below.

- *Worker pool.* `FrameIsLive` is not inductive: it needs to know that `done`
  counts exactly the workers that have reported the current generation, that a
  worker still running has not reported, and that a worker whose `seen` equals
  the generation is not about to run. A generation counter as narrow as one bit
  is enough, because a new job is only posted after every worker has reported
  the last one. `ExactlyOnce` adds that the slices partition the rows.
- *Server threads.* The invariant ties each client's pc to where its job is:
  done, in the worker's hand, or in the queue at exactly one place, and to the
  client count main waits for. The refinement maps the queue and the worker's
  job to the abstract service's pending sequence.
- *Tool memory.* The invariant says that the LRU list, the id map and the block
  map are three views of one set of entries, also in the middle of a critical
  section; `LeastRecentFirst` uses a history of the ids in order of use.
  `Verbatim` needs that memory, records on disk and the put in progress all pair
  an id with the block it was sampled with, or with any block once a read that a
  rewrite overlapped has paired the id wrongly (`Good`, `astray`): a wrong pair is
  kept, written and loaded like another.
  `BudgetsHold` adds that the byte count is the sum of the charges of the entries
  and of the blocks that have one (`Charged`), whatever step the section is at,
  and that outside a section nothing is left to prune (`Fits`); an empty memory
  charges nothing, so that pruning can always end. `AttachDecides` needs the loop
  invariant of the lookups (`Looking`): the ids looked up so far map to the
  block the answer stands at, in the memory as it was on entry, which touching
  an entry reorders and nothing else.
- *Tool map file.* The invariant (`MapInv`) says that the cells on disk pair every
  id with the block it was issued for, up to a record cut in two at the end; that
  they still do when what the worker has yet to write is appended; and that a
  reader which no rewrite overlaps holds an initial part of them. A reader that a
  rewrite does overlap may hold anything; the ids it pairs wrongly are `torn`, and
  a pair is genuine or torn wherever it is then kept, written or read. That such
  reads exist TLC shows (`NoneTorn`, section 6). A failed write or a crash may
  come at any point.
- *Requests.* The invariant says, per step of `ds4_session_sync`, which prefix of
  the prompt the graph holds (`SyncPath`), and that a payload is only written
  from a state where checkpoint, graph and logits agree (`StorePath`).
  `CacheGenuine` needs it because a snapshot is taken from inside a prefill
  callback. `CacheOnBudget` needs that no step outside a store adds a file or
  makes one longer, that a tool map rewritten for a prefix that is stored again
  adds no more than it grows by, and that otherwise the files fit outside an
  eviction (`BudgetInv`, with the sum over the directory in `Total`). The excess
  is real: the rewrite returns without an eviction, and the directory stays over
  its budget until the next store that writes a file, or a restart.
  `ReplacedIsSaved` follows the old conversation through its store (`SavePath`):
  it is the one being stored until the load, and what was written is loadable
  unless the budget took it again. It supposes that a restart keeps the prefill
  chunk (`OneChunk`): without that TLC refutes the property (section 6).
  `FallbacksGoFirst` compares the values of two files. It supposes that a file
  has at most 49 times as many bytes of overhead and tool map as the shortest
  file has bytes of tokens: a used-up prefix is judged at 0.02 of its tokens per
  byte, and for files that are nearly all overhead that does not make up for a
  shorter name. `ChunkProgress` is the arithmetic behind `JobEnds`, for every
  prompt, ring and prefill cap: a chunk ends behind its start and inside the
  prompt, and one that is resumed crosses no multiple of the cap.
- *Go session.* `CacheIsExact` holds for any layers, ratios, window, context and
  prompts. Its invariant says of every ring that it shows the newest of the rows
  that belong to the history (`Shows`: through the cursor, from any slot on), and
  of every compressor state that it holds the rows of the window being filled
  and, for ratio 4, of the one before (`StateShows`); the same of the payload
  (`ExactInv`). The steps need that a push moves no row that stays, that a row
  that is there depends on no later token, that a window closes exactly when the
  quotient of position and ratio grows, and that what is pooled then is that
  window. That a ring forgets nothing inside the context is the comparison of two
  quotients. `TypeCorrect` (the cursors) needs no exactness and covers every
  payload version, rewinds and transfers that stop anywhere. The two others
  suppose `IndexIsSaved`: a payload of version 1 leaves the rows of the ratio 4
  index behind, and neither property survives loading one (section 6). That no
  layer has ratio 1 is an assumption of the module: the code knows 0, 4 and 128.
- *Speculative session.* `GraphIsExact` says of every session state between calls
  that rings, pooled rows, unfinished windows and logits are those of its tokens;
  `SpeaksTheTarget` that a call leaves what the target would have picked;
  `AgreesWithCpu` that the rows are those the CPU path ends up with. All three
  hold for any number and ratios of layers, caps, contexts, prompts and drafters,
  from three assumptions. `CapAssumption` is what the allocation guarantees: the
  ring holds a batch and the window before it, or the whole context
  (`metal_graph_raw_cap_for_context`), and a batch that a longer prompt goes
  beyond ends on a multiple of four (2048 in `metal_graph_prefill_cap_for_prompt`);
  ratios are 0, 4 and 128 in the code and 0 or more than 2 here. The environment
  variables `DS4_METAL_PREFILL_CHUNK` and `DS4_METAL_GRAPH_RAW_CAP` can break the
  assumption, and the theorems say nothing of such a run. `MtpAssumption` types the
  constants, `CallAssumption` keeps `NoCall` apart. The lemmas say of each operator,
  from one compressor to the whole graph, what it makes of parts in which a text
  shows (`UnitShows`, `LayerShows`), and which
  rows it cannot disturb even when it is broken off half way (`UnitKeeps`,
  `KeepsGraph`): a failed verifier spoils only rows past the accepted text, which
  is why restoring the small frontier is enough, the raw ring needing no
  snapshot because `CapAssumption` leaves it a window before the drafts. A row
  that is read is never overwritten by a batch for the same reason. The inductive
  invariant (`MtpInv`) adds to `GraphExact` what each step of a call may rely on:
  which text shows in the graph, what the snapshot and the captured prefix hold,
  which drafts agree with the target (`Target`), and that a file always holds the
  payload of its tokens. `GraphExact` alone is not inductive: it is silent while a
  call runs. Its compressor clause is weaker than what the steps need, because for
  ratio 4 only the rows still to be pooled count. For the CPU path a compressor
  stands for one of the graph (`Stands`), so that the same lemmas say what a token
  makes of it. A prompt goes through it layer by layer, hence a cache in which
  each layer shows its own number of tokens (`CpuAt`), and what empties the tail
  of an unfinished window touches no pending row (`FinishedIs`). That a
  compressor there never overflows follows from the room the graph has.
- *Command line.* `OneEngine` needs to know which process holds the lock, and
  that the lock file names the holder while the model is mapped: a process
  killed at any point loses the lock with its life, not the file its text
  (`LockDiscipline`). The transcript's invariant says, per place of a turn, which
  of the turn's parts are in the transcript and what the session has seen of
  them; that the transcript is the conversation is an induction over its turns.

Data are inducted over where it could not be avoided: what concatenating the
turns of a conversation, or adding the bytes of a set of files, gives.
The lemmas state such facts of a fixed sequence or set and prove them from
the well-foundedness of the natural numbers, with the smallest place where the
fact fails. What `MtpSessionProofs` says of the recursive functions of the graph
(tokens through a compressor, layers, chunks) is obtained the same way: that the
function exists, then its property place by place.

Only model-checked: liveness (the prover has no rule for fairness or ENABLED);
`Rax`, `GeneratedText` and `StreamText`, whose operators are RECURSIVE, which the
provers do not take.

## 6. Where code and words disagree

One run is a counterexample to a comment, `graph_window`: the compressor window
that the graph rebuilds after a batch prefill of 4n+k tokens is made of the last
four tokens, not of the last whole window and the k tokens behind it, so the next
compressed rows of a ratio 4 layer are pooled from the wrong tokens
(`ds4.c:10343`; `SameWindow`). The variable `taint` of `MtpSession` marks such a
session, and `GraphExact` speaks of the others.

Further configurations state what a comment, a help text or plain expectation
says and make TLC refute it. They are kept for readers and are no part of the
regular runs:

| configuration | property | what TLC shows |
|---|---|---|
| `ServerLoopRefused.cfg` | `RefusedIsTold` | a request refused during shutdown is promised a 503 which `send_all` never sends |
| `ToolMapTorn.cfg` | `NoneTorn` | a client that reads a tool map while the worker rewrites it in place pairs an id with another call's text |
| `GenerateJobChunk.cfg` | `EvictedIsSaved` | a file written with another prefill chunk size counts as good enough to skip a store but can never be loaded |
| `GenerateJobFresh.cfg` | `FreshSurvives` | a snapshot just written is the first to go in the eviction that follows |
| `GoSessionWindow.cfg` | `GraphWindowSame` | the Go port's graph prefill has the shifted window of `graph_window` |
| `StreamArgs.cfg` | `ArgumentsAreJson` | an empty parameter that is not a string streams `{"g":}` |
| `RaxMoved.cfg` | `OldNodeValid` | an insertion that cannot allocate the node of a value moved out of its slot leaves the link to a node that has been reallocated (`rax.c:464`) |
| `RaxWalk.cfg` | `NodeChildTrue` | a random walk leaves `node_child` at the index of the node before (`rax.h:196`) |
| `CliInterrupt.cfg` | `InterruptStopsOwnTurn` | Ctrl+C during a turn that fails takes back the next turn, after its whole prefill (`ds4_cli.c:771` promises to stop generation) |

What else modelling the code brought up, by module:

*`Rax`.* A new child moves the inline value on the last of the 13 slots into a
node of its own. When that node cannot be allocated, the parent has been
reallocated already; the call returns NULL, and the link to the parent keeps an
address that may have been freed (`rax.c:364`; `rax.c:464` says "On out of memory
NULL is returned, and the old node is still valid"). In `Rax` the tree's field
`moved` names the node: lookups that do not come by it are still right
(`ReadsAgree`), the keys under it count as lost (`Dictionary`), and nothing but a
new tree follows. The server ends itself when an insertion fails
(`ds4_server.c:4352`), so that it does not go on with such a tree. An insertion
that runs out of memory may also take a key with it that is a prefix of the new
one, leaving `numele` one too high (`drops` counts these, and `WellFormed` allows
for them). A removal joins nodes again only when one child is left, and its second
scan knows no maximal node size.

*`GoSession`.* A history variable `taint` records that a session has gone through
something after which its cache is not that of its tokens, so that the passing
run states what holds as long as nothing of the kind has happened, and that a
load or an invalidation ends it. Besides the window these are: `Rewind`, which
keeps the rows of the tokens it gives up; a graph prefill that fails while its
caches are read back, after which `Prefill` evaluates the same tokens over the
layers already filled; and a load that fails between position and tokens. A
version 1 payload (not among `Versions` in the run) leaves the index behind the
compressed rows, and the next closed window makes attention index past the
visibility flags; a payload of a larger context outgrows the attention buffers,
which stay as `NewSession` made them (`ctx <= scratch` in `AttentionInBounds`).

*`DiskCache`.* A prefix that is stored again has its tool map rewritten in place,
perhaps longer, and `kv_cache_store_live_prefix` returns without evicting
(`ds4_server.c:5344`): `OnBudget` allows for these bytes (`excess`). A file longer
than `ColdMax` is unlinked when it is loaded while `lastStore` takes its length as
the last saved point, so the conversation has no snapshot until it has grown by
another interval.

*`MtpSession`.* A failed `LoadPayload` overwrites tensors and logits but leaves a
valid checkpoint of the old tokens (`taint` "load"; the server invalidates,
`ds4_server.c:5490`). The result of `spec_frontier_restore` on the way to the
sequential fallback is ignored (`taint` "restore"). A cold prompt of fewer than
four tokens fails: there is nothing to rebuild a window from. The draft kept
between calls is never used, and `ds4_session_rewind` has no caller; both are
left out. The batch verifiers may break near ties between logits differently
from single tokens; the model's target picks by position, so that this is not
seen. `DS4_METAL_GRAPH_RAW_CAP` may make the ring no longer than the window, which
the comment at `ds4.c:8527` excludes; the ring of the run is the default.

*`StreamText`.* A stop string that contains a marker may be sent in part, and one
completed by the token that also brings a whole marker is seen too late when
tokens are longer than `MaxPiece`. Thinking that never closes is streamed as
reasoning and parsed as content; a turn without tools in which the model writes a
call all the same is streamed as text and parsed as a call. A value that is not a
string and not one JSON value is streamed by the OpenAI API as it was written,
which makes the arguments unreadable, while a reply at the end sends `{}` in the
place of all of them; one that begins with a value is cut to it by the parser
alone. When a client sends such calls back, arguments that cannot be read enter
the next prompt as one string named `arguments`, those sent as `{}` as nothing. A
value marked `string="false"` that is a JSON string comes back as a string.
`StreamIsMessage`, and the half of `CheckpointIsMessage` that speaks of what the
model wrote, suppose JSON values (`JsonValues`); the other half, that a call reads
as what the client sent, does not. Strings that spell an entity do not survive
being rendered and read again. A final `tool_calls` replaces an earlier `error`.
Requests and outputs of the run that would meet these are excluded by `Ordinary`
and `SpellsEntity`. The escaping of names is not modelled.

*`Repl`, `Cli`.* SIGINT is not looked at during a prefill, and an interrupt that
is not answered by a read or by the end of a turn stays set. A decoding failure
leaves its turn in the transcript without an end (`turns` says "broken"). A full
context makes every later turn fail; nothing trims the transcript. A bad number
after `/ctx` ends the program. A refused process reports the pid it finds, which
between the lock and the write is that of the process before.

## 7. Not modelled, and the plan

Not modelled: the numerical kernels and GPU back ends (no discrete state; the
effect of the Go port's prefill graph on the session is part of `GoSession`), GGUF
parsing, the tokenizer's tables, the vendored line editor, the bytes of HTTP and
request JSON, option parsing and terminal output, the greedy one-shot loop
`ds4_engine_generate_argmax`, `--dump-tokens`, `DS4_MTP_EXACT_REPLAY`, temporary
files a crash leaves in the cache directory. Of the Go port the compact expert
cache, the expert pools and disk streamer, and the HTTP server's single mutex are
left out so far; the server's session is `GoSession`. `ToolMapFile` has one file,
one reader and records of one length.

Of the plan there is left the compact expert cache: live bytes, entries and device
memory on every path, least recent first. Proofs about the radix tree would need
its operators without RECURSIVE, as functions over the nodes.
