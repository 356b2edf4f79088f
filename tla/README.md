# A TLA+ model of GKlib

GKlib is a C library of building blocks for data-mining programs: tracked heap
allocation, workspaces, error recovery, hash tables, priority queues, sparse
matrices, graphs, readers and writers. This directory holds TLA+ modules that
model its components, TLC configurations that check them on small instances,
and proofs of the most important properties for every instance.

Run everything from this directory: `tlc -workers 2 -config X.cfg M` checks the
module `M` with the configuration `X.cfg` (each run is listed below and in
`PROJECT.json`), and `tlapm M.tla` checks the proofs of `M`.

- [1. The system](#1-the-system): components, state, operations, what is hard
- [2. Modules](#2-modules): what models what, and under which contract
- [3. Runs](#3-runs): what TLC checks, within which bounds
- [4. Proofs](#4-proofs): what holds for every instance, and why
- [5. Disagreements with the documentation](#5-disagreements-with-the-documentation)
- [6. Plan](#6-plan) and [7. What is not modelled](#7-what-is-not-modelled)

## 1. The system

GKlib is called in the caller's threads; it starts none of its own but OpenMP
regions in the matrix code. Errors are reported by `gk_errexit`, which jumps to
the innermost recovery binding of the thread, ends the process, or, with
`gk_set_exit_on_error(0)`, returns. Code therefore has to be right in three
ways at once: when nothing fails, when an error jumps over it, and when the
error returns and the caller goes on.

| Component | State | Operations | What makes it correct |
|---|---|---|---|
| Allocation tracker (`memory.c`, `memory_internal.h`, half of `mcore.c`) | thread-local log `gkmcore->mops` of blocks and frame marks, statistics | `gk_malloc_init`, `gk_malloc`, `gk_realloc`, `gk_free`, `gk_malloc_cleanup` | a record per block that is live, frames released exactly once, nothing changed by a call that fails |
| Workspaces, mcore (`mcore.c`) | core, `corecpos`, log `mops`, counters; its own blocks are in the tracker | `Create`, `Malloc`, `Push`, `Pop`, `Del`, `Destroy` | payloads never overlap, its storage lives as long as it is used, a refused call changes nothing |
| Recovery (`error.c`) | `gk_cur_jbufs`, `gk_frame_active`, saved masks, the legacy binding | `gk_sigtrap`, `gk_siguntrap`, `gk_SetSignalHandlers`, `gk_UnsetSignalHandlers`, `gk_errexit`, `errexit`, `gk_sigthrow`, `gk_save_mask`, `gk_restore_mask` | bindings form one stack, a jump resumes the innermost one with the mask of its entry |
| Hash table (`htable.c`) | slots, tombstones, `nelements`, a static cursor | `Create`, `Resize`, `Insert`, `Delete`, `Search`, `SearchAndDelete`, `GetNext`, `Reset`, `Destroy` | the table is a bag of pairs; a failed resize changes nothing and loses no block |
| Priority queues (`gk_mkpqueue.h`, `gk_mkpqueue2.h`, instances in `pqueue.c`) | heap and locator; a bounded heap without locator | `Create`, `Init`, `Reset`, `Insert`, `Delete`, `Update`, `GetTop`, `SeeTop...`, `Free`, `Destroy` | heap order, locator inverse to the heap, no block lost by a constructor that fails |
| Cache simulator (`cache.c`) | lines, time stamps, counters | `Create`, `Load`, `Reset`, `Destroy` | hits and misses of a least-recently-used cache |
| Output transactions (`io_internal.h`, used by `io.c`, `csr.c`, `graph.c`, `app_io.h`) | a temporary file per writer, the destination, `errno` | open, write, finish | the destination is old or complete, the first error is reported, no file is left behind |
| Traversals (`csr.c`, `graph.c`) | work arrays of one call: lists with the place of each entry, a queue | `FindComponents`, `FindConnectedComponents`, `ComputeBFSOrdering...`, `ComputeBestFOrdering...`, `SingleSourceShortestPaths` | every vertex once, in an order or with a length that its definition allows |
| Sparse matrices (`csr.c`), graphs (`graph.c`) | row and column views, labels, norms | duplicate, extract, split, transpose, index, sort, compact, filter, reorder, symmetrize | every view valid, the two views in step, the entries those the operation promises; an allocation that fails leaves no half-made result |
| Readers and writers (`csr.c`, `graph.c`, `io.c`, `seq.c`, the fallback of `getline`) | the activation of one call: a stream, a line buffer, arrays that grow | `gk_csr_Read`, `gk_csr_Write`, `gk_graph_Read`, `gk_graph_Write`, `gk_readfile`, `gk_i32readfile`..., `gk_cwritefilebin`..., `gk_seq_ReadGKMODPSSM`, `gk_getline` | the file's meaning or an error and nothing; nothing leaked; no array overrun; what is written reads back |
| File system (`fs.c`) | descriptors of one call; the tree is shared with other programs | `gk_mkpath`, `gk_rmpath`, names of paths, `gk_getfilestats` | makers of one path help each other, a removal stays in its tree, everything opened is closed |
| Similarities (`csr.c`) | norms and sums kept with a matrix; marks kept by the caller | `ComputeSums`, `ComputeNorms`, `Normalize`, `Scale`, `ComputeSimilarity`, `ComputePairSimilarity`, `GetSimilarRows` | kept results agree with the values; a search does not depend on the one before |
| Itemset mining (`itemsets.c`) | levels of a recursion, the marks they share | `gk_find_frequent_itemsets` | exactly the frequent sets, each once |
| Strings, tokenizer, selection, sorting, permutations, Base64, transfers (`string.c`, `tokenizer.c`, `fkvkselect.c`, `gk_mksort.h`, `gk_mkrandom.h`, `b64.c`, `io.c`) | none, or the arguments | functions | the result meets its definition at every boundary |
| Applications (`src/apps`), vendored `gkregex.c` and `getopt.c`, build, upstream tools | - | - | - |

How they interact:

- Every component allocates through the tracker; a block belongs to the recovery
  frame it was made in, and `gk_free` refuses a block of an outer frame. A
  structure that outlives a frame may meet that refusal in any of its
  operations (`HTable_Resize`, `gk_mcorePop`).
- A jump from `gk_errexit` skips the rest of the code; `gk_malloc_cleanup` then
  releases the innermost tracker frame. Recovery bindings and tracker frames are
  separate stacks that callers keep in step.
- The tracker and the mcores are written over the same `gk_mcore_t`, and an
  mcore's storage and heap payloads are themselves tracked blocks.
- Readers and writers of matrices make and take the structures of `csr.c` and
  `graph.c`; writers share one directory and one series of temporary names.
- The search for similar rows and the best-first orders use the selection and
  the priority queue.

What is hard here: partial failure (a function of several allocations, each of
which may fail, report by jumping, or report and return); records that are
swapped or moved while others point to them (the log's swap-removal, tombstones
and resizes, heap and locator); stacks of two kinds interleaved (modern and
legacy bindings, frames of tracker and mcore); state that one call leaves to the
next (marks, kept norms, static cursors); size arithmetic at `SIZE_MAX`,
`PTRDIFF_MAX`, `INT_MAX`; and, for files, threads, processes and other programs
that interleave or die between system calls. `PROJECT.json` lists each hazard
with its line and the properties that would catch it.

## 2. Modules

Abstract specifications say what a component promises, with none of its data
structures; the detailed module follows the code and is checked (or proved) to
implement it through `INSTANCE ... WITH`.

| Component | Detailed | Abstract | Proofs |
|---|---|---|---|
| Allocation tracker | `TrackerOps`, `AllocTracker` | `RegionStack` | `TrackerProofs` (operators), `AllocTrackerProofs` |
| Workspaces | `Mcore` (composes `TrackerOps`) | | `McoreProofs` |
| Recovery | `Recovery` | `BindingStack` | `PartsProofs` (with the refinement) |
| Hash table | `HTable` | `MultiMap` | `HTableProofs` (with the refinement) |
| Priority queues | `PQueue`; constructors and the bounded queue in `Calls` | `PriorityMap` | `PartsProofs` (with the refinement) |
| Cache simulator | `Cache` | `LRUSets` | `PartsProofs` (with the refinement) |
| Output transactions | `OutputFile` | `AtomicFile` | `PartsProofs` (with the refinement) |
| Traversals | `Adjacency`; `Components`, `BFSOrder`, `BestFirst` | | `TraversalProofs` |
| Sparse matrices and graphs | `SparseView`, `CSRMatrix`, `Matrices` | `SparseMatrix` | |
| Readers and writers | `TextFile`, `Readers`, `SparseReaders`, `Formats` | `FileMeaning` | `FormatsProofs` |
| File system | `Paths` | | `PathsProofs` |
| Similarities | `Similarity` (with `Select`) | | |
| Itemset mining | `Itemsets` | | |
| Strings, selection, permutations, Base64, transfers, dense kernels, ranked measures | `Calls`, `Select` | | |

`MC...` modules give TLC the constants that a `.cfg` cannot write and the
symmetry sets. An operator `BugX` is a mutated form of the operator `X` after
it; no specification uses it, it is there to show that a property would notice.
The map in `PROJECT.json` names the lines of code of every definition.

Conventions of all modules: a C function that allocates has the set of its
outcomes, since the allocator may fail or return any address; a call that fails
leaves `err` or a signal; `size_t` arithmetic is over `0 .. SizeMax`, with
`SizeMax` a small constant in the runs and any natural number in the proofs.

**TrackerOps, AllocTracker.** One record `t` is the tracker: the live blocks,
`mops`, its capacity and the four statistics. `gk_malloc`, `gk_realloc` and the
internal routines they call are operators from a tracker to outcomes, so that
`Mcore` uses the same ones. `gk_free` takes several pointers and
`gk_malloc_cleanup` pops many records: they run one step per block, with nothing
else between the steps since the tracker is thread-local.

**Mcore.** An mcore beside the tracker, with frames of the tracker opened and
closed around its use. The variable `nested` is chosen once, at the start, and
says which of the two bounds of section 3 holds; the code has no such state. Contract: a caller ends an inner tracker frame only when
the mcore holds no payload made in it, and gives the mcore up when its own frame
is cleaned, as `docs/architecture.md` asks. The `max_...` statistics are left out:
nothing reads them but a print.

**Recovery.** One thread's bindings. A jump buffer is set right after its
binding is made and an activation is not left while its binding is in force
(both asked by `docs/architecture.md`; otherwise the C behaviour is undefined),
and a direct legacy jump is made with the legacy binding innermost. Releases in
the wrong order are tried by the model and refused by the code. The exit flag is
shared by all threads and may change at any time, so its value is chosen anew at
each report.

**HTable.** One table, with the hash of an `int` key taken modulo a small
`UINT_MAX + 1`. The value of an empty or deleted slot is 0, as no code reads it.
Recovery frames are a depth and a count of the table's blocks in each. An error
jumps or returns; the parameter `throws` appears only in `HTable_SearchAndDelete`,
the one place where the code goes on with something else.

**PQueue.** The heap as the template generates it, for either order of
keys (`MaxFirst`); callers respect the `ASSERT` contracts (a node is inserted once, deleted
and updated while queued), and no key is a NaN, which no order admits. It starts
from an initialised queue.

**Cache.** Division replaces the shifts and masks by powers of two. The clock is
a `uint64_t` that the model stops at `MaxClock`.

**OutputFile.** One step per system call, any of which may fail; several writers
of one process; the process may die at any step, and a later one may have the
same process id and so the same temporary names. `fchown`, `fchmod` and `fdopen`
are one step, since nothing but their own file is touched in between. Nobody
else writes the destination. The POSIX branch is modelled; a crash of the whole
system, where the order of data and directory on disk matters, is not, as the
code makes no `fsync`.

**Adjacency, Components, BFSOrder, BestFirst.** The traversals of graphs and of
square matrices do the same work on adjacency lists, so each algorithm is
modelled once, with its variants of both files as actions, one step per vertex
taken and per entry seen. All three kinds keep lists in which an entry moves to
the place of one taken out, with an array of places beside them. `BestFirst` takes its
priority queue at the level of `PriorityMap`. Their results are stated by
themselves: components through the edges between them, a breadth-first order by
the property that characterises such orders, the keys of a best-first order by
its criterion over the order so far, lengths by the paths of each number of
edges. `MCTraversals` puts them side by side; they share no state but the graph.
Keys of type 4 (the sum of order differences) are shown to the queue after each
of the first 1000 turns and after every 25th from then on (`graph.c:2102`,
`csr.c:4881`); both numbers are constants (`EveryTurn`, `Stride`), and the
criterion is that of the last such turn (`Refreshed`).
Contract: indices in range, weights not negative, few enough vertices for keys
to fit their integers. No state outlives the call, so a failure loses nothing but its own arrays.

**SparseView.** The compressed storage and what the loops over it
share: offsets counted, summed by `MAKECSR`, advanced as cursors while entries
are put in their lines and turned back by `SHIFTCSR`; and the queues of
`MakeSymmetric`, through which duplicate entries are matched one to one. Arrays
are functions from 0; what `malloc` gives is `Garbage` until it is written.

**CSRMatrix, Matrices.** A program has one matrix or graph, `mat`, and calls the
functions on it, one action each; the result, `ret`, is dropped or becomes the
matrix, so that any sequence of calls is a behaviour. `CSRMatrix` has the form of
such calls and those on matrices (copies, the two views, symmetrization,
filters); `Matrices` adds those on graphs and composes all. A call returns,
refuses its arguments (`SIGERR`) or runs out of memory (`SIGMEM`): in the
functions that check and allocate first, all failures look alike, because
everything made is freed. The exception is `gk_csr_CreateIndex`, which works in
place and is modelled with what each failed allocation leaves behind. Of the
dozen optional arrays per row and column, all of which are handled in the same
way, one per side is kept (`rlab`, `clab`). Arguments that are arrays, such as
permutations, are right and wrong ones. Equal keys come out of a sort in any
order (`Ties`). Floating-point values are small whole numbers. Contract: a view
that a function dereferences without looking exists (`Prune`, `Shuffle`,
`CompactColumns`, the source of `CreateIndex`), has values where they are read
whether there are any or not (`SortIndices`, the filters), and filters of columns
have two views of the same entries. `gk_csr_TopKPlusFilter` is given no line with
more entries than the matrix has columns (rows, for a column): its array of
candidates has room for no more (`csr.c:2570`, `2613`), although a line with
duplicates may be that long and the other functions accept it (`CandidatesFit`).
The loops are those of a build without
OpenMP. `apart` is a history variable: what a caller must know before it uses
both views.

**SparseMatrix.** The promise, without storage: matrices are bags of entries,
once by rows and once by columns, and each call is specified by the cells its
result takes from which cells of the old matrix, by what may be dropped by a
filter, and by when it refuses.

**TextFile, Readers, SparseReaders, Formats.** One call that reads or writes a
file. A file is lines of words or binary items; a word is a number counted in
tenths, a symbol, or neither. `rd` is the activation of a reader: where it
stands, the arrays and their capacities, what it has found; `heap` names the
blocks it holds and `stream` its file. A step is a stretch of the code up to
the next call that can fail; any allocation or stream call may fail, once per
behaviour. Raising an error may not return, so every exit is a place where
stream and blocks must be gone before. `Readers` has `getline` (the library's
fallback), arrays of numbers, lines, binary arrays and sequences;
`SparseReaders` the formats METIS, CLUTO, CSR, IJV and the three binary ones,
for matrices and graphs; `Formats` the writers, print by print, with the
transaction of `OutputFile` as one step at the end. How the C library parses a
number is its own; values of `errno` and names of files, their extensions and
NULL names are left out.

**FileMeaning.** What a reading call promises, said of the file as a whole and of
its words by their positions, without loops or buffers: exactly the rows that
the file spells, or an error and nothing. Three things the code does are part of
it because they are consequences of `strtol` and `printf`: a decimal where an
index belongs is taken as the index before its point and the value after it, and
of such rows nothing is promised (`Unclear`); a CSR file read with `readvals` 0
leaves the values unwritten (`Garbage`); and weights of a graph that `%f` prints
as 0.000000 are beyond what the model's tenths can say.

**Paths.** Processes that call `gk_mkpath` and `gk_rmpath` on one tree of
directories, files and symbolic links, one step per system call, beside programs
that add, remove and rename entries. A directory that was opened is found through
its descriptor even after it was renamed or removed. `readdir` returns the
entries that were there all the time, in any order, and perhaps those that came or
went. All links lead to one node (`Aim`) and the working directory is the
root. A first component such as `x:` of a longer path is never made, as the code
takes it for a drive on every system (`fs.c:866`). `errno`, permissions, hard
links and the Windows branch are left out. `inside` and `since` are history
variables, for the properties only.

**Similarity.** Sums, norms, normalisation, scalings, similarities of lines and
the search for similar rows, for matrices with both views or one, with and without
values, with arguments that the code refuses: an error, a failing allocation, an
assertion that aborts. Values are small integers before they are scaled; what is
computed is kept exact, as a fraction or the root of one, so that properties do not
depend on rounding. A normalisation, scaling or abort ends a behaviour. The marks
of the search are the caller's, and then go from one call to the next, or its own.

**Itemsets.** The recursion of `gk_find_frequent_itemsets`, one step per level
entered, column chosen and level left, with the marks that all levels share.
Transactions are sets of items, each with an item at least.

**Calls, Select.** One call per behaviour, with its loops as folds or
functions over positions: strings (tokens, replacement by a pattern and by
characters, pruning, case, comparison, names of paths), the selection of the k
largest or smallest, `gk_read` and `gk_write` over partial transfers, shuffles
for every number the generator may return, Base64 with its arithmetic, the
dense kernels with the strides of their arrays, the measures of a ranked list, the
bounded queue, and the constructors that make several blocks with recovery
frames around them. `gk_strstr_replace` runs step by step, since its output
grows. The matches of `regexec` are external: a pattern is the set of words it
matches, leftmost and longest first. A sort or selection may leave equal keys in
any order. Base64 is called where error reports do not return, and decodes what
its encoder makes.

## 3. Runs

All runs are exhaustive searches of the stated instance. `expect: pass` runs
finish without error; the four `violation` runs are the findings of section 5.

| Run | Checks | Bounds, and why they are enough |
|---|---|---|
| `tracker` | log within its capacity with a mark at its bottom (`LogWellFormed`), one record per tracked live block (`RecordsOwnBlocks`), statistics equal to the sum of the log (`StatsExact`), failed calls change nothing (`FailureIsNoOp`), refinement of `RegionStack` with its liveness | three addresses, `SIZE_MAX` 6 and `PTRDIFF_MAX` 3, a log of two that doubles once and then may not: reuse of a freed address, growth, refusal to grow and saturation all occur. No symmetry, as TLC does not combine it with liveness |
| `mcore` | storage and payloads live and recorded once (`StorageOwned`), counters exact, core payloads disjoint inside one frame (`DisjointInside`), a refused pop, delete or destroy changes nothing (`RefusalKeepsState`) | two kinds of behaviour from the initial state, told apart by the variable `nested`: one tracker frame and three payloads, or two nested frames and two payloads; a core of five bytes with padding, so that core and heap both serve |
| `mcore_overlap` (violation) | `CoreBlocksDisjoint` with nested frames | five payloads |
| `htable` | pairs counted and a free slot left (`SlotsCounted`), pairs reachable by probing, no block lost, refinement of `MultiMap` | three keys, two of which collide, two values, several pairs per key, tables of up to `MaxSlots` slots, one inner frame: growth, refused growth, tombstone-filled tables |
| `htable_scan` (violation) | a scan finds the key | the same keys, values and frames |
| `parts` | seven parts that share no state, one per behaviour (`Used`): see below | |
| `similar_pair` (violation) | `SimilarityWhole` | the part `similar` alone, matrices with values, one call |
| `traversals` | the invariants of `Components`, `BFSOrder`, `BestFirst` (`ComponentsFound`, `BreadthFirstOrder`, `BestFirstOrder`, `ShortestLengths`) | all undirected graphs of four vertices with lists in both orders, all acyclic ones with a loop and duplicates; every first vertex, every type, nine weight patterns with 0 and ties: unconnected graphs, moves of the last entry into each place, an entry that is itself the last, and paths improved later all occur. `EveryTurn` 1 and `Stride` 2 instead of 1000 and 25: after the second turn the keys of type 4 stay old while two vertices are left to choose from |
| `first_row` (violation) | `FirstRowChosen` | the same graphs of three vertices |
| `matrices` | every view a call leaves is one that the next accepts and is written to its last entry, and row and column views agree unless the caller knows better (`ViewsInStep`); symmetrized matrices are symmetric with duplicates and pass the check of METIS output (`Symmetrized`); refinement of `SparseMatrix` | any sequence of calls, begun on every 2x2 matrix of at most `MaxFirst` entries, values and duplicates included, with some of shapes 2x1, 0x2 and 3x3 and graphs of up to `GraphMax` edges, with and without values. The program goes on with results of at most `MaxEntries[n]` entries (3, for n = 3 none: on two rows every permutation is its own inverse, on three not) and of the values `Values` (so sums and halves do not go on for ever). `SparseLimit` is 1 instead of 6, so that both ways to fill an index occur; sums overflow above `MaxWeight` |
| `formats` | stream and blocks gone at every exit, also when raising returns (`NothingLeaked`); no array written past its capacity (`WithinCapacity`); a write is all or nothing and reads back (`RoundTrip`); refinement of `FileMeaning` | for every format, one to three well-formed files and all that one edit makes of them: another word (of nine, among them a negative, the largest and one beyond), a word or line less or more, a comment, a NUL; matrices of up to 2x2 to write. `FirstCap` 1 and `FirstLine` 2 instead of 32 and more, so that every array and line grows more than once; `Int32Max` 3, `SizeMax` 200, sequences of `Width` 2 residues instead of 20 |
| `paths` | what a call returns is true of the tree (`OutcomesTrue`), a removal takes nothing that was never in its tree (`RemovalConfined`), every call returns with nothing left open (`CallsReturn`) | two processes at a time on a tree of six nodes and two names, in four kinds of tree (empty, a file or a link in the way, a directory with a directory and a link inside): make beside make, make beside remove, remove beside remove, and eight odd paths; `MaxTrouble` 1: at one point of a behaviour a call fails or another program adds, removes or renames an entry |

The seven parts of `parts`:

| Part | Checks | Bounds |
|---|---|---|
| `queue` | locator inverse to heap (`LocatorExact`), heap order (`HeapOrdered`), refinement of `PriorityMap` | every sequence of calls on six nodes and two keys, the least first (the other order is the mirror image): six is the smallest size where the last entry, put into the hole of a deleted node, must move up |
| `cache` | lines in one way of their set with distinct stamps (`WaysSound`), refinement of `LRUSets` | four lines compete for three ways, seven loads between resets |
| `recovery` | flags agree with `gk_cur_jbufs` and no frame below the legacy binding is released before it (`BindingsSound`), refinement of `BindingStack` | three frames, three masks: the limit is reached, the legacy binding sits at every depth, failing mask calls occur everywhere |
| `output` | temporary files owned once (`TempsOwned`), the first error reported, refinement of `AtomicFile` | two writers, two names, two chunks; every call fails at every place, the process dies anywhere, left-over names exhaust the attempts |
| `call` | each call against its definition (`AnswersRight`) | strings of up to five characters of two or three kinds, patterns that match the empty word, at the start only, or a group; transfers of at most `IntMax` 3 bytes that move any number of bytes; Base64 of up to six bytes that meet every boundary of the arithmetic; constructors with a failure at each block, throwing and returning |
| `itemsets` | the itemsets found are the frequent ones, each once, with their transactions (`ItemsetsRight`) | every choice of transactions over three items and three transactions, three settings of the limits |
| `similar` | sums, norms, similarities and searches do not depend on the calls before, and marks are clear after each (`SimilarRight`) | matrices of three rows and two columns of three and five entries, empty ones and a row with a gap; two calls |

Deadlock is checked everywhere but in `formats`, where a program ends when its
result is released. Other modules that end (`Paths` when both calls have
returned, the parts when the process is dead or the call has answered) have an
explicit stuttering step there, so that stopping anywhere else is an error.

Every module has a type invariant. Where a proof module states it as a theorem
(`TypeCorrect` and its kin, `LocatorTheorem`) it is not checked again by a run; elsewhere it is part of a
property that a run checks (`SlotsCounted` has that of `HTable`, `ViewsInStep`
that of `Matrices`).

**Fairness.** Two modules state fairness, both of the same kind: C code that has
begun is executed by its thread to its end. In `AllocTracker` it is `PopNext`,
the turn of the loop in `gk_malloc_cleanup`; the promise is that a cleanup ends
(`RegionSpec` includes it). In `Paths` every process keeps running until its
call returns (`Runs`), and `CallsReturn` follows, although others keep the tree
changing. No caller is assumed to call anything.

## 4. Proofs

Everything proved holds for every value of the constants that satisfies the
named assumptions: `NullIsNoAddress` (the null pointer is no address),
`WordSizes` and `SizesAreWords` (word limits are ordered, the initial log fits),
`JbufsPositive` and `SomeMask`, `DepthNat` (frames are counted), `Widths`,
`KeysAreInts` and `CapacitiesAreInts` (keys and capacities of the hash table are
values of the C `int`, and the reserved keys are not among them), `CacheConstants`
(positive geometry), `PQConstants` (a node at least, integer keys),
`OutputConstants` (at least one name to try; "no file" is not a file),
`FirstCapPositive`, `ReaderWidths` and `WordConstants` (a first capacity that can be
doubled, limits of words), `NumberedApart` (blocks that are counted have other names
than the rest), `ReadCallsMeant` and `WriteCallsMeant` (a file has no more lines than a
`size_t` counts, binary items are integers, what was written is read by the reader of
its kind), `GraphsOnVertices`, `WeightsOnEntries` (each entry has a weight, none is
negative), `Throttle` (the limits of the updates of type 4 are numbers, the second not 0), `TreeConstants` (finitely many nodes; the root and the aim of links
are nodes, and no name is empty or made of dots) and `PathConstants` (a path is
a sequence of names, dots and empty parts).

**TrackerProofs.** What the operators of `TrackerOps` do, for `AllocTracker` and
for `Mcore`. `Sound(t)` is what a tracker looks like between steps: typed, within
its capacity, anchored at a mark, one record per tracked live block. Each operator maps a
sound tracker to sound outcomes (one lemma per C function), and an outcome with
an error has changed at most the capacity of the log. `Home(mops, p)` is the set of marks
before the record of `p`, which is the frame that the block belongs to; no
operator changes it for a block it leaves alone, although a swap-removal moves
records. `Total(mops, kind)` is the sum of the sizes in a log. The sum is a
recursive function, so that it exists, and what an append, a pop, a replacement,
a swap-removal and the records of one kind do to it, needs induction. The
library's induction theorem takes an operator and cannot be cited, but a set can
stand for it: `Inductive` says that a set of numbers with 0 and every successor
is all of them, and each fact about sums is a set of lengths for which it holds.

**AllocTrackerProofs.** `TypeCorrect`, `LogTheorem`, `OwnershipTheorem`,
`FailureTheorem`, `StatsTheorem`, `RegionTheorem`: the log stays within its capacity, starts with
a mark, and names each tracked live block exactly once; a failure changes nothing;
`cur_hallocs` is the sum of the log; every step is one of `RegionStack` or leaves it alone. Each action picks an outcome of an operator.
`Sound` alone is not inductive for the two loops: `IInv` adds that a
loop in progress has something to do, which is that the variadic free has an
argument left and that a frame being popped is there. `FailureTheorem` for
`gk_malloc_init` rests on the first mark always having room, or a new tracker
without a frame would stay. `StatsTheorem` needs that subtraction never wraps:
one record is at most the sum (`Exact`), and that the checks before each call
keep the cumulative counter, the largest of the three, within a word.
`RegionTheorem` is the refinement of `RegionStack` without its liveness. The
stack reads the log by counting marks below a record; that count is the size of
the block's `Home` (`FramesAre`), and a block has one record and so one home
(`OneHome`). The lemmas of `TrackerProofs` about homes then say what each operator does to
the stack: a new block goes on top (`AllocateStep`), a release takes one off the top
(`ReleaseStep`), a move stays in its frame (`MoveStep`), a mark opens a frame
(`OpenStep`), a turn of a cleanup releases one block and the last one ends an
empty frame (`CloseStep`, `EndStep`), and everything else leaves the stack alone, although
a swap-removal reorders the records.

**McoreProofs.** `TypeCorrect`, `StorageTheorem`, `CountersTheorem`,
`DisjointTheorem` and `RefusalTheorem`. `StorageOwned` is not inductive. That
`gk_mcoreDestroy` never frees one of its three blocks and is refused the next
needs them to be in one frame of the tracker (`Stands`: one `Home`), also after
the log was reallocated while an inner frame was open. That a cleanup of an inner frame takes
nothing that is in use needs a statement about the cleanup while it runs
(`Closing`: what is in use is not of the frame being popped). `CountersExact` is
about sums (`Counts`), and bounds `corecpos` by the core. `DisjointInside` needs
most. `Cut(mops, j)` says that the sum of the core sizes up to record `j` is a
position in the core with the records before `j` below it and those after it above. A
swap-removal by `gk_mcoreDel` reorders records, but never across a mark, so that
the core is cut at every mark and, between calls, at the end (`Packed`, `AtEnd`);
when a pop reaches its mark, it has given back what lay above the cut. A
pop that stops midway would break this, so the invariant also says that it does
not: within one frame of the tracker every payload is of the innermost frame
(`Quiet`), and the tracker does not refuse it. The run `mcore_overlap` shows what
happens otherwise. TLC checked this invariant on the instance of the run `mcore`
before it was proved.

**PartsProofs, recovery.** `RecoveryTypeCorrect`, `BindingsTheorem` and
`StackTheorem`, the refinement of `BindingStack`. The parts of `BindingsSound` are inductive
together: that no frame below the legacy binding is released first needs the
guard of `gk_siguntrap` and that flags are exactly those up to `gk_cur_jbufs`.
For the refinement, `OpenIsStack` says what the stack is in terms of frames and
the recorded depth, `InnermostIs` that the binding the code takes for the
innermost is its last member, and `RoomThere` counts: there is room for another
frame exactly while `gk_cur_jbufs` has some, because the legacy binding takes
one place of the stack and none of the frames. A binding made pushes one member
(`Pushed`), one released pops the last (`Popped`); refusals, jumps and host
signals have a lemma each.

**HTableProofs.** `BlocksTheorem`, `SlotsTheorem`, `ReachTheorem` and
`MapTheorem`, the refinement of `MultiMap`. For blocks, the invariant adds that the
frame of the table is still open (`Shape`); then structure and array are always
in the same frame, so that a resize under an inner frame is refused as a whole and
the end of a frame takes both or none. For pairs it is `Packed`: the count, and
that no empty slot is nearer to a home slot than a pair of it. The probe
sequence visits every slot once (`DistanceIs`), so the nearest dead slot is nearer
than every empty one (`PutPacked`); a removal makes no empty slot (`TakePacked`).
A rehash is a recursive function over the slots. It exists (`LoopExists`), and by
induction on the slots already moved (`LoopHolds`) the new table is packed and
holds their pairs; one that is still to be moved is not counted yet, which leaves
a dead slot for it. That an insertion always finds room is then arithmetic
(`InsertHolds`). The values of a scan are typed because its two cursors never
part (`Met`), which is also the reason of the finding `htable_scan`.

**PartsProofs, cache.** `CacheTypeCorrect`, `WaysTheorem` and `LRUTheorem`, the
refinement of `LRUSets`. A line is placed twice only if two ways of one set could miss it
at once; the invariant adds that all stamps lie in the past, so that a new stamp
is new, and that the counters add up to the clock. For the refinement, ways in
use and lines held correspond one to one, so that a set is full exactly when no
way of it is unused (`RivalsCounted`), and the lines kept by a load are those of
the ways it does not touch, in each of its three cases (`LoadIsLoad`).

**PartsProofs, priority queues.** `LocatorTheorem`, `HeapTheorem`, `CheckHeapTheorem` (the code's own
assertions hold between calls) and `PriorityTheorem`, the refinement of `PriorityMap`. Between calls the invariant is the two properties
themselves (`Well`): locator and heap are each other's inverse and no entry comes
before its parent. The work is inside a call. A call leaves a heap with a hole
(`Hole`, `OrderedBut`), and a filter moves the hole. `FilterUp` and `FilterDown`
are recursive functions, so it is first shown that such functions exist
(`ChainExists`: every hole goes on to a place where a measure is smaller) and then,
by taking the first place that would be a counterexample, what they do: where
entries and locator end up (`Moved`), and that entries below a rising hole only
get smaller ones above them (`Risen`), those above a sinking hole only larger ones
below (`Sunken`). That the hole may start in the middle, at the place of a deleted
or updated node, needs its parent to be above its children (`Bridged`). Every call
then puts one node in (`IsWith`) or takes one out (`IsWithout`), and the root is a
best one (`RootComesFirst`). There is room to insert because the places in use are
one to one with the queued nodes (`AsManyAsQueued`, `RoomForFree`): `Insert` does
not check it.

**PartsProofs, output files.** `OutputTypeCorrect`, `TempsTheorem`, `FirstErrorTheorem` and
`AtomicTheorem`, the refinement of `AtomicFile`. The inductive invariant says
what its place in the code implies for a transaction's fields (`TxOK`), that
its mode is the one the destination has now, whoever replaced it since `lstat`
(`ModeOK`), and that the file it owns has that mode and, closed without an
error, every chunk (`ContentOK`). With these, every action is one of a few
kinds, each with a lemma: a transaction ends (`EndStep`), goes on with the file
it has (`StayStep`), fails and will remove its file (`ToRemove`), or takes a
file (`CreateTempInv`). The rename is the abstract commit because of `ContentOK`;
every other step leaves the abstract file alone and changes at most what one
writer is told (`Quiet`).

**TraversalProofs, components.** `ComponentsTypeCorrect`, `ComponentsTheorem`. `TodoSound` is not
inductive: that the entry taken from the list of vertices not found has its
place known needs `TodoListed`, every place in use is that of its entry. That an
entry seen belongs to the component begun last needs `Begun`: components begin
before the vertex being explored. `Begun` also says of each vertex found in
which component it is, which an induction over the components would otherwise have
to show at the end.

**TraversalProofs, breadth-first orders.** `OrderTheorem`. When the explored vertex `a` opens `k`, no
vertex explored before `a` has an edge to `k`, or `k` would not be to do
(`ExploredClosed`); and a vertex open before `k` is reached from `a` or from one
explored earlier (`OpenReached`). The swaps keep `cot` a permutation
(`Swapped`), also after `maxdegree` has put rows in front (`SiftedPermutes`: a map of a
finite set onto itself is one-to-one). Graphs and vertices are only assumed to
be as `GraphsOnVertices` says.

**TraversalProofs, best-first orders.** `ListsTheorem` and `BestFirstTheorem`. One array holds the open vertices, then those
to do, and `pos` its inverse (`Listing`); the open vertices are those queued and,
once a vertex was taken, those with an edge from one taken (`Opened`). Taking a
vertex moves up to two entries, possibly the same one (`TakenListing`), opening one
swaps two (`OpenedListing`). When nothing is open, the first vertex to do exists
because the vertices taken are as many as turns (`Ranked`, `TurnsLeft`), which also
makes the order a permutation at the end.

The keys are updated edge by edge, while their meaning is said of all the edges that lead
from vertices taken. The invariant `KeysInv` says it of the edges *seen* (`Seen`: all but
the rest of the list of the current vertex): `degrees` is their number (`Sights`),
`wdegrees` and `sod` the sums of the orders they come from and of what these are short of
the turn (`OpenSums`), and a queued vertex has a key made of these and of the
greatest order among them (`OpenKeys`). A key of type 4 is the sum of the differences as
they were at the last update, and an edge from a later turn counts 0 in it (`LateKeys`); so it
holds for any two limits of the updates, those of the code among them. At the end of a turn every difference grows by
one, hence the sum by the degree, which is what the code adds. The variant that queues all
vertices sums over the list of the other end instead, and so counts edges to the current
vertex that were not seen yet (`Met`): there the graph has to be symmetric
(`SumTakenIs`), and the key is right of the last order seen (`AnyKeys`). Between turns
everything is seen and both say what `KeysMean` says. `SumFunctionOnSet`
of the community modules is a function chosen to follow its recursion;
that one exists, that it does not depend on the order of the elements,
and what it gives for one element more, a union, a constant and values that each grow by
one is proved first (`AdderExists`, `SumAny`, `SumMore`, `SumUnion`, `SumConstant`, `SumAged`).
TLC checked `KeysInv` on the instance of the run `traversals` before it was proved,
except `LateKeys`, which it cannot evaluate (a sum is quantified over) and which it met
through `BestFirstOrder`.

**TraversalProofs, shortest paths.** `ShortestTheorem`. `Lengths` defines the
lengths of the shortest paths of at most `n` edges by recursion over `n`; that this
function exists and follows its recursion is shown as for the sums of the tracker
(`LengthsLaws`). The invariant `PathsInv` has two halves. A length the code has found is
that of some path (`PathsReached`), and of how many edges is counted in final vertices: the path
to a queued vertex has at most as many edges as there are final vertices, and the one
to a final vertex one less. So it is within the `nvtxs` edges that `Lengths` looks at, and
no argument about paths that repeat a vertex is needed. No path is shorter than the
length of a final vertex (`Nearest`): one to a vertex outside leaves the final
vertices over an entry that has been seen (`Relaxed`), hence over a queued vertex, and what
is taken from the queue is the nearest of those (`NoneNearer`, by induction over
the number of edges, which is where weights must not be negative). When
the queue is empty nothing else is reached (`NoOtherReached`).

**PathsProofs.** `FilesTheorem`, `ClosedTheorem` and `ConfinedTheorem`. Others
rename, replace and remove while `gk_rmpath` looks, opens, reads and removes, so
what one of its steps finds need not be what the step before saw. The invariant
says instead what holds of any tree it may find: the directories it has open were
in the tree it removes (`Opens`), that tree, as remembered, has all that is in a directory of it,
and the rest of the path leads into it or nowhere (`Holds`). So
whatever is at the name that is unlinked was inside (`EntryInside`): `openat`
follows no link, and a name is looked up in an open directory only. With where each
step of the code can be (`Working`) this also shows that a call that
returned, whichever way, has closed what it opened. A path is followed, and a tree gone
down, by recursive functions; that they exist, and that what is below a set of nodes is closed,
is proved by counting the steps (`CarriedOn`) and the nodes left (`BelowLaws`).

**FormatsProofs.** `LeakTheorem` and `CapacityTheorem`, for every file, every format
and any one step of a call failing. Both properties speak of a call
that has ended, or of one growth, and neither is inductive. What the invariant
(`FormatsInv`) adds is said place by place: which blocks each reader holds there (`RowsAt`,
`VerticesAt`, `TriplesAt`, `BinaryAt`, `BIJVAt`, `LinesAt`, `BinAt`, `GetlineAt`, `SeqAt`)
and that the entries found so far fit their arrays (`Gathers`). An error exit frees a
fixed list of blocks, and `PathEnds` says that it ends the call as
promised if that list has all that is held; then each reader has one lemma about its exits
(`CSRPaths`, `GraphPaths`, `TriplePaths`, `BinaryPaths`, `BIJVPaths`, `LinesPaths`,
`SeqPaths`) and one per step about where the step goes. Doubling a capacity until a row
fits (`GrownLaw`) and scanning a row to its end (`RowLaw`) are recursive functions; that
these exist and do not exceed the room is proved by induction over sets
of numbers (`CountedUp`). Of a text the proofs assume nothing: which words are numbers, and
which numbers fit, decides only where a step goes. TLC checked `FormatsInv` on the
instance of the run `formats` before it was proved.

**Only model-checked.** The liveness of `RegionStack`, the refinements of
`SparseMatrix` and `FileMeaning`, what files say after a write (`RoundTrip`), everything
about matrices, strings, itemsets and similarities, and of paths what the calls
return (`OutcomesTrue`). Most of these results
are recursions over arrays, sequences and floating sums; a fact about a
recursive function costs an induction written out with sets, as for the tracker,
the hash table and the shortest paths, and for these it has not been done. Liveness under
fairness cannot be proved with these tools, so that the part of `RegionSpec`
and `CallsReturn` that says something ends stays with TLC.

## 5. Disagreements with the documentation

- `mcore_overlap`: `gk_mcoreDel` fills a freed log slot with the last record
  (`mcore.c:483`). When `gk_mcorePop` is then refused the release of a heap
  payload of an outer frame, it returns midway (`mcore.c:360`) with a core
  record left that lies above `corecpos`, and the next request is served from
  the same bytes. `docs/architecture.md:58-60` says that failing mcore paths
  "leave previously committed state usable".
- `htable_scan`: `HTable_GetNext` with `HTABLE_FIRST` sets both cursors to the
  home slot (`htable.c:355`); the search loop between them is empty, so a scan
  ends before it has looked at a slot. `htable.c:333` says that it "returns the next key/val".
- `first_row`: `csr.c:4583-4584` says of the first row of a breadth-first order
  that "A value of -1 indicates that a randomly selected row will be used", but a
  row is drawn only if `maxdegree < nrows` (`csr.c:4659`); otherwise -1 is used as
  an index (`csr.c:4664`) and taken as the first row.
- `similar_pair`: `gk_csr_ComputeSimilarity` "returns the similarity between the
  two rows/columns" (`csr.c:3538`) and its merge has branches for what is left of
  the longer line (`csr.c:3583`, `3587`), but the loop ends with the shorter one
  (`csr.c:3582`): the rest never counts in the norms, and the similarity comes out
  too large. `gk_csr_ComputePairSimilarity` repeats the loops.

Smaller ones that no run shows; the models follow the code:

- `csr.c:4579-4582` says of `gk_csr_ComputeBFSOrderingSymmetric` that `maxdegree` is
  the maximum number of nonzeros of the rows that take part and that rows with more
  go in front. The code lets only rows with fewer take part (`csr.c:4632`), so rows
  with exactly `maxdegree` nonzeros go in front too (`Sifted`), and
  `BreadthFirstOrder` is about the rest.
- `csr.c:2525` and `2532` say of `gk_csr_TopKPlusFilter` that entries greater than
  `keepval`, "above" it, are kept past the first K. The code stops at the first that
  is less (`csr.c:2587`, `2629`), so equal ones are kept too (`TopKept`, `TopLine`).
- `gk_csr_TopKPlusFilter` says nothing of duplicate entries, but its array of
  candidates holds as many as there are rows (`csr.c:2570`) or columns
  (`csr.c:2613`), while it is filled with every entry of a line. The model does not
  call it with longer lines (`CandidatesFit`).
- `fs.c:260` says that the path of a name without directories is "./", and the code
  returns ".".

## 6. Plan

Done, in this order: tracker, mcore, recovery, hash table, priority queues,
cache, output files, traversals, matrices, readers and writers, paths, strings
and other calls, itemsets, similarities; proofs of the tracker with
its statistics, mcore, recovery, the hash table, the cache, priority queues, output
files, components, breadth-first and best-first orders, shortest paths, the
confinement of removals, and the memory of readers.

What would add most next:

1. To prove: of matrices the facts that need no sum: slices, permuted rows and sorted lines stay valid views.
2. To model: filters of columns with two OpenMP threads that advance the cursor of the
   same row (`csr.c:2448`), the lazily seeded state of the random generator.
3. Larger instances of `paths`: three processes, two troubles.

## 7. What is not modelled

- The OpenMP regions: their iterations are taken one after the other, as in a
  build without OpenMP. For the filters of columns that is a listed hazard
  without a property.
- `gk_csr_TopKPlusFilter` on lines longer than its array of candidates (section 5),
  the other listed hazard without a property: nothing can be said of the state after it.
- The Windows branches (other system calls than those modelled here).
- The Mersenne twister (64-bit arithmetic on 312 words); its users are modelled
  for every number it may return.
- Mean and deviation, random walks and PageRank: floating-point formulas, iterated
  to a tolerance; the rounding of the dense kernels (`gk_mkblas.h`) and of the ranked
  measures (`evaluate.c`), which `Calls` computes on integers and fractions.
- The quicksort of `gk_mksort.h`, a macro of the GNU C library, which appears as
  any sort; number parsing and formatting of the C library.
- Queries that are one system call (`gk_fexists` and its kin, timers) and the
  formatted times.
- The vendored regular expressions and getopt, the command lines of the
  applications, the build and the upstream tools, and the last 300 lines of
  `graph.c`, which are not compiled.

`PROJECT.json` names each with its reason.
