# A verification of MPUCalc in TLA+

MPUCalc computes the entries of the ARM Cortex-M7 memory protection unit (MPU)
that cover given address ranges, lists the memory map a set of entries makes,
turns a yaml description of a memory map into a C header at build time, and
loads that table into the MPU on the target.

The hardware makes this hard. A region of the MPU has a size that is a power of
two, is aligned to that size, and has 8 subregions that can be disabled one by
one; where two regions overlap the higher-numbered one wins; there are 16 of
them. All address arithmetic is 32 bits wide and wraps.

This directory holds TLA+ modules for the program and for the part of libyaml
that is vendored with it, TLC configurations that check them on small instances,
and proofs, checked by TLAPS, for instances of every size. `PROJECT.json` says
which lines each definition models.

Contents: 1 the system's parts; 2 the plan; 3 the modules and how they
correspond to the code; 4 what is checked; 5 what is proved; 6 where code and
documentation disagree; 7 what is not modelled.

## 1. The system's parts

| Component | Files | Status |
|---|---|---|
| Calculator | `src/mpu_calculator.{h,cpp}` | modelled |
| Display | `src/mpu_display.{h,cpp}` | modelled, but for `display_entries` and formatting |
| Disjoint ranges | `src/range_vector.h` | modelled |
| Command line tool | `mpu_calc/mpu_calc.cpp` | modelled |
| libyaml | `libyaml/` | scanner, parser, loader, dumper, emitter; not the reader and the writer of bytes |
| MPU on the target | `src/configure_mpu.{h,cpp}`, `src/mpu_table.{h,cpp}` | modelled, but for what `MPUThreadGuard_calculate` computes |
| CMSIS wrappers | `cmsis/mpu_armv7.h`, `cmsis/cpu_m7.h` | modelled |
| Atomics | `cmsis/atomic_intrinsics.h` | modelled |
| Two-pass link | `scripts/run_update_memory_map.sh`, `example/` | not modelled |
| ARM core headers, tests | `cmsis/core_cm7.h` and others, `unit_test/`, `test/` | not modelled |

How they interact: the two-pass link runs the tool with symbol addresses of the
first link. The tool reads a yaml file through libyaml and calls a calculator
for each region, appending its entries to the `mpu_table` of a display object,
which lists the map with the help of disjoint ranges; the table is written to
`memory_map.h`. On the target, `mpu_table.cpp` includes that header,
`Configure_MPU` loads it, and calculators make single entries for region 15 at
run time (the stack guard of a thread, and `mpu_configure_region`).

**Calculator.** State: `start_addr`, `end_addr`, `mpu_region_number`,
`mpu_table[20]` with `num_entries`, and the fields one search leaves to the next
step (`first_subregion`, `num_subregions`, `first_addr`, `next_addr`,
`actual_size`, ...). Operations: `build_best_mpu_entries` with
`select_best_mpu_size`, `try_subregion_size`, `build_entry` and
`copy_child_entries`; and the older `find_size_and_subregions`, used for region
15. It chooses the largest entry that fits and calls itself, on an object of its
own, for what is left on each side; both results are ignored.
Hard: every comparison meets wrapped sums; members are overwritten by each
candidate tried and used after the loop; termination and the number of entries
rest on the choice of the best candidate; tables fill up at any depth.
Correct means: nothing outside the range is mapped, everything inside is, once,
by the largest entry the hardware has, with consecutive region numbers, in few
enough entries, and the recursion ends.

**Display.** State: `mpu_table[20]`, `mpu_entries`. Operations: `set`,
`display_memory_map`, `get_first_and_last_address`, `display_interval`.
Hard: decoding of SIZE and SRD at the extremes; which of several overlapping
entries is shown (`max_region` is initialised and never updated).
Correct means: each interval is shown with the attributes the MPU would use, and
first and last address bound what is mapped.

**Disjoint ranges.** State: sorted ranges, the active interval with its list, the
output vector. Operations: the sweep of the constructor, a binary search.
Hard: `stop + 1` wraps at the top of the address space; ranges with the same
start or stop; a search for a value outside all intervals.
Correct means: the intervals partition the space, each with exactly the ranges
that cover it; the search ends and finds the interval of its argument.

**Command line tool.** State: globals for the current region's fields, the region
number that runs through the file, the display's table. Operations: traversal of
the yaml nodes, `add_region`, padding with unused entries, writing the header.
Hard: the globals are only reset by the key `region`; the table index is bounded
by each calculator but not by the file; errors are printed and then ignored.
Correct means: each region is built from its own fields only, entries of later
regions do not overwrite earlier ones, an error is not turned into a table.

**libyaml.** State: the queue of tokens with the simple keys and the indentation
levels of the scanner; the state, the stack of states and the marks of the
parser; the nodes and aliases of the loader; the events, states, flags and the
position of the emitter; the anchors of the dumper. Operations: fetching a token,
one state function per event, loading and dumping nodes.
Hard: `KEY` tokens are inserted in front of tokens already queued; several blocks
end at one lexeme; stacks are popped without a look at whether they are empty;
the layout the emitter chooses has to be undone by the scanner, which was written
apart from it.
Correct means: what is written is read back as the same nodes, every input is
read to its end or refused, the stacks agree with each other.

**MPU on the target.** State: RNR, and RBAR and RASR of each region, CTRL, PRIMASK,
the tables of the threads. Operations: `Configure_MPU`, `mpu_dump`,
`MPUThreadGuard_calculate`, `mpu_configure_region`, `mpu_clear_region`.
Hard: select and access are separate register accesses that a context switch can come
between; the guard that should disable interrupts writes 0 to PRIMASK, which
enables them; region 15 has two owners.
Correct means: each region holds what one of its writers wrote, whole; a dump
shows entries that existed; the MPU is on with a complete table afterwards.

**Atomics.** State: a word, the exclusive monitor. Operations: compare-exchange,
decrement, by LDREX/STREX loops. Hard: the reservation can be lost at any time.
Correct means: each operation takes effect once, at one moment.

**Two-pass link.** State: symbols, header, image. Hard: the addresses of the first
link are used in the second. Correct means: the final table describes the final
image.

`PROJECT.json` lists the hazards found, each at its line.

## 2. The plan

In this order; each step rests on the ones before it.

1. `MpuWord`, `MpuRegion`, `MpuCalculator`, `MpuCoverage`, `MCMpuCalculator`:
   the calculator, its abstract specification, its runs. *Done.*
2. `MpuRegionTheorems`, `MpuCalculatorProofs`, `MpuCalculatorCover`: types, table
   bounds, region numbers, failure; nothing outside the range is mapped, nothing
   twice, and all of it in the end; the entry selected is the largest; no range
   needs more than a fixed number of entries; the refinement. *Done.*
3. `DisjointRanges`, `IntervalSearch` and their proofs: the sweep and the binary
   search, everything but termination proved. *Done.*
4. `MpuDisplay`, `MpuDisplayProofs`: from entries to ranges to the line shown, proved
   along the sweep. *Done.*
5. `AtomicCell`, `AtomicIntrinsics`: LL/SC loops with lost reservations, and the
   proof that they implement an atomic cell. *Done.*
6. `RegionFit`, `ConfigureMpu`: start-up, threads and context switches over
   registers, one access a step; all its invariants proved. *Done.*
7. `YamlLexeme`, `YamlScanner`, `YamlParser`, `YamlLoader`, `MpuCalcTool`: from
   text to regions; `YamlProofs`: scanner, parser, loader and walk agree, for every text.
   *Done.*
8. `YamlWriter`, `YamlEmitter`, `YamlDumper`, `YamlRoundTrip`: from nodes to text,
   composed with step 7. *Done.*

What is left: the display's `display_entries`, and of the proofs what section 5 lists
as only model-checked.

## 3. The modules

**`MpuWord`** -- words of `WordSize` values (2^32 in the code) and the helpers of
`mpu_calculator.h`: `Wrap` for arithmetic that wraps, `AlignDown`, `AlignUp`,
and `CeilingPower` for `1<<(32-clz(size-1))`. The powers of two are a constant
with assumptions (1 is one, `WordSize` is the largest, closed under halving; of two of
them the smaller divides the larger), which avoids any recursive definition.
`Granule` is the smallest subregion, 32 bytes in the code.

**`MpuRegion`** -- an entry of the table (`ARM_MPU_Region_t`): number, base, size and
disabled subregions, and what the hardware makes of it (`RegionBytes`,
`RegionBase`, `Mapped`). A size of 0, the result of a wrapped multiplication by
8, is encoded by `__builtin_ctz(0)`; that is undefined, and modelled as 32, what
the compiled code gives and what makes it the whole address space.

**`MpuCalculator`** -- `frame` is the calculator object that runs, `callers` the
suspended ones below it on the C++ stack, the program counter the place in
`build_best_mpu_entries`.

| Action | Code in `mpu_calculator.cpp` |
|---|---|
| `Refuse` | the early `return false` (table or number at its limit, range below a granule) |
| `SelectFullRange` | the special case 0..0xffffffff |
| `StartSelection` | the first subregion size of `select_best_mpu_size` |
| `TryBefore`, `TryAfter` | the two `try_subregion_size` of an iteration, with best-so-far, `break`, and the halving of the size |
| `Build` | `build_entry` |
| `CallLeft`, `SkipLeft`, `CallRight`, `SkipRight` | the recursive calls on new objects and their conditions |
| `CopyChild` | return of a call and `copy_child_entries` |

What is abstracted: attributes of an entry (XN, AP, TEX, S, C, B), which are
passed through unchanged; prints. What is kept: every wrap, every comparison, the
order of all steps, the fields of the best candidate, region numbers beyond their
4 bits (they are or-ed into RBAR unmasked when a child is copied: 16 sets VALID,
32 sets the lowest address bit).
Definitions marked "Variant" are versions of the code with a plausible bug; they
serve to show that the properties notice.

**`MpuCoverage`** -- the abstract specification: addresses are added that a request
permits, never another; then the whole request is mapped, or refused with
nothing built, or a table is full. No regions, no recursion, no arithmetic.
`ImplementsCoverage` is the refinement: `mapped` is the union of what all tables
on the stack map.

**`DisjointRanges`** -- the constructor of `DisjointRangeVector`. `start` and `list`
are the active interval (its list as the set of indices into the sorted
`ranges`: elements are appended in that order and erasing keeps it),
`intervals` the output, `next` the iterator of the outer loop.

| Action | Code in `range_vector.h` |
|---|---|
| `Begin` | the sort, in any order it can leave equal starts in |
| `Join` | append the next range, lines 261-265 and 302 |
| `Cut` | an iteration of the inner `do`, lines 268-301 |
| `Drain` | an iteration of the second loop, with its check for a wrapped sum |
| `Finish` | the last interval, lines 375-379, and the early return for no ranges |

**`IntervalSearch`** -- `find_disjoint_interval` over the finished intervals, one action
for each branch of its loop. Nothing in the repository calls it.

**`MpuDisplay`** -- composes the decoding of a table (`mpu_entry_t::set`, the loops over
subregions) with an instance of `DisjointRanges` for 0..0xffffffff, and with what
`display_interval` prints for each interval and what
`get_first_and_last_address` returns. What the hardware makes of an entry is `Mapped`
in `MpuRegion`, written without the display's code.

**`AtomicCell`** -- the abstract specification of `atomic_intrinsics.h`: each call takes
effect at one instant between its beginning and its end and returns the value the
word had then. **`AtomicIntrinsics`** -- the two loops.

| Action | Code in `atomic_intrinsics.h` |
|---|---|
| `Call`, `Return` | entry and return of `atomic_cmpxchg` and `atomic_dec` |
| `Load` | `LDREX`, with the comparison that leaves the loop |
| `StoreSucceeds`, `StoreFails` | `STREX` and the condition of the loop |
| `Lose`, `Write` | external: the monitor is cleared by an exception; somebody else writes the word |

**`RegionFit`** -- `find_size_and_subregions` with `build_entry`, as an operator from a
request and a value of `region_size` to an entry: that member is set by
neither, so `ConfigureMpu` chooses it.

**`ConfigureMpu`** -- `Configure_MPU` at start-up, then threads. One step for each
access to a register. What RBAR and RASR of a region hold is modelled by whose it
is: a row of the table, a thread's stack guard or its configuration.

| Action | Code |
|---|---|
| `Disable`, `Enable` | `ARM_MPU_Disable`, `ARM_MPU_Enable` (`mpu_armv7.h`) |
| `ClrSelect`, `ClrRasr` | `ARM_MPU_ClrRegion` in the loop of `Configure_MPU` |
| `LoadCall`, `CopyWord`, `NextBlock` | `ARM_MPU_Load` and `ARM_MPU_OrderedMemcpy`, through the alias registers in blocks of 4 rows |
| `Call` | the calls of `mpu_configure_region`, `mpu_clear_region`, `mpu_dump` |
| `Build` | the loop of `mpu_configure_region` that makes the entry |
| `Mask`, `Unmask` | constructor and destructor of `cpu_interrupt_disable_guard` (`cpu_m7.h`) |
| `Select`, `Clear`, `SetBase`, `SetSize` | `ARM_MPU_ClrRegion` and `ARM_MPU_SetRegion` of the last region |
| `RowSelect`, `RowBase`, `RowSize`, `RowEnd` | an iteration of `mpu_dump` |
| `MaskByCaller`, `Switch` | external: a caller with interrupts masked; the scheduler, which applies the guard of the next thread |

`own`, `cut` and `rowCut` are history variables: they record what a thread did to
PRIMASK itself, and where threads lost the processor; nothing reads them but
properties.

**The yaml modules** follow the files of libyaml, one module per file, each
extending the one it calls:

| Module | File | State | Step |
|---|---|---|---|
| `YamlLexeme` | -- | -- | the text: lexemes (an indicator, a scalar, an anchor, ...) with line, column, length and, for a scalar that was written out, its atoms: words, blanks, breaks |
| `YamlScanner` | `libyaml_scanner.c` | queue of tokens, simple keys, indents, flow level | `FetchMoreTokens`: one token fetched, with everything that is inserted or ended on its account |
| `YamlParser` | `libyaml_parser.c` | state, stack of states, marks, handles | one state function, or its part up to the next token it has to wait for |
| `YamlLoader` | `libyaml_loader.c` | nodes, aliases, open collections | one event |
| `YamlWriter` | `libyaml_emitter.c` | -- | operators on a record of text, position and the flags `whitespace`, `indention`, `open_ended` |
| `YamlEmitter` | `libyaml_emitter.c` | events, state, stacks, contexts | one event, once enough of them are queued |
| `YamlDumper` | `libyaml_dumper.c` | anchors, what has been serialized, the recursion's stack | one call of `yaml_emitter_dump_node` or of `open`, `dump`, `close` |

**`MpuCalcTool`** -- `mpu_calc.cpp`: `LoadNext`, `Loaded`, `LoadFailed`, `NoMoreDocuments` are
`read_memory_map_from_file`; `VisitKid`, `VisitValue`, `Return`, `TakeField`
(with `SetField` and `AddRegion`) and `Endless` are `traverse_yaml_node`, its recursion a
stack of frames; `WriteMap` is the end of `main`. The calculator is represented
by what it tells its caller: how many entries it built, and true or false.

**`YamlRoundTrip`** -- the composition: the dumper writes a document through the
emitter (`Write`), then the tool reads that text (`StartReading`, `ReadBack`).
**`YamlText`** is a second, independent writer: how a tree is written in the flow
style and in the block style with sequences indented or not. It depends on no code
of libyaml, so that an error which writer and scanner share would be seen. The trees
both are compared by, and the properties that speak of them (`TextsLoad`,
`RegionsAsWritten`, `ProgramEnds`), are in `YamlRoundTrip`.

**`MC...`** -- the instances for TLC. **`MpuRegionTheorems`, `MpuCalculatorProofs`,
`MpuCalculatorCover`, `DisjointRangesProofs`, `MpuDisplayProofs`, `AtomicIntrinsicsProofs`, `ConfigureMpuProofs`,
`YamlProofs`** -- section 5.

### Notions used by the properties

*Well-posed* ranges (`WellPosed`) start on a granule and stay 4 granules (half of
the smallest region) clear of the top of the address space, or end at the last
address and start at least 4 granules below. Other ranges may be mapped too widely, see section 6.

*`CoverLimit`*: the computation of `last_subregion` accepts a subregion of which
only the last byte is missing. For a range that ends one byte before the end of
a granule, one byte after it is mapped. With ends of the form `size-1` it makes
no difference.

### What the yaml modules abstract

A lexeme has no characters: comments, tabs, escapes, encodings and the rules of
which character may start a plain scalar are left out, ":" is always followed by
a blank, a document indicator does not occur inside a quoted scalar. What remains
is position, because it decides everything: column against indentation, line and
distance for simple keys. A text is a sequence of atoms -- words with their
length, spaces, breaks -- with three marks that the emitter's analysis
computes from its characters; that is enough for every choice of style, for where
lines are folded and for what chomping keeps. Tags are represented by their
handle, "!!" standing for the default tag of a kind. Two states of the parser
that no transition enters are left out. Errors of the emitter for orders of events
the dumper does not issue, lack of memory, errors of output, and documents without
nodes are left out.

## 4. What is checked

| Run | Space | Requests | Properties |
|---|---|---|---|
| `calculator_all` | 128 addresses, granule 2 | all 16384, reversed ones too | `CoversOnlyRange`, `CoversWholeRange`, `EntriesDisjoint`, `LargestEntrySelected`, `EntryAsReckoned`, `EntriesBounded`, `Terminates` |
| `calculator_deep` | 2048 addresses, granule 4, tables of 4, 2 region numbers | well-posed, at the edges of regions of each size | `TypeOK`, `RegionsConsecutive`, `EntryProgrammable`, `FailsOnlyWhenFull`, `ImplementsCoverage` |
| `calculator_top` | 128 addresses, granule 2 | all | `FirstAndLastAddress` is violated |
| `calculator_unaligned` | 256 addresses, granule 4 | short, any alignment | `ArbitraryAlignment` is violated |
| `ranges_all` | 1..8 of 0..8 | all vectors of up to 3 ranges, all arguments of a search | `Partition`, `ListsExact`, `NoNeedlessCut`, `SearchBounded`, `NullOnlyOutside`, `SearchEnds` |
| `display_map` | 64 addresses, granule 2 | all tables of up to 2 entries, masks with up to 2 runs | `MapMatchesHardware`, `FirstAndLastMatchMap`, `RefinementShown` |
| `display_priority` | the same | the same, with all starts different | `HighestShown` is violated |
| `atomic_all` | 3 processes, words of 3 values | two compare-exchanges and a decrement, other writers, lost reservations | `TypeOK`, `ReservationFresh`, `ImplementsCell`, `LockFree` |
| `mpu_tasks` | 6 regions, table of 5 rows, 2 threads, 3 calls, 64 addresses | configure, clear, dump; switches between any two accesses | `TypeOK`, `TableKept`, `MaskingSuffices`, `MaskRestored`, `RowShown`, `LastRegionOwn`, `FitMapsRequest` |
| `mpu_interrupts` | the same, 2 calls | the same | `LastRegionWhole` is violated |
| `mpu_region_size` | the same, 2 calls | the same | `ConfiguredAsDocumented` is violated |
| `yaml_tool` | see below | dumped documents, laid out texts, free sequences of lexemes | `TypeOK`, `KeysAhead`, `StacksInStep`, `BlocksInStep`, `EventsWellFormed`, `TextsLoad`, `RegionsAsWritten`, `ProgramEnds` |

What they show: for every range, aligned or not, a call that
returns true has mapped every whole granule of the range, although the results
of the recursive calls are ignored (`CoversWholeRange`), and the recursion ends,
for reversed ranges too (`Terminates`). For well-posed ranges nothing else is mapped
(`CoversOnlyRange`), nothing twice (`EntriesDisjoint`), with at most two entries
for each factor of 8 less one (`EntriesBounded`). Away from the top no aligned
region the MPU could be given, of any size, covers more than the entry selected
(`LargestEntrySelected`): the comment on `build_best_mpu_entries` says so, and
the loop considers two starts for each size only. Every entry of every table, selected or
copied, is one the hardware accepts (`EntryProgrammable`; proved for any range), and the one a
calculator selects has the subregions it was chosen for, although sizes that wrap are
tried (`EntryAsReckoned`). At every depth and after any sequence of copies each entry
has the number after the one before it, counted modulo the number of regions as the
REGION field does (`RegionsConsecutive`); a table with more entries than regions, which 32
bits allow, comes round to the first number. And `false` is returned for nothing but a refused request or a
full table (`FailsOnlyWhenFull`).

The sweep partitions the scalars (`Partition`), lists at each interval exactly the
ranges that contain it (`ListsExact`), and cuts no more than needed
(`NoNeedlessCut`). There are at most `2n + 1` intervals (`IntervalsBounded`, proved only); each
step considers a range or pushes an interval, so this also bounds the sweep. The search stays within the vector, closes in
on the interval of its argument and ends. The map shows as unmapped exactly what
the hardware does not map, and otherwise an entry that maps the whole line
(`MapMatchesHardware`); its ends are those of `get_first_and_last_address`
(`FirstAndLastMatchMap`). Which of several overlapping entries it shows is right
where higher-numbered ones start later (`RefinementShown`); it is
not in general, see section 6.

Compare-exchange and decrement implement the atomic cell
(`ImplementsCell`), also when a value comes back that was there before; when
writers and lost reservations stop, some call returns (`LockFree`).

The MPU is never on with a part of its table, and no call changes a region of
the table afterwards (`TableKept`). This rests on the stack guard: a thread that is
suspended between selecting region 15 and clearing it finds 15 selected again,
because each switch writes the guard to it; without the guard
(`configUSE_MPU_THREAD_STACK_GUARD` 0) a dump in another thread would leave its own
region selected, and that one would be cleared. Region 15 itself can be torn (section 6); `MaskingSuffices`
says that masking interrupts is all that is missing. PRIMASK is given back to
each thread as it left it (`MaskRestored`). A dump shows pairs of registers that
belong together unless it was suspended within a row (`RowShown`, its part `RowWhole`). A row it was suspended in
shows one or both registers of region 15 under the row's number, which nothing in the code
prevents, but never another row of the table (its part `RowNeverAnother`): that takes the guard too, since another
thread's dump has selected rows meanwhile. Region 15 has two users: whatever calls are
suspended in, its guard or configuration is that of the running thread
(`LastRegionOwn`). That a call takes away the caller's own guard, and the next switch
the configuration, is how the region is shared.

What the emitter writes is read back as the nodes that were dumped, with shared
nodes shared again (`TextsLoad`): styles, folded lines, indentation hints, chomping, simple
and complex keys, empty nodes, anchors, tags, directives, several documents.
A token is handed to the parser only when no key can be inserted before it
any more (`KeysAhead`). Stacks are never popped when empty (`StacksInStep`) and each
block is ended once (`BlocksInStep`); the loader's assumptions on the order of events
hold for any order of lexemes (`EventsWellFormed`). When the documents are read without an
error and no region is nested in another, each region of the map has the
fields written in it and the defaults for the others, and is missing only if that its entries
could not all be built was printed (`RegionsAsWritten`). The program ends on every input but a document that
contains itself through an alias (`ProgramEnds`).

**Bounds.** Three ranges can start together, nest, overlap, touch and leave gaps, with one
ending at the largest scalar; a search over up to 7 intervals halves three
times. Two entries are the fewest that overlap, and their ranges reach the top, wrap, start
together and nest. The rest of this paragraph is about the calculator.
Behaviour depends on the word only through the number of levels, a
factor of 8 in size each, and on the position of a boundary relative to regions
of each size. 128/2 has two levels and every possible range; 2048/4 has three,
so that children have children on both sides. As in the code (2^32 and 32) the
two sizes are a power of 8 apart times the same remainder: `log2(WordSize/Granule)`
is a multiple of 3. With other distances the loop meets no size whose region
is exactly the address space, and a request near the top may recurse for ever
(for example a space of 8 with granules of 2); the code's constants do not have
such a distance. The table of 20 cannot be filled by well-posed
ranges (17 entries at 32 bits, one more than the MPU has regions, where the
comment at `mpu_calculator.cpp:411` reckons with 10), so the deep run has tables of 4, which overflow at
each depth, and 2 region numbers, which makes numbers exceed the REGION field and reach the
address bit above VALID. Only invariants of whole tables depend
on these; the proved ones hold for every value.

Three processes on a word allow one to read, a second to change the word and a third to
change it back; with 3 values the decrement wraps. In `mpu_tasks` the table is one row longer
than the 4 alias registers, so there is a full block and a rest; 3 calls let one
thread be suspended in a call while another ends one and begins the next. Call
sequences are longer in the theorems, which have no such bounds.

`yaml_tool` reads three sorts of input. (a) Texts that the dumper and the emitter
write: a scalar of every text of up to 3 atoms, and 8 longer ones that fold, in
each style, as root, key, value and item, in block and flow context, with a
width of 5 and an indentation of 2; collections in collections, shared and
cyclic nodes, tags of each kind on each kind of node with and without directives,
and documents with regions, for widths 9 and 80, indentations 2 and 4, canonical or not; and streams
of two documents, for what the first leaves to the second. (b) Documents with
regions laid out by `YamlText`. (c) Free sequences: every sequence of up to `Short` = 2 lexemes of
all kinds, and up to 5 of each of seven families (flow, block, both, aliases,
directives, long and multi-line keys), which is what reaches the error paths.
Three levels of nesting, one key per level and two columns are what the functions
compare at a time. `KeyLength` is 1024 as in the code, which one lexeme exceeds.
`TableSize` is the option of that name; `MaxNesting` = 8 is
deeper than any acyclic input and so bounds only the endless walk.

Each property has a variant of the code in `PROJECT.json` that violates it under
the same configuration.

**Fairness.** `WF_vars(Next)` in `MpuCalculator`: the code is one thread that
neither blocks nor waits. `IntervalSearch` has the same for the sweep and for a search once
called; whether one is called is left open. It is used by `SearchEnds`, `Terminates` and the liveness part of
`ImplementsCoverage`. `AtomicIntrinsics` has weak fairness of each process's own steps, since no thread is
suspended for ever; none of disturbances, and `LockFree` only speaks of executions in
which these come to an end. `YamlRoundTrip` is one thread again; its weak fairness is
written without ENABLED ("the program has ended infinitely often, or steps are taken
infinitely often while it runs"), which TLC evaluates faster, and checking for deadlock
shows that a step is possible until the program ends. `ConfigureMpu` needs none: its
properties are safety.

**Deadlock** checking is off for the calculator, the ranges, the search and the
display, because a call returns, which is the final state; that
a calculator or a search stops nowhere else is `Terminates` and `SearchEnds`. The other
runs check it.

## 5. What is proved

From the assumptions of the modules (`WordAssumption` and so on: sizes are powers of two, the
smallest region, 8 granules, fits into the space, tables have at least one entry and at
most twice as many as region numbers, requests are pairs of addresses), for
every value of the constants:

* `Types` -- `Spec => []TypeOK`: values stay in their types, no table is written
  past its end, callers wait inside one of the recursive calls.
* `TypeCorrect` -- the inductive invariant `TypeInv` behind it.
* `RangeCovered` -- `Spec => []CoversOnlyRange`: for a well-posed range no entry
  maps an address outside it.
* `RangesKept` -- the inductive invariant `RangeInv` behind it.
* `NumbersConsecutive` -- `Spec => []RegionsConsecutive`; `NoEntryReplaced` -- entries of a table
  that are fewer than `NumRegions` apart have different numbers; `FailsOnlyFull` --
  `Spec => []FailsOnlyWhenFull`.
* `NoneMappedTwice` -- `Spec => []EntriesDisjoint`; `PartsKept` is its invariant.
* `RangeWhollyCovered`, `SelectedAsReckoned` -- `[]CoversWholeRange` and `[]EntryAsReckoned`
  for words of at least 32 granules; `CoverKept` is their invariant.
* `EntriesProgrammable` -- `[]EntryProgrammable` for every word and granule.
* `SelectsLargest` -- `[]LargestEntrySelected` for the same words; `SizesSettled` is its invariant.
* `FewEntries` -- `[]EntriesBounded` for every word and granule; `RestNarrows` is its invariant.
* `CoverageSteps`, `CoverageImplemented` -- the refinement of `MpuCoverage`, for the same
  words and well-posed requests; the second takes `Terminates` as a hypothesis.

For the other modules, likewise from their assumptions only:

* `PartitionKept`, `ListsKept`, `SweepTypes` -- `[]Partition`, `[]ListsExact` and `[]TypeOK` for
  `DisjointRanges`, for every largest scalar above 0, every first and last one and every
  set of vectors of any length; `SweepCorrect` is the inductive invariant behind them.
  `TypeOK` and `IntervalsBounded` are in no run.
* `NeighboursDiffer`, `IntervalsWithinBound` -- `[]NoNeedlessCut` and `[]IntervalsBounded` for the
  same; `CutsKept` is the inductive invariant behind them.
* `MapRight`, `FirstAndLastRight`, `RefinementRight` -- the three invariants of `display_map`, for
  every table, word and granule; the first and the last for tables of entries
  that the hardware takes (`TablesAligned`). `DisplayKept` is the inductive invariant.
* `SearchStaysBounded`, `AnswersRight` -- `[]SearchBounded` and `[]NullOnlyOutside` for
  `IntervalSearch`; `SearchCorrect` is the inductive invariant.
* `Types`, `ReservationsFresh`, `CellImplemented` of `AtomicIntrinsicsProofs` -- `[]TypeOK`,
  `[]ReservationFresh`, and the refinement `Spec => Cell!Spec`, for any number of processes,
  any size of the word and any set of calls.
* All invariants of `mpu_tasks`, for any number of threads, regions, rows of the table, calls and
  any address space: `Types`, `MaskIsRestored`, `LastRegionSafe`, `FitIsSound`, and, from `StackGuard`,
  `TableStaysWhole`, `RowsAreShown` and `LastRegionIsOwn`. `RowsAreWhole`, `[]RowWhole`, needs no guard.
* `StacksKept`, `KeysKept`, `BlocksKept` -- `[]StacksInStep`, `[]KeysAhead` and `[]BlocksInStep` for
  `MpuCalcTool`, for texts of any length and depth, with any positions of lexemes that one
  can have after another (`SourcesAssumption`), and every `KeyLength` in `Nat`; `ReaderKept` is
  the inductive invariant. The run reads what the dumper wrote; the theorems speak of
  everything that may be read.
* `EventsKept`, `ToolTyped` -- `[]EventsWellFormed` and `[]TypeOK` for `MpuCalcTool`, of the same
  generality: no assertion of the loader fails and no node, key or kid is looked for where there
  is none. `SyncKept` and `WalkKept` are the inductive invariants.

**Types.** `TypeOK` is not inductive: `Build` appends without a check. `TypeInv`
adds, by program point, that up to `Build` there is room for one more entry; that
`sub` is a power of two not below the granule inside the loop; and that the best
candidate's subregion size is not 0 once the first start has been tried, so no
division by 0 happens in `TryAfter` or `Build`. `MpuRegionTheorems` has the facts on words:
what `Wrap`, the alignments and `CeilingPower` return.

**Ranges.** That nothing outside is mapped is true of an entry only because of the
whole search that chose it, so `RangeInv` describes the search. For a calculator
with a well-posed range:

1. Every entry, its own or copied from a child, maps only addresses `Inside`.
2. In the loop, the best candidate was `Tried` at one of the two starts. Where
   the wrapped arithmetic of `last_subregion` is sound this bounds it; where it is
   not -- regions as large as the address space, and at the top -- the
   invariant says more. Regions of the whole address space and above are tried at base 0 only, and
   halving the size never covers less there (`SmallerCoversMore`): the candidate
   with the wrapped size has been replaced before the loop ends.
3. When the smallest size has been tried something is covered; if the range ends
   at the top, at least 4 granules (`Enough`). So the best candidate is not the empty one,
   `left` and `right` are its bounds, and what is left on either side is again
   well-posed (`LeftPart`, `RightPart`); here the condition on the top is needed.
4. Each caller waits for a child with exactly that part (`Waits`). When the child
   returns, its entries are inside the caller's range. Renumbering may set the
   granule bit of the base, which the hardware ignores for a region of 8
   granules or more.

The middle of `MpuCalculatorProofs` ("Arithmetic of one try") has the arithmetic of points 2 and 3
without state: regions around an address, gaps to the top, comparison of two sizes. What
follows has the invariant and one step for each action.

**Nothing twice.** `EntriesDisjoint` needs more than `RangeInv`: when a child returns, its
entries must be apart from those its caller has already. `ApartInv` says by program
point what a frame's table keeps clear of (`RestApart`): the part left of the first entry until the
left child has been copied, and the part to the right of it until the right one
has. What a child maps is inside the part it was given, by `RangeInv`.

**Everything in the end.** `CoverInv` speaks of ranges of any alignment, as the code
accepts them: the whole granules of the range are among what is mapped and what
is left to the children (`CoverPoint`). The hard part is the selection once more, this time without
a well-posed range: near the top a candidate may reach too far, and of a range
without a whole granule an empty one is selected (section 6), but what a candidate is reckoned to cover
it does cover. From it follow
`RangeWhollyCovered` and `SelectedAsReckoned`. Both assume `Roomy`, `32 * Granule <= WordSize`.
It is needed: with 64 addresses, granules of 4 and the request 49..53 the first
subregion size tried is 2 granules, and `EntryAsReckoned` is false of the entry that is
selected. The code has 2^27 granules.

`EntriesProgrammable` needs no such room, and none of that search: any candidate is aligned to the
size it was tried with, so `AlignedInv` follows the best candidate through the loop, into the
table, and through the copies, where the number an entry gets comes from `RegionsConsecutive`.
A copy may set the granule bit of a base, once, because a copied entry is renumbered upwards
(`RenumberProgrammable`).

**The refinement.** `CoverageSteps` shows that each step of the calculator is one of
`MpuCoverage`: `Build` adds the piece the entry maps, which is new because of `ApartInv` and inside
the request because of `RangeInv`; a copy moves entries from one table to another, and the
union over all calculators stays; the last `Return` is `Finish` because of
`CoverInv`, or gives up because of `FailInv`. `NestInv` adds that children work inside the request. It
assumes `AllPosed`, that all requests are well-posed, as the run's are: `MpuCoverage` allows nothing outside the
request. `CoverageImplemented` adds the liveness of `MpuCoverage` from `Terminates`, which
is a hypothesis there and checked by TLC.

**The largest entry.** `LargestInv`: the sizes that the loop has left behind are settled, that is,
of each of them the best candidate covers no less than its two candidates, or no less than
any region of that size could (`Compared`). Two tries
settle a size (`TwoSuffice`): a region before the one with `start_addr` has nothing in the range, and one
behind the next has something only if that next one lies in the range as a whole. A try counts at
least what its region has in the range (`FittingCounted`), and away from the top nothing wraps
(`ClearRoom`, `ClearTrySize`); so no aligned region of a settled size has more of the range
(`ComparedBounds`). A region used as a whole ends the loop and settles the smaller
sizes, which have no more than 8 subregions either (`WholeSettles`). A size above the first one tried has a
subregion in the range only if that is the range, and then two of the first size cover it
(`OnlyTwice`, `HalvesFit`). `SelectsLargest` adds that the entry built maps
what the candidate reckoned with (`BestMapped`).

**The number of entries.** A *piece* is what one entry can map: subregions of one size next
to each other, within one region (`Piece`). It follows for any algorithm that picks a longest piece of
its range (`Picked`), and without any state, how fast the rest narrows; this
is the last part of `MpuRegionTheorems`:

1. If a range ends at a multiple of a power P and is shorter than P, the longest piece reaches
   the end, and what it leaves is shorter than P / 8 and ends at a multiple of that
   (`EndPicked`). The same holds with start and end exchanged (`StartPicked`, which
   is `EndPicked` seen from the top of the address space).
2. Of any range the longest piece leaves two such parts, with an eighth of the word for P
   (`BothPicked`). The case to argue about is a range across the middle of a region of which the
   longest piece lies on one side (`LeftHalfPicked`, `RightHalfPicked`).

So with `Level` for the number of factors of 8 between P and the granule, a part as in 1 (`EndsNarrow`,
`StartsNarrow`) needs an entry for each of its levels, and any range two for each
level below the word and one more (`PickedNarrow`). What remains is that the code picks a longest
piece. `LongestSelected` derives it from `LargestInv`, for ranges that end
at the last address too: the candidates that the loop compared are bounded by what `Compared` says, up to a
piece of a single subregion (`PieceBounded`), and such a piece is no longer than two halves of it, which are
a piece of the next smaller size (`HalvedPiece`); the smallest size needs no such step, because something is
covered, and `FirstSizeEnough` bounds sizes above the first one tried. A range counts up to its
`Limit`, the end of the last whole granule, as the code reckons a granule that misses its last byte whole.
`BuildPicked` says that `build_entry` and `get_next_addr` use just that piece.

`NarrowInv` ties this to the recursion: after `Build`, `left` and `right` leave parts as in
1 and 2 (`Splits`); a child has such a part of its caller's range (`ChildLimit`), so it comes
back with at most as many entries as the part has levels (`Within`); and a caller that has copied
both stays within its own number (`SplitWithin`). That the table is full or a child failed only makes
it less.

**The sweep.** Neither property is inductive: what is pushed depends on the active
interval. `ActiveInv` says that it follows the last interval pushed, that its
list is the set of considered ranges that reach it, and that ranges not yet considered do not
start before it (they are sorted). `Pushed` is the common step: an interval that
follows the others and separates the list from all other ranges keeps both
properties. `Cut` never wraps, since the next range starts later; `Drain` does when
a range ends at the largest scalar, and then nothing is left.

That no cut is needless is about neighbours: `ListFresh` says that the active list differs from
the last one pushed, unless the next range is about to join. `EndsAtBoundaries` and
`Increasing` give the bound on the number of intervals: their ends are different members of a set of
2 n + 1 scalars, so by the pigeonhole theorem there are no more of them.

**The display.** The sweep is used as it is: `MpuDisplayProofs` instantiates
`DisjointRangesProofs` for the ranges of the table's entries and shows that they are what its
constructor asks for (`SweepAssumed`). What is left is decoding: a run's range
is made of its subregions' addresses and no sum wraps (`RunRange`, also for SIZE = 31), an enabled
subregion is in a run (`RunAround`), so that the ranges of an entry are exactly what it maps
(`RangesSound`, `RangesComplete`). `SetToSeq` and the sort lose none of them (`VectorHolds`, `SortedHolds`).
A line's list then tells which entries map the line and which touch
it, and the entry shown is that of the list's last range. `TablesAligned` is
what the architecture demands of the entries; `EntriesProgrammable` is the same of the
calculator's, as long as no region number reaches the address bits.

**Numbers and failure.** `RegionsConsecutive` is inductive with the types: it says of each
calculator on the stack that its entries count up from the number it was given (0 for
a child) and that its own number is the next; copying a child renumbers from there. `NoEntryReplaced`
is what that means for the hardware. `FailInv` adds that a
calculator that has just been entered has an empty table.

**The search.** `BoundsInv` says that all intervals below `min` end before the argument and
all above `max` start after it. That the neighbours of the middle are on the
right sides needs the order of any two intervals (`IntervalsOrdered`), and that some interval contains
the argument needs that the partition has no gap (`IntervalOf`). Both are
inductions over the vector; they are proved from a least counterexample, which
`LeastNatural` supplies from the library's theorem on well-founded relations.

**Atomics.** `ReservationFresh` is inductive with `TypeOK`: whatever changes the word clears all
reservations but those just made. The refinement maps the program counter to the phase of a
call; `StoreSucceeds`, and a `Load` that gives up, are the instants at which calls take effect,
and a `StoreSucceeds` is one only because the reservation is fresh.

**The MPU.** `StartInv` follows `Configure_MPU`: which regions have been cleared, and which words have been
copied: `2 * table + word` of them, however the blocks are cut (`CopyInv`). `TableInv` then
says that the table stays and that a thread about to write RASR of the last
region has it selected. For a thread that is suspended there this is re-established by the guard, which is
why the theorem assumes it. `MaskInv` is about the suspended too: a thread with a guard object
has its own PRIMASK saved in it; any other suspended thread was switched away from with PRIMASK 0.
`LastInv` says what the last region holds at each place of a call that was never
cut, `RowInv` what a row of the dump has read. Where a row is interrupted, `ReadInv` has either the row
or the last region selected, and `PlacesInv` no row of the table outside its own region. `FitIsSound` is arithmetic: the entry's enabled subregions
are adjacent from the start of the region on, and the request ends in the first disabled one.

**The yaml reader.** `StacksInStep`, `KeysAhead` and `BlocksInStep` are about two machines with a queue between them,
each of which is only right because of the other. `Reader` joins four parts.

1. `InputShape`: the next lexeme comes after the mark, in the order of lines and
   indexes. That is what makes a key found `Stale` stay so.
2. `ScannerShape`: one simple key for each flow level and one for the block; the number of a possible key lies
   within the queue (`Within`), and a key that may still begin lies behind the head as
   soon as a token is available. `Inserted` therefore never reaches what the parser
   has taken.
3. `ParserShape` and `FirstShown`: which states may wait on the stack, and that a state which opens a
   collection still sees the token it was entered for.
4. `MarksCounted`, `BlocksCounted`: `OpenIn` counts the collections on the stack, with the
   current state weighed by how far its function has come (`Weight`).

A fetch keeps `Balance`, the number of levels less the starts in the queue plus
the ends: `Rolled` adds one of each, `Unrolled` takes away as many levels as it appends
ends, everything else appends tokens that are neither. A step of the parser is
`Steady`, `Opening` or `Closing`: it keeps the counts and takes no start or end, takes a start and
counts one more, or takes an end and counts one less. One lemma for each state function
shows which. The scanner's lemmas are about operators on the levels and the queue, which in
the code are one C function each.

**Parser and loader.** The loader has a stack of open collections of its own, and nothing but the
order of the events keeps it in step with the states of the parser. `RolesOf` reads
the loader's stack as what each collection waits for: an item, a key or a value.
`Matches` reads the parser's stack the same way: a state stands for `Width` collections -- a pair
in a flow sequence for two, an indentless sequence for one without a token -- and
waits for `Waits`. `Located` says that the two readings are equal, with the current
state counted by what has been returned: while a call runs (`Now`), after the start of a
collection that the loader has not opened yet, or after the end of one that it has not closed.
`InPhase` adds which state goes with what the loader expects. Every step of the parser is one of the
few `Moves` -- it stays, goes down to a node, or returns a node, a start or an end -- and
`MovesAgree` shows once for each that the readings stay equal; one lemma for each step of the
loader does the same from the other side. What `EventsWellFormed` asks follows from the last role.

**The walk.** `FrameFits`: a call is at a kid of a node or right behind the last one; and since
pairs are stored whole (`PairsEven`), a key that was walked through has a value to go on to. `nodes`
may only change while no call of the walk is active, which `Sync` provides.

**Only model-checked.** Of the invariants, `TextsLoad` and `RegionsAsWritten` of `yaml_tool`.
`Terminates`, `SearchEnds`, `LockFree`, `ProgramEnds` and a part of `ImplementsCoverage` are
liveness under fairness, which is outside the prover's reach; so are ENABLED
and what a recursive operator computes (that a text is read back as the tree it was written from is an
induction over trees). RECURSIVE operators occur only where the yaml run
needs trees: in `YamlDumper`, `YamlText` and `YamlRoundTrip`, about which nothing is
proved.

## 6. Where code and documentation disagree

* **Top of memory** (`calculator_top`). A range of whole cache lines that starts
  less than 128 bytes below the top, such as 0xffffffe0..0xffffffff, is covered by 9 entries that
  map the whole address space. `end_addr + 1` wraps to 0, the difference wraps to a large number,
  `last_subregion` is clamped to 7, and a region at base 0 looks best. The test
  at `unit_test/mpu_calculator_test.cpp:528-529` expects first and last
  mapped address to be those of the range; its random ranges do not end at the top.
* **Alignment** (`calculator_unaligned`). Of a short range with an unaligned start that holds no whole
  granule, all candidates are empty (line 232 of `mpu_calculator.cpp`). The comparison by `>=`
  (line 331) keeps the last of them, the region that starts behind the range, and
  its start becomes `left_addr`: lines 437-443 then ask the left child for
  everything up to it. With 256 addresses and granules of 4, for 65..68 that is 65..95, which
  the child covers by an entry for 68..95. Lines 34-35 say that
  `build_best_mpu_entries()` works with arbitrary alignment, line 168 that one
  has to be careful not to go past the last address.
* **Priority** (`display_priority`). `display_interval` means to show the entry of the
  highest number (`max_region`, `max_entry`; the map in `README.md:52` of the repository shows
  entry 5 over entry 2), which the MPU uses. `max_region` stays 0, so the entry
  whose range starts last is shown. Where ranges start at the same address it is up to
  `std::sort` which one that is.

* **Interrupts** (`mpu_interrupts`). `arm_cpu_intr_disable` (`cmsis/cpu_m7.h:58`) writes 0 to
  PRIMASK, which enables interrupts. The guard object of `mpu_configure_region` therefore
  holds nothing off, although `configure_mpu.cpp:208-209` says "so we disable interrupts": a
  context switch between its writes of RBAR and RASR leaves region 15 with
  the base of one owner and the size of another.
* **Size of a configured region** (`mpu_region_size`). `mpu_configure_region` "programs mpu entry 15 to
  be cached for addresses in [base_address,base_address+size)" (`configure_mpu.cpp:180`). The SIZE it
  programs comes from `region_size`, which neither the constructor of the calculator nor
  `find_size_and_subregions` sets, so it is what the stack held. The run asks for naturally aligned
  ranges of whole subregions, which an entry can map exactly. For other
  requests an end shorter than a subregion is left out even when the size is right;
  `FitMapsRequest` states what remains true then.

Met while modelling, and not shown by a run of their own:

* `mpu_table.h:5` and `mpu_table.cpp:19` speak of "exactly 16 entries so that an overflow becomes a compiler
  error"; the array has `MPU_TABLE_SIZE` 15.
* The emitter's folded style changes a text with a line that starts with a space and is
  folded at a later one: the break written in `libyaml_emitter.c:2308-2313` is kept by
  `libyaml_scanner.c:2868`, because the line starts with a blank. " w w" with
  a width of 5 is the shortest example; such texts are not among the documents of
  `yaml_tool` in this style.
* `yaml_emitter_check_empty_document` always returns 0, so an empty plain root of a
  first implicit document leaves no text at all and is read back as no document. Not among
  the documents either.
* `yaml_parser_parse_flow_sequence_entry_mapping_key` skips the token that shows it
  that a key is empty (`libyaml_parser.c:1020`), so `[? : x]` is refused, though the grammar in
  `libyaml_parser.c:34` allows it.
* `token_matches` asserts that a key is a scalar before the code asks for the key's type
  (`mpu_calc.cpp:294` and `316`), so that a document with another key aborts the tool. A comment whose
  value is not a scalar is read from the wrong member of a union ("garbage" in the model).
* An error of the yaml parser is printed, then the map of the regions before it is
  written and the exit code is 0.
* A document that contains itself makes `traverse_yaml_node` recurse without end.

## 7. What is not modelled

* The two-pass link: a script that runs compiler, linker and tool twice. What could be
  stated is that the second link leaves the symbols where the first one had put
  them, which is a fact about the linker script and the linker, not about code here.
* `MPUThreadGuard_calculate`, beyond the fact that each thread has an entry for
  region 15 of its own, which `Switch` writes; it makes that entry with the
  calculator. Barriers (`DSB`, `ISB`, `DMB`): the model's registers take effect in order.
* `display_entries`, formatting of sizes and attribute names, logging, file names,
  options, failures to open files.
* The array of 20 entries behind the tool's region number (`mpu_calc.cpp:54`): the model's table has no end.
  That `start_addr+size` wraps (line 45) is left to the calculator's runs, which take reversed ranges.
* A region nested in the value of another, which resets the outer one's fields: not
  among the inputs whose regions are compared (free sequences of lexemes are not).
* libyaml's reader and writer (encodings, buffers), its functions for building
  documents by hand, memory errors. Core headers of ARM: register layouts and
  intrinsics. Tests: read for what they expect.
