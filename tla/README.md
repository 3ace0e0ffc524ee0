# A verification development of cryptochan

TLA+ modules, TLC configurations and TLAPS proofs for cryptochan, a C program
that is to become an encrypted channel between a client and a server. At this
commit its finished parts are three data structures that threads share or are
meant to share (a lock-free cyclic buffer, a queue with spin locks, a word-wise
XOR of memory regions), a key generator, and a start-up path that reads the
command line and a configuration, opens a listening socket and stops. Paths below are relative to `src/src/`.

## 1. Inventory

| Part | State | Operations | What is hard | What makes it correct |
|---|---|---|---|---|
| Cyclic buffer, `cyclic_buffer.c` | a region, three indexes each owned by one role, three atomic counters | `init`, `write`, `recode_xor`, `recode_none`, `read`, `destroy` | no lock: a role adds to its neighbour's counter before it subtracts from its own; explicit memory orders | roles never touch the same byte; bytes come out in order, recoded exactly once; counters neither wrap nor lose room; the reader gets everything |
| Two buffers in step, `cyclic_buffer_recode_xor_buf` | a data buffer and a mask buffer | one function that calls `recode_xor` once or twice | nested results are ignored; counters move between the calls | byte *k* of the data meets byte *k* of the mask |
| Buffer test, `test_cyclic_buffer.c` | `stage`, three threads, a private mask buffer | `run_writer`, `run_recoder`, `run_reader` | three threads at arbitrary speeds | all threads join, the comparison succeeds |
| Cyclic queue, `cyclic_queue.c` | a region, `capacity`, `size`, two indexes that are locks too | `init`, `push` (grows), `take`, `destroy` | many producers and consumers; growth takes the second lock and frees the region; `size` is read without a lock | a FIFO queue of limited capacity; no copy into a freed region; locks are given back on every path |
| Queue test, `test_cyclic_queue.c` | next value to push, number of values taken | `run_producer`, `run_consumer` | refused pushes are retried | every value is taken exactly once, all threads return |
| XOR, `common.c`, `max_scalar.h` | none | `xor_memory_region` and three loops | head, unrolled body and tail for every pair of alignments | each byte once, with its partner, by aligned accesses |
| Start-up, `cryptochan.c`, `cryptochan_config.c`, `dispatcher.c`, `server.c`, `client.c` | `cryptochan_arguments_t`, `cryptochan_config_t`, two error messages, the dispatcher's context | `parse_opt`, `main`, `cryptochan_config_load`, `dispatcher_init`, `run_server` | nearly every call may fail; `parse_opt` falls through; messages are passed up by hand | what runs is what the command line asks for, with a complete configuration; a failure is explained; nothing is left open |
| Keys, `ec_helper.c`, `keygen_display` of `cryptochan.c` | a key pair and its two texts | encode, decode, derive and compare keys; generate and print a pair | a random key may exceed the order of the curve; leading zeros change the length of a text; buffers and limits of 44 and 46 digits | what is printed is accepted again, a miscopied text is not |
| Random data, `random.c` | `do_use_prng`, the state of xoshiro128+ | `fill_random`, `fill_prng_random` | short and interrupted reads; whole words, then odd bytes; a generator that may be seeded with zero | every byte asked for is drawn, once, and none past the end; the generator does not stick |
| Session, `session.h` | a structure nobody uses yet | none | - | nothing to model |

How they interact: writer, recoder and reader only share the buffer and its
counters; `recode_xor_buf` is the reader of the mask buffer and the recoder of
the data buffer at once; `recode_xor` calls `xor_memory_region`; producers and
consumers share the queue and two counters of the test; `main` passes the
configuration to `run_server`, which passes a part of it to the dispatcher, or
calls `keygen_display`, whose output is what the user puts into the configuration that a
later run reads.
Buffer, queue and start-up are not connected to each other yet in the code.

`PROJECT.json` lists the hazards of the code, each at its line.

## 2. Modules

| Module | Models | Rests on |
|---|---|---|
| `RecodeStream` | abstract: bytes are written, recoded and read in order, at most `Capacity` of them under way | |
| `CyclicBuffer` | the buffer, one step per shared access | refines `RecodeStream` |
| `CyclicBufferOrder` | which copying happens before which, by the `memory_order` arguments | extends `CyclicBuffer` |
| `BufferLifecycle` | `cyclic_buffer_init`, `cyclic_buffer_destroy` and what is in between | extends `CyclicBuffer` |
| `CyclicBufferProofs` | TLAPS proofs about the counters, the bytes and the refinement of `RecodeStream` | extends `CyclicBuffer` |
| `CyclicBufferUseProofs` | TLAPS proofs about the memory orders and the life of a buffer | extends `CyclicBufferOrder`, `BufferLifecycle`, `CyclicBufferProofs` |
| `MaskedChannel` | `recode_xor_buf`, with data and mask in two buffers and the threads of the test | two instances of `CyclicBuffer`; refines its recoder |
| `MaskedChannelProofs` | TLAPS proofs about mask and channel together, and of the refinement of the recoder | extends `MaskedChannel`; two instances of `CyclicBufferProofs` |
| `FifoQueue` | abstract: calls and returns of a FIFO queue that may refuse | |
| `CyclicQueue` | the queue, its locks, its growth | refines `FifoQueue` |
| `CyclicQueueOrder` | happens-before of the queue | extends `CyclicQueue` |
| `QueueLifecycle` | `cyclic_queue_init`, `cyclic_queue_destroy`, the regions that `malloc` and `free` see | extends `CyclicQueue` |
| `CyclicQueueProofs` | TLAPS proofs about the locks and the copies, and of the refinement of `FifoQueue` | extends `CyclicQueue` |
| `QueueWorkload` | producers and consumers of the test | extends `CyclicQueue` |
| `CyclicQueueUseProofs` | TLAPS proofs about the memory orders, the life of a queue and the workload | extends `CyclicQueueOrder`, `QueueLifecycle`, `QueueWorkload`, `CyclicQueueProofs` |
| `XorRegion` | `xor_memory_region` | |
| `XorRegionProofs` | TLAPS proofs about it | extends `XorRegion` |
| `RandomFill` | `fill_random` and the generator | |
| `Keys` | the conversions of `ec_helper.c`, as operators | |
| `Keygen` | `keygen_display`, and the loading of its output | extends `RandomFill`, `Keys` |
| `KeygenProofs` | TLAPS proofs about filling, the generator, base58, and the keys that are printed and read back | extends `Keygen` |
| `Startup` | one run of the program | |
| `StartupProofs` | TLAPS proofs about all its invariants | extends `Startup` |
| `MC...` | values of constants for TLC, symmetry | the module of that name |

### CyclicBuffer

`idx[r]` and `available[r]` stand for the three indexes and counters of
`cyclic_buffer_t`, with `r` one of `"writer"`, `"recoder"`, `"reader"`. A call is
four steps, named by `pc[r]`: `Load` (the atomic load, the early return on zero,
the `MIN`), `WriteCopy`/`XorCopy`/`ReadCopy` (the bytes and the index),
`Publish` (the `fetch_add` on the counter downstream) and `Consume` (the
`fetch_sub` on the own counter; `recode_none` stores 0 there instead). Counters are
`uint32_t`: they are reduced modulo the constant `Word`. `ThreadOf` says
which thread plays which role, because the mask buffer of the test is used by one
thread in all three roles, and `recode_none` is only right that way.

A byte is the number of its position together with the set of mask bytes it has
been XORed with; XOR with a mask byte toggles membership, so that recoding twice
or with the wrong mask byte is visible. The memory of the region starts with
`NoByte`, as `malloc` leaves it undefined.

A whole `memcpy` is one step. This loses nothing as long as no two roles copy
within the same slots at the same time, which is the invariant
`DisjointCopies`. The load of a role's counter sees the latest value. An older
one would be smaller (only the owner subtracts), which is the same as an earlier load.
A load that finds zero returns 0 and changes nothing: it is no step.
The functions also take a null pointer for the caller's bytes, and then move index and counters without
copying; no caller in the repository passes one, and the models leave these branches out.

### CyclicBufferOrder and CyclicQueueOrder

`CyclicBuffer` and `CyclicQueue` interleave steps one after the other. What the
C11 memory model promises beyond the single atomic variable is added by
ghost variables: `seen[t][s]` is the number of bytes of role `s` whose copying happens before
thread `t`'s next step, `released[r]` what an acquire load of counter `r` would learn;
`behind[x]` is, for the queue, the set of slots whose latest copying is *not*
ordered before thread or atomic variable `x`. Read-modify-writes continue a release sequence,
stores start a new one (the unlock of the queue) or break it (the 0 that `recode_none` stores, relaxed).
`LoadOrder` and `AddOrder` are the orders of the recode function in use: acquire and release for
`recode_xor`, relaxed throughout for `recode_none`, which therefore hands nothing on to
other threads; roles that one thread plays are ordered by that thread, with no help from the counters. These modules answer whether the
accesses of two threads to the same bytes are ordered. They do not simulate the weak
executions themselves.

### MaskedChannel

The recoder of the test fills a private mask buffer (`MaskWrite`, `MaskNone`)
and calls `cyclic_buffer_recode_xor_buf`, whose two loads are `XorBufLoad` and
whose nested calls of `recode_xor` are `XorFirst` and `XorSecond`, each with its
load, XOR, add and subtract against a writer and a reader that keep running;
`MaskAdvance` then consumes the mask. The nested calls are the actions of
`CyclicBuffer` itself, instantiated as `Chan`.

### CyclicQueue and QueueWorkload

`Locked` is `UINT32_MAX` in an index. A push goes through `PushLock`,
`PushCheck`, if the queue is full `PushLockTake` and a recheck
(`PushRecheckRoom`, `PushRefuse`, `PushGrow`), then `PushCopy`, `PushSize`,
`PushUnlockTake`, `PushUnlock`; a take through `TakeCheck`, `TakeLock`,
`TakeRecheck`, `TakeCopy`, `TakeSize`, `TakeUnlock`. Load and CAS of
`__LOCK_IDX` are one step because the CAS only succeeds on the value loaded;
a round that fails changes nothing. Growth is one step: it happens with both
locks held, and `CopiesDisjoint` says nobody else is in a copy then. `malloc` may
return NULL when `AllocMayFail`.
`CapacityAssumption` (`InitialCapacity <= MaxCapacity`) is what the test and `init` keep.

`QueueWorkload` adds the loops of the test: producers claim the next value
under a counter and retry a refused push; consumers leave when all values are accounted for.

### BufferLifecycle and QueueLifecycle

Both add `init` and `destroy` around the operations. The callers in the tests do not look at
what `init` returns, so that a struct without memory is used like any other: the
models let them, and ask that this touches no memory (`NullIsLeftAlone`,
`UnusableQueueIsLeftAlone`). The modulus of `recode_none` is `total_size`, which it does not test. It is
set before `malloc` is known to have failed, but not by an `init` for no chunk (lines 8-11): whoever ignores that failure and
calls `recode_none` divides by zero (`DividesByZero`, after which the program is `Stopped`).
`OnlyNoChunksDivideByZero` says that no other `init` leads there; `chunks` is what the last one was asked for.
Nobody uses a struct before `init` or after `destroy`; no caller does. After
`destroy` the same struct may be initialised anew; the stream then starts over.

`QueueLifecycle` follows the regions: `data_ptr` and the number of elements for which each
region is allocated. A growth is one step with respect to other threads (both
locks are held), but allocates, moves and frees. `OneRegion` says that exactly
the region in use is allocated, with room for `capacity` elements.

### XorRegion

Addresses are numbers. A target is the set of macros the compiler defines
(`__AVX2__`, `__SSE2__`, 64 bit words), from which `MAX_SCALAR_BYTES` follows as in `max_scalar.h`.
Each loop is an action that does one iteration or one block; `Return` is the end of the last
loop, by its own condition. A byte is the set of mask addresses it has been XORed with.

### RandomFill, Keys and Keygen

A word is the set of the positions of its 1 bits, and a byte too, so that XOR is a symmetric
difference and shifts and rotations move positions; addition propagates its carry.
The generator is therefore the one of the code, with its widths as
constants: `Shift` and `Rot` are 9 and 11, `Multiplier` is `0x1b1`,
`GeneratorAssumption` states what is needed of them. The seed (time plus process id) may be
any word. `from` and `draws` are ghost variables: from which draw, and from which place in it,
a byte of the buffer comes. The buffer of the model goes on for one word beyond the caller's, to
make a write past the end visible.

Of libbase58 the model keeps that leading zero bytes become leading zero digits and the rest is
converted as a number; of libsecp256k1 that a private key is a number
below the order of the curve and that *k* and *Order - k* share a point's *x*. These
are external. Text is a sequence of digits, `DigitBase` a character that is none.
`Number` and `Shortest`, from digits to a number and back, are recursive functions local to an operator.
`Keygen` runs `fill_random`, derives the public key, halves the private key once
if there is none (`ShiftAndRepeat`), and prints both texts; `LoadKeys` is
`cryptochan_config_load` reading them back, with at most one
character wrong, missing or too much. `GivesUpOnlyOnZero` is about the step that gives up: the bytes meant are those drawn, before the shift.

### Startup

argp hands the options to `parse_opt` first and then the words, which `StartupAssumption` states; the fall
through from `ARGP_KEY_ARG` to `ARGP_KEY_END` is the shared `DefaultConfig`.
A configuration file is a record of what its settings are like (`"missing"`,
`"bad"`, `"good"` ...), read at `ReadFile`; strings in memory are Booleans (set or not).
`error_desc` and `nest_error_desc` say whether the two message pointers are non-NULL.
Every `strdup`, `asprintf`, `malloc`, `socket`, `fcntl`, `setsockopt`, `bind`, `getaddrinfo`
may fail. The code ignores the result of `asprintf`; the pointer is then null (as it was, or as glibc makes it), so
that what comes of it is a failure without a message. `out_of_memory` is a history variable: a `strdup` or an
`asprintf` of the loading has failed. `FailureExplained` exempts those failures; in them `config_load`
prints a null pointer. `sockaddr` is the allocation of the dispatcher, apart from the pointer
to it in the context, through which alone it is freed. `keygen_display` is one step here and module `Keygen` there.

## 3. Runs

| Run | Shows | Bounds and why they are enough |
|---|---|---|
| `buffer_threads` | types, disjoint copies, delivery, no wrap, conservation, refinement of `RecodeStream`, termination | a region of 4, requests of 1, 3 and 5 (more than the region), 11 bytes: the indexes go round almost three times at every offset; `Word` = 32 is larger than any counter reaches, so a lost subtraction shows as a wrong bound instead of an accidental wrap |
| `buffer_lifecycle` | one thread with `recode_none`, over `init` (with too few or too many chunks, or no memory), use and `destroy`, again and again; `recode_none` divides by zero only after an `init` for no chunk | chunks of 2, -1 to 3 of them, so one admissible number; requests of 0, 1, 3 and 5; `Word` = 16 |
| `buffer_order_reuse` | *violated*: room given back is not synchronised | a region of 3, 7 bytes |
| `queue_grow` | FIFO refinement, locks, copies; the old region is freed after all copies | 3 threads, 2 values, capacities 1, 2, 3: a doubling and one cut off by the maximum; regions that wrap when they are moved |
| `queue_lifecycle` | regions of memory over `init`, growth with failing `malloc`, `destroy` | 3 threads, capacities asked for below, between and above the limits; 2 regions, as many as a growth needs at a time |
| `queue_workload` | every value once, all threads return | 2 producers, 2 consumers, 3 values, capacities 1 and 2: refusals at the maximum and by `malloc` |
| `queue_order_take` | *violated*: a take is not ordered after the push of its element | 3 threads |
| `masked_channel` | data and mask in step, refinement of `recode_xor`, all join | data 3, mask 2: the mask wraps inside a call at different places from the data; `MaskTotal` bounds the mask bytes produced, two more than the data |
| `xor_region` | every byte once, aligned accesses, the call returns | all targets; regions aligned to each width or just off it, the mask aligned alike or not; sizes 0 to 44 and 124 to 164, so past one round of the widest unrolled loop |
| `keygen` | every byte drawn once, the generator alive, a pair or all zeros, printed keys are accepted, a slip is caught, keygen ends | bytes of 2 bits, words of 3 bytes, keys of 5, so that a word and two odd bytes fill a key; all 1024 keys; an order just below the top, so that some keys need the shift; texts in base 3 of up to 7 and 8 digits; every seed |
| `startup` | arguments obeyed, no assertion fires, complete client, failures explained unless memory is lacking, nothing left allocated or open | command lines of up to three arguments; all pairs of section contents, all pairs of keys, descriptors 0 and 3 |
| `startup_server` | *violated*: an incomplete server section is used | same files |

`buffer_threads` checks the memory orders downstream (`HandOverSynchronized`) in the same run.
Symmetry of threads, elements and regions is declared only in runs without liveness. Terminal states have a stuttering action (`Finished`,
`AllDone`, `Joined`, `Done`, the exit of `Startup`), so that deadlock is checked
everywhere. Each property has a fault in `PROJECT.json` (the operators marked *Fault:* in
the modules) that breaks it.

### Fairness

`xor_region` and `keygen` are one thread that runs on; `keygen` ends because `getrandom`
returns at least one byte or fails (`fill_random` treats 0, which it does not return for such requests, like any number).
`buffer_threads` and `masked_channel` assume weak fairness of each thread: the loops of the test
call again after a zero result, and the operating system schedules every thread.
`queue_workload` needs strong fairness of each thread's attempt to get a lock: with
weak fairness alone a producer that is refused again and again could hold the
lock whenever the consumer looks. The test pauses in `nanosleep` after
a refused push (lines 161-165), and `__LOCK_IDX` yields while it waits, which is
what the assumption stands for; the spin locks themselves promise no such thing.

## 4. What disagrees with the code's own words

- `cyclic_buffer.c:77` calls the load of `available_to_write` synchronised; it is
  relaxed, and so is the addition it pairs with (line 68). Run `buffer_order_reuse`. On x86 the
  instructions are ordered anyway; the compiler and other machines promise nothing.
- `cyclic_queue.c:162` reads `size` relaxed. The release of line 131 then pairs with
  nothing in `take`. Run `queue_order_take`. The sums the test compares
  (`test_cyclic_queue.c:111`) may differ on a weakly ordered machine.
- `cryptochan_config.c:101` lacks the `return false` of its twin at line 73. Run
  `startup_server`.

Smaller ones are among the hazards: descriptor 0 is never closed, the list of
`getaddrinfo` is never freed, `keygen` reports a failed encoding as success, `recode_none` divides by zero in a buffer
initialised with no chunk, a failing `asprintf` or `strdup` makes `config_load` print a null pointer for the message. And
`cryptochan_config.c:41` reports a missing port as a missing `host`, which no property is about: wording is not modelled.

## 5. Proofs

Every safety property that a passing run checks is also a theorem, for all values of the constants; so are the three refinements.

| Theorem | Statement | Module |
|---|---|---|
| `TypeCorrect` | `Spec => []TypeOK` | `CyclicBufferProofs` |
| `CountersCorrect` | `Spec => []CounterInv` | |
| `NoCounterWraps` | `Spec => []CountersDoNotWrap` | |
| `RoomIsConserved` | `Spec => []RoomConserved` | |
| `ContentCorrect` | `Spec => []ContentInv` | |
| `DeliveredCorrectly` | `Spec => []Delivered` | |
| `CopiesDisjoint` | `Spec => []DisjointCopies` | |
| `BufferIsStream` | `Spec => ImplementsStream` | |
| `HandOverIsSynchronized` | `OSpec => []HandOverSynchronized`, with `recode_xor`, or with reader and recoder in one thread | `CyclicBufferUseProofs` |
| `RoomIsTheMemory` | `LSpec => []RoomIsMemory` | |
| `NullBufferIsLeftAlone` | `LSpec => []NullIsLeftAlone` | |
| `OnlyNoChunksDivide` | `LSpec => []OnlyNoChunksDivideByZero` | |
| `DeliveredSinceInit` | `LSpec => []Delivered` | |
| `MaskKeepsInStep` | `Spec => []MaskInStep` | `MaskedChannelProofs` |
| `ChannelIsRecodeXor` | `Spec => ImplementsRecodeXor` | |
| `ChannelDelivers` | `Spec => []Recoder!Delivered` | |
| `QueueTypeCorrect` | `Spec => []TypeOK` | `CyclicQueueProofs` |
| `LocksAreExclusive` | `Spec => []LocksExclusive` | |
| `QueueCopiesDisjoint` | `Spec => []CopiesDisjoint` | |
| `QueueIsFifo` | `Spec => ImplementsFifo` | |
| `GrowIsSynchronized` | `OSpec => []GrowSynchronized` | `CyclicQueueUseProofs` |
| `QueueOwnsOneRegion` | `LSpec => []OneRegion` | |
| `UnusableQueueTurnsAway` | `LSpec => []UnusableQueueIsLeftAlone` | |
| `ValuesAccountedFor` | `WSpec => []EachValueInOnePlace` | |
| `XoredOnce` | `Spec => []EachByteOnce` | `XorRegionProofs` |
| `ScalarsAreAligned` | `Spec => []AlignedScalars` | |
| `GeneratorAlive` | `Spec => []PrngAlive` | `KeygenProofs` |
| `EachByteDrawnOnce` | `Spec => []DrawnOnce` | |
| `KeygenPrintsAPair` | `Spec => []PairPrinted` | |
| `ZeroAloneHasNoPair` | `Spec => GivesUpOnlyOnZero` | |
| `KeysAreReadBack` | `Spec => []OwnKeysAccepted` | |
| `SlipsAreRefused` | `Spec => []MistakeCaught` | |
| `TextsHaveRoom` | `b58enc_data` has room for the text of every key | |
| `MainHasItsArguments` | `Spec => []ArgumentsObeyed` | `StartupProofs` |
| `NeverPanics` | `Spec => []NoPanic` | |
| `ClientIsComplete` | `Spec => []ClientComplete` | |
| `FailureIsExplained` | `Spec => []FailureExplained` | |
| `NothingIsLeft` | `Spec => []NothingLeft` | |

The constants are: for the buffer every size, amount of data, set of requests and
assignment of threads that `SizesAssumption` and `RolesAssumption` admit; for the queue any
threads and elements, and the capacities of `CapacityAssumption`, with or without failing
`malloc`; for the XOR regions at any addresses and of any size; for the generator bytes, words
and buffers of any width; for start-up command lines of any length, any files and descriptors.

### The counters of the buffer

`CountersDoNotWrap` is not inductive: in the middle of the operations the
counters add up to more than the region. What is inductive is `IInv`: the types,
together with `CounterInv`. `Balance` says each counter equals what the role
upstream has published less what its owner has returned from; `Covered` that a
running operation takes no more than the counter still shows; `OneAtATime` and
`NothingNew` that, when one thread both writes and recodes, the store of 0 in
`recode_none` is a subtraction. From `Positions` (the balances as equations between stream
positions) follow the chain *read <= recoded <= written <= read + TotalSize*
and the bound on each counter (`CounterBounds`), so that the addition of `Publish`
does not wrap (`PublishFits`) and `Add32`, `Sub32` are plain arithmetic. Each action
has a lemma `...KeepsIInv`.

### The bytes of the buffer

`Delivered` only speaks of bytes that have left. The invariant needed for it is
`FInv`, which adds `ContentInv` to `IInv`: the three indexes are as far apart in
the region as the roles are in the stream, and from the reader's index on
the region holds recoded bytes up to the recoder's position and raw ones up to the
writer's. A copy reaches slots that lie between its role's index and the
next role's (`StreamOrder`, `RegionFrom`), so that it leaves the others' bytes
alone; this also is why `DisjointCopies` holds.

### The refinement of the stream

With `FInv` at hand, `OutIsRead` says that the abstract output is what
the reader has handed on. A `Publish` of a role is then that role's step of
`RecodeStream` (`PublishStep`), and any other step changes nothing the
mapping sees (`OtherStep`).

### The life of a buffer

`BufferLifeInv`: a buffer that has memory satisfies `FInv`, with the `total_size` that the model of the
operations has; one without is `Empty`: all counters are 0, and since nobody else passes the test for zero only
`recode_none` ever gets anywhere. `total_size` is not 0 while a buffer is used for which chunks were asked, after a
failed `init` too, because it is set before the checks; that is what `OnlyNoChunksDivideByZero` turns on.

### Mask and channel

`MaskInStep` alone is not inductive: it says nothing of what goes on inside `recode_xor_buf`.
`ChannelInv` is `FInv` of each of the two buffers together with `PhaseInv`, three statements about the phase the
recoder is in. `OneCallAtATime`: each function has returned before the next begins. `SizeHolds`:
the size decided on is within the mask bytes at hand, what is left of it is within the channel's counter,
which only grows under the recoder's hands (`OthersLeaveTheRecoder`), and a call that runs has the size
it was asked for. `InStep`: how far the channel is ahead of the mask. So a nested call never
returns early or with less, which is why its result may be ignored (`CallEffect`);
the bytes it XORs with are, by `RegionHolds` of the mask buffer, those of the stream
(`MaskBytes`, `CallXorsWithTheStream`), before and after the mask wraps around; it is therefore a call of
`cyclic_buffer_recode_xor` on a single buffer (`CallIsRecoderStep`). The lemmas about
`CyclicBuffer` are used for both buffers by instantiation. The mask buffer has no `read`: what
`MaskAdvance` takes out is followed by the state function `ReadOut`, and
`ReadAtOnce` of `CyclicBufferProofs` says that taking bytes out in one step keeps `FInv`.

### The queue

Neither `LocksExclusive` nor `CopiesDisjoint` is inductive. `QInv` adds four parts to the types.
`Locals`: a thread has an index in a local variable exactly while it is
between lock and unlock. `Holders`: an index is in one place, the shared
variable or one thread's local. `Room`: what a thread has found out about `size` under
its own lock (not full, not empty) stays true, although the other end
goes on changing `size`. `Apart`: wherever the two indexes are, they
are `size` slots apart. Growth keeps `Apart` because it moves both
indexes, to 0 and to `size`.

`QueueIsFifo` needs the elements as well. `FifoInv` adds to `QInv` that from its copying to its change of `size` a call
and the slot it has locked agree on the element, and that a call
without an outcome has none (`Carries`). The change of `size` is the step of `FifoQueue`: it appends what is
in the slot behind the last element, or removes what the take has copied from the
first; `Apart` says which slots these are. A growth leaves the sequence of elements as it is, slot by slot.

`LifeInv`: a queue with a region satisfies `QInv`, and that region, of the size of `capacity`, is all that is allocated; one
without has capacity 0, is full and empty at once, and its threads only get to the places
in `TurnedAway`.

`WInv` adds to `FifoInv` where each value is: `Accounted` says that a value that was claimed is in exactly one
of a producer's hands, the queue, a consumer's hands, or the consumed ones, and one that was not is
nowhere. `Driven` ties the loops of the test to the calls they are in.
Only four steps move a value: claiming it, the two changes of `size`, and consuming it.

### The memory orders

In the buffer a role has *claimed* the bytes up to its position plus the size of the operation it
runs. `HInv` says what is passed on at each place: a thread has seen the copying of its own roles (`OwnSeen`); with `recode_xor`, what is released on a
counter covers all that has been published to it, *with the copying of the roles further
upstream* (`ReleasedUpstream`), and a role has seen the copying of all that it has claimed (`ClaimedSeen`). The second part
makes the reader ordered after the writer, with whom it shares no counter.
A load claims no more than the counter shows, which by `Positions` is no more than has
been published. It needs `IInv` and nothing of the bytes.
With `recode_none` nothing is released by the recoder, and `OwnSeen` alone gives the result, for a buffer whose roles are all in one thread:
`RolesAssumption` puts the writer where the recoder is, the theorem's hypothesis the reader.

In the queue the argument is about places. An index is in one place: shared, or the local
variable of a thread (`Holders` of `QInv`). `ViewsApart` says that no slot
is behind both the place of the push index and that of the take index: whoever
copied a slot held one of them. A push about to grow holds both, so nothing is behind it. The
relaxed operations on `size` play no part in this.

### XOR

`RegionInv`: what has been XORed is exactly the bytes from the start of the region to `dptr`, each once with its partner;
`dptr`, `mask` and the sizes move together (`Progressed`); after the head that `rest` leaves
room for, `dptr` stands at a multiple of the scalar's width (`Aligned`), which is 4, 8, 16 or 32.

### Filling and the generator

`FillInv` has the bytes before `ptr + got` come from different places of draws made so far, and, while the
generator runs, `got` stand at a whole number of words or at the end; so another word fits
whenever one is due (`WordFits`). For the generator: an even
first word makes `n0 * Multiplier + 1` odd, so one of the first two words is (`SeededAlive`),
a remainder of a power of two keeping parity (`OddRemainder`). A step that gives zero
must have had `s[0] = {}`, `s[3] = s[1] = s[2]`, and `s[1]` equal to its own shift; four shifts by 9
leave nothing of 32 bits (`NextStateAlive`).

`PairInv` follows the key through `keygen_display`: once a pair is made, `public` is the public key of the
bytes in `buf`, shifted or not, until both texts are printed.

### Numbers, digits and keys

What a conversion does with digits takes induction over their number. The theorems of the library about
induction and recursion take predicates, which the provers cannot instantiate; but
`WFMin` of `WellFoundedInduction`, that a set of numbers has a least element, does not. `StrongInduction` and
`Induction` are therefore stated about sets (a set that contains 0, and *n + 1* with each *n*, contains all
numbers), `SequenceInduction` about sets of sequences, and `RecursionExists` about functions given by
how a value is made of an earlier one. With them `NumberIs` and `ShortestIs` characterise
the two recursive functions, and follow in turn:
`NumberOfShortest` and `ShortestOfNumber` (digits and numbers correspond, up to leading zeros), `RebaseIs` (a change of
base can be undone, and keeps the leading zeros), `NumberMonotone`, `ShortestMonotone` (larger digits, larger
numbers, no fewer digits).

From `TextFits` (with a given number of leading zeros the text of the largest bytes is the longest) and the two limits for the
largest bytes, `PrivateText` and `PublicText` conclude that every key's text has room in the buffer of
`b58enc_data`, passes the limits of the decoders and decodes to the key. `PrivateBack` and
`PublicBack` are the converse: a text that decodes *is* the text of what it decodes to. `PairUnique`
says that a public key has one private key, since of *k* and *Order - k* one is odd.

`GivesUpOnlyOnZero` needs two more invariants: `BytesInv`, that what has been stored are bytes, and `Refused`,
that a key about to be shifted has been refused. A refused key is zero or past the order; past the order it
has its top bit (`LowKey`), so that after the shift its first byte is not zero and lacks the top bit (`HalvedIs`): a
key (`RefusedTwice`).

`OwnKeysAccepted` and `MistakeCaught` rest on `PairInv`, `BytesInv` and `CopyInv`, that what was read is a copy, with at most one slip,
of two printed texts (`KeysRead`). The texts that were printed decode. If one text has a slip and the pair is
accepted, the other one still decodes to its key, which determines the key of the first one by
`CreatedIsPublic` or `PairUnique`, and that its text, so that there was no slip. It does not matter that base58 has
no checksum: a slip may well give another valid key, but not the one that belongs to the other text.

### Start-up

`StartupInv` has four parts that hardly depend on one another. `ArgsInv`: what argp has handed over so far
is what the arguments say. `MessagesInv`: a message is only about between the failure and the place that
prints it. `ServingInv`: how the descriptor and the memory of the dispatcher go together at each place.
`ConfigInv`: what has been read at each place of the loading, and that at `load_failed` there is a message, or no memory,
or a failure that is reported by other means; it is the part that
fails for the server section, for want of `return false`.

### Assumptions

`2 * TotalSize < Word` holds because
`CYCLIC_BUFFER_MAX_SIZE` is 2^30; `RolesAssumption` lets `recode_none` be used only
where writer and recoder are one thread, as in the test. `CapacityAssumption`
is described in section 2.

`ChunksAssumption` leaves out the `int` overflow of `cyclic_buffer_init`;
`MaskAssumption` is `SizesAssumption` for both buffers, with a mask for every byte and no request for zero mask
bytes; `WorkloadAssumption` takes the values of the test for elements of the queue.
`RegionAssumption` gives `XorRegion` the addresses that its regions lie in.
`WordAssumption` makes `Pow2` the powers of two; `GeneratorAssumption` holds for 9, 11 and 32.
`KeysAssumption` and `LimitsAssumption` hold for bytes of 256 values, 58 digits, keys of 32 bytes, the limits of 44
and 46 and the order of secp256k1: that order is odd and greater than 2^255, 32 bytes have at most 44 digits, however many zeros
they begin with, and 33 bytes at most 46. `KeygenAssumption` has `keygen_display` fill a key, with the bytes of `RandomFill`.
`NamesAssumption` only keeps threads and variables apart as values. `StartupAssumption`
describes what argp hands over and what a setting can be like.

Only model-checked: liveness, with the fairness it needs, which the provers do not handle.
Nothing is proved of the C compiler's output or of weak executions.

## 6. Plan

All the modules of the inventory that have state are modelled, and the safety of each is proved. What could still be done:

1. Queue: prove `ElementSynchronized` of `CyclicQueueOrder` for a variant of the code with an acquire load in `take`,
   to show that this change is enough.
2. Start-up: split `StartupInv` so that the server section has its own part, as the client section has, ready for the missing `return false`.

## 7. Not modelled

- `session.h`: enumerations and a structure that no function uses.
- `run_simple_test` of the buffer test: one thread that calls the same operations in a fixed order;
  its executions are among those of `CyclicBuffer`.
- The overflow of `CYCLIC_BUFFER_CHUNK_SIZE * chunks` in `cyclic_buffer_init` (line 13) and of
  `elem_size * new_capacity` (`cyclic_queue.c:88`): undefined or wrapped for sizes no caller asks for; `ChunksAssumption` excludes the first.
- The branches of `cyclic_buffer.c` for a null `dest`, `src` or `mask` (lines 55, 60, 92, 97, 139, 144), which no caller takes.
- `recode_none` with the reader in another thread: its relaxed operations do not order the writer's copying before the
  reader's, so that `HandOverIsSynchronized` excludes it. The repository uses `recode_none` in one thread.
- Reuse of a slot across a relaxed load beyond what `RoomSynchronized` says; weak executions themselves.
- The wording of messages and usage texts, the layout of a configuration file (libconfig parses it), argp itself.
- The quality of the random numbers, and the real curve.
- Times: `nanosleep` and `sched_yield` only appear as fairness.
