# A TLA+ model of kaspa-miner

kaspa-miner is a CPU miner for Kaspa. One process keeps one gRPC stream to a
`kaspad` node, asks it for block templates, lets a number of operating-system
threads search for a nonce that makes the template's hash small enough, and
sends the blocks it finds back on the same stream.

This directory holds specifications of that program, translated from its source,
the TLC configurations that model-check them on small instances, and theorems
that TLAPS proves for every instance. Paths are relative to the repository
(`src/miner.rs` is the miner, `src/client.rs` the kaspad client, and so on).

## 1. The system

| part | source | state | operations |
|---|---|---|---|
| watch channel | `src/swap_rust.rs` | `Shared { inner, wait_cv, wait_mutex }`; per handle what it has `cached` | `init`, `empty`, `swap`, `get_changed`, `wait_for_change`, clone, drop |
| miner | `src/miner.rs` | `is_synced`, `hashes_tried`, the handles of the slot, the sending half of the channel; per thread its `State` and nonce | `new`, `process_block(Some/None)`, the thread loop, `found_block`, `log_hashrate`, drop |
| kaspad client | `src/client.rs`, `src/kaspad_messages.rs` | the channel of capacity 3, the stream, `block_template_ctr`, devfund options, the `MinerManager` | `connect`, `add_devfund`, `client_send`, `client_get_block_template`, `listen`, `handle_message` |
| process | `src/main.rs` | the `ShutdownHandler` flag | the loop connect / listen / reconnect, exit |
| proof of work | `src/pow.rs`, `src/pow/*.rs` | a `pow::State` per template | `State::new`, `check_pow`, `generate_block_if_pow`, matrix generation, heavy hash, header serialization |
| target | `src/target.rs` | none (values) | compact target, 256-bit shift and order |
| command line | `src/cli.rs`, and what `main.rs`, `client.rs` and `miner.rs` make of it | options | parsing, `process`, endpoint, user agent, number of threads |
| Keccak, wire format, build | `src/asm`, `proto`, `build.rs`, `docker` | | |

How they interact:

- `main` builds a `KaspadHandler`, which makes an **mpsc channel** of capacity 3.
  Its receiving half is the request stream handed to the gRPC library; its
  sending half is used by `main` (requests) *and* by every mining thread
  (`blocking_send` of found blocks).
- `MinerManager` hands templates to threads through a **WatchSwap slot**: a
  lock-free pointer plus a mutex and a condition variable that are used only to
  wait when there is nothing to mine. Threads look at the slot once every 128
  nonces.
- Threads tell the logger task how much they did through the **atomic**
  `hashes_tried`, again once every 128 nonces.
- `main` tells threads that the process ends through the **flag** of the
  `ShutdownHandler`, which they read once every 128 nonces.
- No thread is ever joined. A connection that is lost drops the channel's
  receiver and the manager; what the threads do after that is up to them.

What is hard about it:

- *interleavings* in the watch channel (a check, then a wait, against a swap, then
  a notification; comparing addresses that may be reused);
- *waiting on a full channel* that the same task could be expected to empty;
- *staleness*: nonces hashed, and blocks waiting to be sent, for a template that
  is no longer the current one;
- *cached state*: `is_synced` must agree with the slot, a thread's state with its
  view of the slot, the hash counter with the hashes;
- *losing a connection* at any point, in particular between two sends, and
  *reconnecting* while the old threads live;
- *arithmetic at the edges*: wrapping nonces and counters, the windows of the
  devfund, and the bit manipulation of the proof of work.

What makes each part correct:

- **watch channel**: a reader never sleeps through a change; a wait returns only
  for a change; address comparison is exact; the last handle's drop frees all.
- **miner**: every block sent solves its own template; no found block is lost while
  there is a connection; at most one batch is wasted on an old template; an
  emptied slot stops the threads; the hash counter is right up to one batch per
  thread; shutdown stops the mining.
- **client and process**: the handshake and the answers to notifications do not
  deadlock on the channel; the slot follows what kaspad last said; the devfund gets
  its share.
- **proof of work, target**: what is hashed determines what was to be hashed; the
  target and the order of hashes are those of numbers; a block is made of exactly the
  hashes that meet the target, and whoever receives it finds so too; the rank is the
  rank, the product the product, and drawing a matrix comes to an end.
- **command line**: a percentage is read as it is written, and the miner connects to
  whom it was told to, or not at all. An option that is given should have its effect;
  `documented_port` shows where it has none.

`PROJECT.json` lists the hazards one by one, each at its line and with the
properties that watch it.

## 2. The modules

| module | models | extends / instances |
|---|---|---|
| `WatchRegister` | abstract specification of the watch channel: a register with a view per handle | |
| `WatchSwap` (+ `MCWatchSwap`, `WatchSwapProofs`) | `src/swap_rust.rs` | refines `WatchRegister` |
| `Pool` | abstract specification of the mining threads of one connection | |
| `Miner` (+ `MCMiner`, `MinerProofs`) | `src/miner.rs` | uses `WatchRegister` as its slot; refines `Pool` |
| `Devfund` | the counting of requests in `src/client.rs` | |
| `Session` (+ `SessionProofs`) | `src/main.rs`, `src/client.rs` | takes its requests from `Devfund`; refines `Pool` for every connection |
| `DevfundOption` | `parse_devfund_percent` of `src/cli.rs` | extends `Numerals` |
| `DevfundPayments` | the option and the counting put together by `src/main.rs` | extends `Devfund`, instantiates `DevfundOption` |
| `CommandLine` | the other options: `process` of `src/cli.rs`, `connect` of `src/client.rs`, `get_num_cpus` of `src/miner.rs` | |
| `Startup` (+ `MCStartup`, `StartupProofs`) | from the command line to connections and payments; the proofs are also about its parts | extends `DevfundPayments`, instantiates `CommandLine` |
| `Target` | `src/target.rs`, and the decoding of compact targets | |
| `Pow` (+ `MCPow`; `PowProofs`: what is hashed, and by whom; `EncodingProofs`: numbers and headers as digits and bytes) | `src/pow.rs`, `src/pow/hasher.rs`, `RpcBlock::block_hash` | instantiates `Target` |
| `HeavyHash` | `Matrix::heavy_hash` | |
| `MatrixGenerate` | `Matrix::generate`, `compute_rank`, `src/pow/xoshiro.rs` | |
| `PowMatrix` (+ `MCPowMatrix`; `PowMatrixProofs`, about its parts too) | the matrix of a `pow::State`, drawn once and used for every nonce | extends `HeavyHash`, instantiates `MatrixGenerate` |
| `NumberFacts` | lemmas for the proofs: division with remainder, powers of two, the digits of numbers, sums, induction for a set | |

There are three chains:

- `WatchSwap` implements `WatchRegister`; `Miner` is one connection's manager and
  threads over that register, and implements `Pool`; `Session` is the process, with as
  many connections as it makes, and the threads of each of them are again a `Pool`. So
  what `Session` leaves out of the threads is what `Miner` has been shown to keep to,
  and what it assumes of them is no more than that.
- `Startup` is what comes before: the options, the connection they lead to, and who is
  paid on it. Both `Startup` and `Session` take the actions of `Devfund` for the requests.
- `Pow` with `Target`, and `PowMatrix`, are what `Miner` abstracts into "this template
  with this nonce is a solution".

### WatchSwap and WatchRegister

| code | model |
|---|---|
| `Shared.inner: ArcSwapOption<T>` | `inner`, an address or `Null` |
| `Shared.wait_mutex` | `mutex`: who holds it, or `Free` |
| `Shared.wait_cv` | the handles at `"waiting"` |
| `WatchSwap.cached: Option<Arc<T>>` | `cached[h]` |
| what `swap` takes out and returns | `old[h]`, until the call ends |
| allocation by `Arc::new` | an address that nothing refers to (`Unused`), so that addresses are reused as soon as they may be |
| what an address holds | the number of the publication, a history variable |

Actions end at accesses to shared state: `SwapSome`/`SwapNone` (the atomic swap),
`LockToNotify`, `NotifyAll`, `Release`, `GetChanged`, `WaitForChange`, `LockToCheck`,
`FoundChange`, `FoundNoChange`, `CondvarWait`, `SpuriousWake`, `Clone`, `Drop`. Every handle may do
every operation at any time, also publish, although in the program only `main` does.

`WatchRegister` forgets addresses, mutex and condition variable: a current
publication, what each handle has seen, and who is blocked in a wait. The point of
the refinement is that comparing *addresses* tells the same as comparing
*publications*. Handles that wait hold on to their cached value, which is why the
model has a handle free its reference only with the next load.

### Miner and Pool

A thread is a program counter over the places where it touches shared state (`top`,
`send`, `count`, `check`, `poll`, `exited`), its `state` (the template it has a clone
of) and its `nonce`. The manager has `isSynced` and `hashesTried`. `ProcessBlock`,
`ProcessNone` and `ProcessBadBlock` are the three ways of `process_block`;
`DropManager` is the end of `listen`, `MainReturns` the drop of `ShutdownOnDrop`;
`Deliver` and `Disconnect` are the receiving end of the channel, which is external.
`start`, `unreported`, `stale`, `found` and `delivered` are history variables.
Hashing is atomic with the steps before it; the throttle's sleep changes nothing.
The `continue` after `wait_for_change` returns without a template cannot be reached:
that is part of `MinesWhatItSaw`, a conjunct of `MinerInvariant`.

`Pool` forgets all of this but how many threads there are and how many of them have a
template. It promises that a thread ends only while it hashes, and only after the
connection or the process is over.

### Session and Devfund

`phase` is where `main` is between two awaits. `stream` is what `stream.message()`
would find, `open` the connections whose request stream is alive, `outbox` the
channel. kaspad may answer anything at any time. The flag of the `ShutdownHandler`
is set only by `main`'s own return: the checks of it in `main`'s loop and in
`listen` never find it set, and are left out as guards. A header that does not
decode (a panic) and a header that is missing (an error) end `main` alike, and are
one kind of "bad" block.

`mineWhenNotSynced` is the option, chosen in `Init` and never changed.

`Devfund` counts requests: `ctr` is `block_template_ctr`, `share` and `paid` are
history; `devfundPercent` is any percentage. `Connect` and `Request` of `Devfund` are parts
of the actions of `Session` that ask for a template; what `Session` adds is when that
happens, and how often a connection, and with it the counter, is new. `DevfundPayments` is
`main`'s way from the argument of `--devfund-percent` to the percentage, and on to the
payments.

### Startup and CommandLine

A text is a record of what the code looks at: an address has a scheme or not, a host, and
a port or not; a suffix is a sequence of characters, one of which is the slash.
`Process` checks and completes them, `Connect` makes endpoint and user agent,
`ConnectFails` is the endpoint that is none, and `Launch` takes the number of threads.
`Startup` puts that next to the percentage: the parser runs first, and every connection
is made from the same options.

### Pow and Target

A run is one template. `DecodeTarget` makes its target, the words of a shift one by one;
the header is serialized field by field through the one buffer the code uses; `TryNonce`
puts a nonce into a copy of the hasher, as the words of Keccak's state with what is xor'ed
into each; `CompareWord` compares word by word; and `GenerateBlock` makes the block, which
is serialized for its hash, and by its receiver, who decodes, hashes and compares for
himself. Integers have their width in bytes, and a `Vec` has a length that is one of them;
the time, an `i64`, is the unsigned number of the same bytes. Hash functions are
injective, and what number a hash is, is up to an oracle, so that every nonce may turn out
to be a solution or not.

### PowMatrix, HeavyHash and MatrixGenerate

`MatrixGenerate` draws words, eliminates a column per step, and draws again.
`HeavyHash` splits a hash into nibbles, multiplies row by row and recombines. `PowMatrix`
has them in the order of the code, so that the products are those of matrices that can
be drawn and that were accepted, one hash after the other with the same one.

## 3. What the runs check

| run | states | what it shows |
|---|---|---|
| `swap_safety` | 29 thousand, up to symmetry | `NoLostWakeup`, `CachedContentIsStable`, the inductive invariant, and that the channel implements the register |
| `swap_liveness` | 11 thousand | a waiter with a change to see returns; a publisher is not held up by readers |
| `miner_safety` | 1.4 million, up to symmetry | the invariants of `Miner`, and that its threads are a `Pool` |
| `miner_liveness` | 190 thousand | changes of the slot reach all threads; shutdown stops mining |
| `session` | 130 thousand | the inductive invariant of `Session`; with and without `--mine-when-not-synced`: the slot follows kaspad's answers; over all connections the devfund gets its part of the requests, and more only by what a broken window of each connection may leave; handshake and answers do not deadlock on the channel; `main` leaves a stream that is over, whatever it is doing; the threads of each connection are a `Pool` |
| `startup` | 1.2 million | two-digit percentages are read exactly and stay below 100%; for every argument, the exact share over several windows and connections; the endpoint is the host that is named at the port that goes with it, and the user agent can be taken apart |
| `proof_of_work` | 1.7 million | headers can be read back from their serialization; Keccak is given the padded message; the target is the number meant; a block is made of exactly the hashes that meet it, and its receiver agrees |
| `matrix_and_hash` | 1.2 million | the rank is the rank and drawing ends, from every seed; the product, without overflow and without uninitialized reads |

Each property of these has a mutant in `PROJECT.json`: a plausible bug, defined next
to the definition it replaces, with which the same run fails.

Four things the repository says and its code does not do are runs that are expected to
find a violation:

- `session_threads`: `--threads` is the "amount of miner threads to launch"; after a
  reconnect the old threads are still there and hash the old connection's last
  template until they find a block.
- `devfund_percentage`: of 10000 requests `devfund_percent + 1` pay the devfund, one
  even for 0%.
- `accepted_ip`: `--kaspad-address ::1` is accepted as "the IP of the kaspad instance"
  and completed to `grpc://::1:16110`, without the brackets that an endpoint needs.
- `documented_port`: `--port` and `--testnet` are documented without an exception; next to
  an address that starts with `grpc://` and has no port, neither has an effect (nor has the
  network's default port).

Five more were met while modelling; no run that fails is spent on them:

- each new connection begins with the devfund's share (`AskFirst` of `Session` starts
  the count anew), so that with short connections it gets nearly everything that is
  counted; `DevfundIsAhead` says how far that can go;
- "Disconnected from kaspad, retrying" is logged before the one attempt to connect
  again; if that fails (`ConnectFails`), the process ends;
- `--devfund-percent=1.5` means 1.05%: `CanonicalIsExact` is about two digits only;
- without `--threads` there are as many threads as physical cores (`NumCpus`), where the
  help says "number of logical cpus";
- 1.05% is logged as "1.5%" (`src/main.rs:90-92`).

### Bounds, and why they are enough

- `WatchSwap`: three handles are a publisher and two readers, or two publishers and a
  reader. Five addresses for safety: one shared, one cached by each handle, one being
  published, so that an allocation never fails for want of model values; two addresses
  for liveness, where reuse matters less. Three publications reuse an address twice.
- `Miner`: two threads; a batch of two nonces in place of 128, and two batches before
  the nonce wraps, so that batches in the middle and at the wrap both occur; a counter
  that wraps with two batches; a channel of one, which is full as soon as one block
  waits; two templates and any number of clearings. Two templates have solutions in
  different positions of a batch. Liveness has one batch and one solution.
- `Session`: two connections are one reconnect; the channel has the capacity of the
  code, 3, because the handshake is about exactly this number; one thread, which fills
  it as several would (two in `session_threads`).
- `Devfund`: windows of 10 in place of 10000, and two of them; any percentage.
- `Startup`: numerals of base 2, so that a window has 16 requests, two windows and a half;
  parts of up to three digits, one more than is accepted; an IPv4 address that is not the
  default, an IPv6 address with and without brackets, a name, and no host; suffixes one
  character longer than is accepted, the slash in any place. On a command line one thing is
  out of the ordinary (`MCStartup`): the parts do not look at each other's options, which
  the theorems, about all of them at once, confirm.
- `Pow`: two binary digits a byte, hashes of two bytes, integers of one and two bytes,
  parents in up to two levels of up to two hashes, each of which may be undecodable. Two
  nonces, so that one is tried after another. Targets of three words of six bits, the least
  that has a word between two others; all mantissas, sign bits included, and exponents
  from zero to beyond the width. One of the headers has all targets and all
  hashes of extreme words; the headers of other shapes have one target.
- `PowMatrix`: 4 by 4 matrices of 2-bit nibbles, with a scale that is again size times
  nibble; a generator of four words of four bits; seeds of words with no, one and all bits
  set, except zero, for which `generate` would not end and which no hash of a header is
  known to be; all hashes.

`CHECK_DEADLOCK FALSE` is in every configuration but those of `WatchSwap`. In `Miner`
all threads may have ended or wait for a template that never comes; in `Session` the
process exits, and the bound on connections stops it; in `Startup` the bound on requests
does; `Pow` ends with its template.

### Fairness

- `WatchSwap`: operating-system threads that can take a step take it, and a thread
  that keeps trying for the mutex gets it (strong fairness of acquiring it); no
  fairness of callers: nobody has to publish or to wait.
- `Miner`: threads run (weak fairness of each); `blocking_send` waits in the fair,
  first-in-first-out semaphore of tokio's channel (strong fairness of `SendBlock`);
  the request stream takes messages out of the channel as long as it is open, which is
  an assumption about kaspad and the network. Nothing is assumed of templates, of the
  logger or of disconnections.
- `Session`: `main` runs on where it does not wait for kaspad; the opening of the stream
  succeeds or fails; sends queue fairly; the channel is drained while it is open. No
  fairness of anything kaspad sends, of the end of a stream, or of the threads.
  `LostStreamIsLeft` therefore speaks of streams whose end has arrived: once
  `stream.message()` would return it, `main` gets there.
- `PowMatrix`: the function that draws runs on. A caller need not call.

## 4. What is proved

The theorems hold for every value of the constants that satisfies the assumptions. TLC
evaluates the assumptions in the runs, and the code's values satisfy them:

- `WatchSwapAssumption`: there are handles and addresses, `Null` is none of the addresses;
- `MinerAssumption`: a finite number of threads, at least one; sizes are positive; the batch
  divides the nonce space and the counter (128 divides 2^64);
- `SessionAssumption`, `DevfundAssumption`, `PaymentsAssumption`, `OptionAssumption`: sizes
  are positive, a share is less than its window, and a window is a hundred hundreds in
  whatever base numerals have;
- `StartupAssumption`: the networks have different ports;
- `HeavyHashAssumption`: an even number of columns, nibbles of some bits, and the sum of N
  largest products fits a sum and, scaled down, a nibble
  (64 * 15 * 15 = 14400 is less than 16 * 1024 and than 2^16);
- `GenerateAssumption`: words are made of whole nibbles and rows of whole words, rotations and
  shifts are by less than a word, and seeds are four words;
- `PowAssumption`: a word is a number of bytes, at least three, and a number that is called
  a hash has as many words as a target; the length of a hash is an integer of eight bytes;
  headers and nonces have the widths of their types. Which headers and nonces there are, how
  many digits and hashes a header has, and what the hash functions say, is left open.

### What the theorems are, and how they are argued

- **WatchSwapProofs.** The inductive invariant `SwapInvariant` has, besides types:
  the mutex is held by who is in a critical section (`MutexOwned`); whatever a handle
  or the slot points to is referenced and not reused (`ReferencesOwned`); two
  references with one address have one content, with one content one address
  (`PointersTellValuesApart`); and a handle that waits with a change to see has a
  notification coming (`NoLostWakeup`). None is inductive alone: that a wake-up is not
  lost rests on the mutex being held between check and wait, and that on who owns it.
  From it follow `WakeupsAreNotLost`, `CachedContentStays` (a step never changes what a
  cached pointer refers to) and, with a step of the register for each step of the
  channel, `SwapIsARegister`.
- **MinerProofs.** `MinerInvariant` adds to the properties what they rest on:
  `SendsASolution` (a thread that waits for room has not moved on from the nonce it
  found) and `StaleInBatch` (what a thread has hashed of an old template, it has hashed
  in its current batch; at the end of a batch the nonce is a multiple of the batch). From
  it follow `BlocksAreSolutions`, `FoundBlocksAreKept`, `StalenessIsBounded` and
  `SyncedFollowsTheSlot`. `ThreadsArePool` is the refinement of `Pool`: the two counts of
  a pool are the sizes of two sets of threads, and a step of the miner changes each of
  them by the thread that takes it, or not at all. `ReportsCountHashes` is the balance of
  the hash counter: the sum over the threads is the size of a set of pairs, so that a step
  of one thread adds to it or takes from it what that thread has, and the balance holds
  modulo the width of the counter.
- **SessionProofs.** `SessionInvariant` has the types; that what was paid stays within
  what is counted (`PaymentsBounded`); that connections come one after the other, so
  that those to come, and the one that is being made, have no threads (`ConnsInTurn`);
  that the flag is set exactly when `main` has ended (`ExitedIsShutdown`); and that
  while `is_synced` is false the slot is empty (`UnsyncedIsEmpty`). With the last,
  `SlotFollowsAnswers` is inductive: an answer that `process_block` passes over, because
  the miner is unsynced already, leaves a slot that is empty anyway
  (`SlotIsWhatKaspadSaid`). `DevfundNeverLosesByReconnecting` is about the whole process:
  with a share of `s` requests in a window of `w`, the devfund has at least `s/w` of all
  counted requests, and at most `s(w - s)/w` more per connection. Within a window it moves
  ahead by `w - s` (in units of `1/w`) while it is paid and falls back by `s` afterwards
  (`ExcessStep`), so that the excess at any time is within those bounds (`ExcessIsBounded`);
  a counter that starts anew leaves the excess of a broken window behind, and
  `AheadInvariant` keeps what was left behind so apart from what the current window adds.
  `ConnectionsArePools` is a refinement: each step is one of every connection's `Pool`, or a
  stutter of it.
- **StartupProofs.** For all command lines. `DevfundGetsItsDue`: the closed form `Due(n)`
  grows by one exactly when request `n` pays the devfund, for every percentage and every
  window. `PercentFitsWindow`: an accepted percentage is less than a whole, as both its parts
  are less than a hundred, which is what `Devfund` starts from; and so connections pay what
  is due whatever is given for the option (`PaymentsFollowTheOption`). `CanonicalIsRead`: an
  argument of two digits, or of two and two, is accepted and is what it says. `Told`: a
  connection is to the host that is named, or to the default one if none is, and to the port
  of the options or of a complete address (but for what `documented_port` is about), which
  rests on what `Process`
  has made of the address while the process is on its way (a text that is complete, or left
  as it was given). `ReadsBack`: the part of the user agent behind its slash is the suffix,
  which rests on a version and an accepted suffix without one.
- **PowMatrixProofs**, about the product. With the invariant "a sum of j products is at most
  j times the largest product", no sum overflows and no cut sum exceeds a nibble; the
  uninitialized array is written in full before it is read, also when the function is called
  again. `HashIsMatrixProduct`: a row's sum is that of the products so far; so what the loops
  leave is the scaled product, xor the hash, nibble by nibble, for any number of rows. These
  theorems are about `HeavyHash` with any matrix of nibbles; `PowMatrixIsCorrect` says the
  same of `PowMatrix`, where nothing is multiplied before a matrix is drawn and accepted.
- **PowMatrixProofs**, about the rank. `RankDecidesInvertibility`: when `compute_rank` is
  through, its count is full if and only if zero is the only vector that the matrix
  annihilates; so `generate` rejects the matrices that are not invertible and no others, and
  every nonce is hashed with one that is (`MatrixIsInvertible`). The invariant (`Eliminating`)
  has two cases. As long as every column had a pivot, the fractions right of the current
  column are numerators `A[r][c]` over one denominator (`Represents`), and the vectors that
  the matrix annihilates are exactly the solutions of the system that is left
  (`EliminatedTo`): the rows that are selected give each unknown on the left in terms of those
  on the right, the others still stand. That the code leaves the pivot's column as it is, and
  takes the pivot off rows already selected too, is what makes this one system
  (`EliminationKeepsSolutions`). The first column without a pivot is a combination of those
  before it (`ColumnWithoutPivot`); from there on the rank can only stay behind. The numbers
  are what they are because `Gcd` divides both its arguments (`GcdDivides`, by induction over
  the second), so that reducing a fraction does not change it (`ReducedIsFraction`).
- **PowProofs.** `KeccakGetsTheMessage` and `BlocksAreAccepted`. Who receives a block does
  again what the miner did before the nonce was known. So decoding and serializing for the
  proof of work are written as a function `Step` of what they compute with and of the header
  *without nonce and time*; every step of the specification is one of `Step`; and runs of a
  function end in one place (`OneEnd`), whatever the nonce. `PowInvariant` ties this to the
  life of a block: who serializes (`RoleInv`), what has been computed so far (`ComputingInv`),
  that trying nonces leaves the miner's hasher as it was made (`HasherInv`), that a block's
  nonce met the target that its header has (`BlockInv`), and what `cmp` knows of the words
  it has passed (`Comparing`).
- **EncodingProofs.** Numbers as digits: the digits of a number make the number, and a number
  made of digits has them (`FromDigitsOf`, `DigitsOfNumber`). `TargetIsNumber`: what `shl`
  puts into a word is that digit of the shifted number, and after the first word of the
  mantissa its loop has nothing left to add (`DecodedInv`). `BytesInOrder`: the digits in
  bytes of the digits in words are the digits in bytes. `SolutionsMeetTarget`: comparing
  words from the highest is comparing numbers, and so a block is made of exactly the hashes
  that are at most the target's number. `HeadersReadBack`: `SerializedInv` says of each stage
  of the serialization that the hasher has been given the header up to there, each part where
  a reader who knows only the format looks for it. Where the levels begin is a sum over the
  levels before; the reader's sum, over the lengths that he has read, is the same by
  induction.

Two devices make induction over data possible without a theorem that takes an operator.
`SetInduction` is about a set of numbers: a statement about all numbers up to n is that
n is in the set of those that satisfy it. And sums and folds are recursive functions whose
existence is proved once (`SumsExist`); what they compute follows from their equation.

### Only model-checked

- What must happen eventually: `WaiterReturns` and `SwapReturns`, `ChangesReachThreads` and
  `ShutdownStopsMining`, `HandshakeCompletes`, `NotificationsAreAnswered` and
  `LostStreamIsLeft`, `Generates`. Fairness and ENABLED are out of the provers' reach.
- `RankIsRank`: that after every column the rank is that of the columns so far, as minors
  define it. The proof would need a theory of determinants, defined by folds over sets of
  bijections, that no library here has. What the program makes of the rank in the end, whether
  a matrix is accepted, is `RankDecidesInvertibility`; its invariant speaks of all vectors of
  integers, and so only TLAPS can look at it.

## 5. What is not modelled

- The Keccak permutation in assembly and the constants of the hash functions: straight-line
  code on 1600 bits. `Pow` takes hash functions as injective; what is put into Keccak's
  state before the permutation is modelled for `PowHasher` and left out for
  `HeavyHasher`, whose one message is the product.
- Rounding of `f64` in `compute_rank` and its `EPS`: fractions are exact.
- A connection that dies without a word: nothing in the code bounds the silence, so that
  there is nothing to check. `LostStreamIsLeft` is about ends that arrive.
- `proto/`, `build.rs`, `docker/`: data definitions and packaging.
- Logging and its formats, `LowerHex` of `Uint256` among them; the throttle.
- How clap, `IpAddr` and `Uri` read texts: a host is a name, an IP or empty.
- The memory order of the atomics (`Relaxed` for counter and flag): the model is
  sequentially consistent. The counter is only added to and swapped, and the flag only
  set once, so that a later read is all that weaker orders allow; in the model a thread
  may be as late.
- What `arc-swap` does inside its load and swap, and tonic and tokio: modelled by how the
  code uses them.

## 6. How it came about, and what could follow

1. The watch channel and its abstract register; the miner over the register; requests and
   session; the algorithms of the proof of work; first theorems.
2. The threads of a connection as an abstract `Pool`, implemented by `Miner` and by each
   connection of `Session`; the command line as a whole; the target, the header and the block
   as one composition, with the receiver; matrix and product as another.
3. Theorems of the processes: that `Miner` implements `Pool`, that the hash counter is
   balanced, the invariant of `Session`, its refinement of `Pool` and what reconnecting does
   to the devfund's share, the
   reading of percentages.
4. Theorems of the proof of work: the product, what Keccak is given, that blocks are accepted,
   targets and hashes as numbers, headers as bytes, and that the matrix is invertible.

Every safety property that a run checks, but `RankIsRank`, is now a theorem. What `Miner`
takes from the proof of work, that a template with a nonce either is a solution or is not, is
what `SolutionsMeetTarget` and `BlocksAreAccepted` establish; a specification of its own
between the two could make that a refinement. The other thing left to say is how far rounding
in `compute_rank` is from fractions, which is a matter of numerical analysis.
