# liberate: a verification project

TLA+ models of liberate, a C++ library of platform-independent helpers: threads
that can be restarted, a two-lock queue, lock policies, addresses and networks,
binary serialization, checksums, text encodings, URLs, paths, error messages and
name resolution.

The models are translated from the code under `src/`. TLC checks them on small
instances (the `.cfg` files); the TLA+ proof system checks theorems about the
components that threads share, about addresses, networks and the texts they are
given as, about packet headers and name resolution, for every value of their
constants. `PROJECT.json` maps each definition to the lines it stands for, and lists the runs, the
hazards, the theorems, and for every property a fault in a mapped definition
that makes the property fail. The operators that state these faults are marked
"A fault" in the modules; nothing else uses them.

    tlc -workers 2 -config MCTasklet_safe.cfg MCTasklet
    tlapm TaskletProofs.tla

Contents: 1 components, 2 modules, 3 the models, 4 the runs, 5 fairness,
6 the proofs, 7 findings and disagreements, 8 what is not modelled, 9 plan.

## 1. The components

**tasklet** (`concurrency/tasklet.{h,cpp}`). *State*: for each tasklet a pointer
to a context; in the context the `running` flag, the `std::thread`, and the
condition the thread sleeps on, owned or supplied from outside. *Operations*:
constructor, `start()`, `stop()`, `wait()`, `wakeup()`, destructor; in the
thread `nanosleep()` and the task function. *Interaction*: client threads and
tasklet threads share the context, and several tasklets may share one
condition. *Hard*: the pointer is read without a lock; `wait()` and the
destructor replace the context, join and delete it; notifications can meet a
thread before it blocks, or the wrong thread. *Correct if*: contexts are alive
when used and joined before they are deleted, a stop is never lost, a tasklet
has one thread at a time, and every call that waits returns.

**concurrent_queue** (`concurrency/concurrent_queue.h`). *State*: a linked list
behind a dummy node, two spinlocks. *Operations*: `push()`, `push_range()`,
`pop()`, `empty()`, `size()`, destructor. *Interaction*: any number of producers
and consumers. *Hard*: the two sides hold different locks and meet in the
`m_next` of one node; nodes are freed outside locks; `size()` walks a list that
grows. *Correct if*: the calls are linearizable to a FIFO queue, no node is lost,
used after it was freed or freed twice, and neither side waits for the other.

**lock_policy** (`concurrency/lock_policy.h`). *State*: a proxy's reference to a
mutex, and the scoped locks. *Hard*: the reference is read twice per call, with
no lock; proxies share mutexes. *Correct if*: scopes exclude each other, unlock
what they locked, and are entered in the end.

**socket_address** (`net/socket_address.{h,cpp}`, `net/address_type.h`). *State*:
one address of a family, with its port. *Operations*: construction from raw
memory, bytes and texts, `==`, `<`, `<=`, `hash()`, `++`, `set_port()`, `swap()`,
`serialize()`, `deserialize()`, `cidr_str()`, `full_str()`.
*Interaction*: keys of `std::set` and `std::map`, candidates of `network`,
results of `resolve()`. *Hard*: comparison and arithmetic byte by byte; buffers
that end within an address. *Correct if*: `<` is an order that `++` follows and
that agrees with `==` and `hash()`, and addresses survive a transfer and printing.

**cidr** (`net/cidr.{h,cpp}`). *State*: the result that `parse_extended_cidr()`
fills in. *Operations*: it and the `verify_` functions, called by the
constructors of `socket_address` and `network` with a text. *Hard*: colons are
those of an IPv6 address or start a port, brackets and masks come in any order,
and a text is refused after parts of it were stored. *Correct if*: the
documented forms are accepted, mean what they say, and are what is printed.

**ip** (`net/ip.{h,cpp}`). *State*: a client's addresses, which are overwritten.
*Operations*: `parse_source_address()`, `parse_dest_address()`,
`parse_addresses()`. *Hard*: any number of bytes has arrived. *Correct if*: an
address is the one of the header or what it was, and the result says which.

**network** (`net/network.{h,cpp}`). *State*: a base address, a mask size, the set
of reserved addresses. *Operations*: `reset()`, `reserve_address()` in three
forms, `mapped_address()`, `is_reserved()`, `release_address()`, the range
queries. *Hard*: `reserve_address()` looks for a gap by comparing a sorted set
place by place with candidates, so its correctness depends on what earlier
calls left; counts are computed in 64 bits. *Correct if*: each host address is
handed out at most once until it is released, and never refused while one is free.

**serialization** (`serialization/{integer,varint}.h`), **checksum**
(`checksum/crc32.h`). *State*: the client's buffer; the checksum so far. *Hard*:
widths, shifts and sign, sizes computed in one place and used in another,
initial values that depend on whether data went before. *Correct if*: what is
read is what was written, and accumulated checksums are those of the definition.

**types_varint** (`types/varint.h`). *State*: a number. *Operations*: those of an
integer, each written out. *Correct if*: they agree with each other as an
integer's do.

**string_codecs** (`string/hexencode.*`, `string/urlencode.*`), **string_util**
(`string/util.*`), **url** (`net/url.*`), **resolve** (`net/resolve.*`). *State*:
the hexdump's line buffer; the sorted results of `resolve()`; otherwise inputs
and outputs. *Hard*: ends of texts within a digit pair or an escape, a line
buffer that is never cleared, delimiters in unexpected order, one of several
lookups failing. *Correct if*: decoding undoes encoding, every byte is shown
once, a URL prints as itself, and all answers are returned or an exception says
why not.

**fs_path** (`fs/path.*`). *Operations*: `to_posix_path()`, `to_win32_path()`.
*Hard*: quoted delimiters, drives, indices at both ends of a text. *Correct if*:
each undoes the other where a path has both forms.

**sys_error** (`sys/error.*`). *State*: a static buffer for the message of
`strerror_r()`. *Hard*: all threads share that buffer. *Correct if*: a thread gets the
message of its own error.

**cpp_operators** (`cpp/operators/comparison.h`) derives comparison operators from
two; its `<=` is in the model of socket_address. **Without a model**: fs_tmp,
types, exponential_backoff, cpp_hash, string_utf8, api, logging, version,
netincludes, build; section 8 has the reasons.

Calls go downwards only: `network` uses `socket_address` and `cidr`; `cidr`,
`ip` and `resolve` use `socket_address`; `url` uses `string_util` and
`string_codecs`; `fs_path` uses `string_util`. Only tasklet, concurrent_queue,
lock_policy and the buffer of sys_error are shared by threads; the rest is
sequential, and there a step of a model is a call (or a loop iteration, where
state survives from one to the next).

## 2. The modules

| Module | Models | Uses |
|---|---|---|
| `RestartableThread` | abstract: the life of a tasklet's thread | |
| `Tasklet` | tasklet, at each access to shared state | `RestartableThread` (refined) |
| `TaskletProofs` | theorems: safety, refinement | `Tasklet` |
| `FifoQueue` | abstract: one sequence, calls with one effect | |
| `ConcurrentQueue` | concurrent_queue, at each access to shared memory | `FifoQueue` (refined) |
| `ConcurrentQueueProofs` | theorems: safety, refinement | `ConcurrentQueue` |
| `LockPolicy`, `LockPolicyProofs` | scoped locks and proxies; theorems | |
| `Powers`, `PowersProofs` | powers of two; lemmas about them, division, recursive functions and induction | |
| `SocketAddress` | the operators of socket_address | `Powers` |
| `AddressObjects` | address variables and byte buffers | `SocketAddress` |
| `AddressProofs` | theorems: keys, transfer; lemmas about bytes as a number | `AddressObjects`, `PowersProofs` |
| `Cidr` | cidr, and a network constructed from texts | `SocketAddress` |
| `IpPacket` | ip | `SocketAddress` |
| `AddressPool` | abstract: a pool of addresses | |
| `Network` | network | `SocketAddress`, `AddressPool` (refined) |
| `NetworkProofs` | theorems: masks, new addresses, refinement | `Network`, `AddressProofs` |
| `Serialization`, `Crc32` | integers and varints; crc32 | `Powers` |
| `VarintType` | types_varint | `Powers` |
| `TextCodecs`, `Texts` | encodings and searches; a client with a text | |
| `Url` | url | |
| `ValueProofs` | theorems: serialization, checksums, texts, types_varint, url | `Serialization`, `Crc32`, `Texts`, `VarintType`, `Url`, `PowersProofs` |
| `Hexdump`, `Paths` | the hexdump's layout; fs_path | |
| `Resolve` | resolve | |
| `ErrorText` | sys_error with any threads | |
| `CallProofs` | theorems: cidr, ip, resolve, sys_error | `Cidr`, `IpPacket`, `Resolve`, `ErrorText`, `AddressProofs` |
| `MCTasklet`, `MCConcurrentQueue`, `MCNetwork` | instances of one module | |
| `MCValues` | the modules about values put together, see section 4 | |

## 3. The models and the code

### Tasklet

| Model | Code |
|---|---|
| `mctx[t]`; `None` before construction and after destruction | `m_context` |
| `owner[x]`, `running[x]`, `thread[x]`, `mutex[x]` | an `extended_context`; `owner` is `None` while its memory is free |
| `mutex[Shared]` | the external condition of the tasklets not in `Owned` |
| `pc`, `op`, `tgt`, `ctx`, `cur` | a client's place in a call, the call, its tasklet, the locals `ctx` and `current` |
| `Call` | the entry of a call, where it reads `m_context` without a lock |
| `Start`, `Stop` | `start()`, `stop()` up to the release of the mutex |
| `Notify` | the notification, after that release; also `wakeup()` |
| `JoinLock`, `JoinSwap`, `Join`, `DeleteCurrent`, `Release` | `try_joining()` and its callers, step by step |
| `Sleep`, `Block`, `SleepReturns` | `nanosleep()`: lock and test, wait, return |
| `Terminate`, `WakeUnnotified` | end of the task function; timeout or spurious wakeup (external) |

A context's identity is used again once no pointer to it is left, as an
allocator would. A task function calls `sleep()` in a loop until it returns
false; those in `OneShot` may also return by themselves. `MayOverlap` says which
calls clients make on one tasklet at the same time. A notification wakes any one
waiter of a tasklet's own condition (`notify_one()`), and all of a shared one.

### ConcurrentQueue

`m_next`, `m_first`, `m_last` and the two locks are the code's; `chain` is the
list from the dummy on, which the code has only as pointers, and `ListIsIntact`
says that it is what the pointers make. `PushAlloc`, `PushLock`, `PushLink`,
`PushLast`, `Unlock` are `push()`: the store that makes a value visible and the
store to `m_last` are separate steps, since a consumer can run between them.
`PopUnlink` and `PopFree` are the two halves of `pop()`, under and after the
lock. `size()` takes a step for each node. Freed nodes are reused. The
destructor (`Destroy`) runs when no call does, as C++ requires of clients.

### LockPolicy

`proxied[p]` is a proxy's reference, `Null` for none; `ByRef` takes the
policies whose references never change. `CheckLock` and `Lock` are the test and
the use of the reference in `lock()`, `CheckUnlock` and `Unlock` those in
`unlock()`. `SetProxied` is what clients do, and its guard is the assumption
that they do so only while nobody has a lock on the proxy.

### SocketAddress, AddressObjects, Network

An address is a family, a sequence of bytes and a port. The number of bits of a
byte and of bytes of an address are constants, so that TLC can look at all
addresses; what the code does byte by byte the model does byte by byte
(`HostBits` and `Prefix` are the masks, and `MaskIsPrefix` says that the bytes
together are a prefix of the address as a number). `Network` keeps `m_network`,
`m_mask_size` and `m_allocated`; `result` is the last call with its argument and outcome,
exceptions included. `Reserve` compares the place of each reserved address with
that of a candidate, as the code does. Arithmetic wraps at `NetworkLimit` bits, of which
the code has 64: no fewer than an IPv4 address has, no more than an IPv6 one.

`AddressObjects` writes addresses to a buffer in both ways there are, by
`serialize()` and as the raw `sockaddr`, and reads any part of that buffer back.

### Cidr, IpPacket

A text of `Cidr` is a sequence of tokens: a delimiter, a number, an address, or
something else. Which digits are an address is `inet_pton()`'s affair, which is
external; IPv6 addresses are spelled out in full, so that nothing can be added
to one. Positions in a text (`First`, `Colon`, `Behind`) are those of tokens.
`Result` keeps what was stored before a text was refused. `network` has
`m_network` and `m_mask_size` of a `network` that `ResetNetwork` replaces, or leaves if
its constructor throws.

`Receive` puts another byte of a packet into the buffer of `IpPacket`; `Parse`
is `parse_address_helper()`, after which the two objects hold what it wrote to
them, a source whose destination is cut off included.

### The other sequential modules

`Serialization` has a buffer in which the client writes varints and integers
one over the other and reads them back, an integer also from fewer units than it
has (`DecodeInt` refuses these); a unit has `UnitBits` bits, and
`SignedUnits` says whether its type has a sign. `Crc32` has a client that passes
each checksum on to the next call; a register is the set of the places of its
one bits, so that an exclusive or is a symmetric difference. `Texts` applies the
operators of `TextCodecs` to one text; where `urldecode()` and `replace()` have
a loop, the model has its turns (`DecodeTurn`, `ReplaceTurn`), as a function of how many there
were. `Hexdump` has the line buffer as it is reused, a step per line. `Url`
parses texts of delimiters and letters. `urlencode()` leaves the characters of
`UrlKept` as they are and encodes all others; `EncodedAs` says which character
it prints for each of them, which is another one where its code has a digit C
(`hexencode.cpp:41`): for "," it is "-", for "<" it is "=". `split_query()` has a
loop over the parameters; the model has the set of places where they start, and
of those with the same key the last one counts, as in the code the last one
overwrites the others. `Parameters`, `KeyOf` and `ValueOf` say what a query is
without those functions, for `SplitsInOrder`.
`Resolve` makes a step per lookup, with each answer `getaddrinfo()` can give;
what `std::stoi()` raises for a port is one of two exceptions, as the text is no
number or one that does not fit.
`Paths` converts a path that a client enters name by name, so that both of its
forms are known without either function. `VarintType` has a variable `v1` that
every assignment operator changes, with the other operand in `v2`, in two's
complement of `BaseBits` bits: `OneBits` are the places of a number's bits, and
`NumberOf` adds up their weights. Clients use only operations whose results the
type can hold, as C++ requires.

### ErrorText

Threads call `error_message()` at any time. `strerror_r()` is the GNU one, which
a build with g++ has: it returns a constant for the codes it knows (`Format`
goes on to `Copy`) and writes to the static buffer for the others, which takes
two steps, so that threads may write at once: any of those that did (`mixed`),
the last one included, may then find its own text or one that is `Torn`.

## 4. The runs

| Run | Instance | Shows |
|---|---|---|
| `tasklet_safe` | 2 tasklets (own and shared condition), 3 clients, 5 contexts | contexts are alive when used (`NoDanglingContext`), joined before they are deleted (`JoinsWhatItDeletes`), deleted while nobody holds or waits on their condition (`DeletesQuietContexts`); no stop is lost (`NoLostStop`); a tasklet has one thread (`OneThreadPerTasklet`); `stop()` returns whether it stopped one (`StopReportsTruth`) |
| `tasklet_fair` | 2 tasklets on one condition, 1 client, 3 contexts | refines `RestartableThread` (`KeepsPromise`); a notification leaves no thread asleep that it is for (`WakesSleeper`); stopped threads terminate (`StopTerminates`), calls that join return (`JoinsReturn`) |
| `queue_safe` | 3 threads, 3 nodes, 2 values | list and last pointer intact, nodes accounted for and not used after they are freed, refines `FifoQueue` (`Linearizable`) |
| `queue_progress` | 2 threads, 3 nodes | producers complete though consumers stop within a call, and the other way round |
| `lock_fair` | 3 threads, 2 proxies, 2 mutexes | mutual exclusion, a lock unlocks what it locked, every scope is entered and left |
| `network_pool` | IPv4 networks of 6 and of 2 hosts, 2 identifiers that collide or not | refines `AddressPool` (`ImplementsPool`) |
| `values` | all small values, texts and orders of calls, see below | addresses survive a transfer and serve as keys, masks are prefixes and hosts are counted in ascending order, texts are read back and only documented ones are accepted, headers are read, integers are read as written, a varint's operators agree, checksums accumulate, decoding undoes encoding, searches agree, the hexdump shows its input, URLs print as themselves and are split in order, paths are converted both ways, all answers are returned, threads get the message of their own error |
| `tasklet_stop_wait`, `address_map_key`, `network_taken`, `serialization_hole`, `varint_or_equal` | | the code does something else than its documentation says, section 7 |

**Why these bounds are enough.**
*Tasklet*: two calls have to overlap to disturb each other, and a third client
lets a signal arrive while two others are at different steps; a tasklet holds
two contexts at most (the one it swaps in and the one it joins), so five
contexts let both tasklets do so while one identity is free to be reused.
*Queue*: with three nodes a list holds the dummy and two values, or one while a
node is private to a producer and is reused after a `pop()`; three threads are a
producer and two consumers or the other way round. The proofs cover the rest.
*LockPolicy*: two proxies of one mutex, and a third thread for a lock that is
contended again and again.
*Network*: six hosts admit gaps at the front, in the middle and at the end, two
are the smallest network the code handles as documented; clients reserve hosts
of both, of one, of none, and an address of another family.
*Addresses and masks*: bytes have two bits; IPv4 addresses have two of them, IPv6
ones three, which are a first, an inner and a last one, and paths two, one of
which may be the zero at their end. `NetworkLimit` is 4, so that there are IPv6
masks on both sides of it and all masks of IPv4. `ClientAddresses` and
`ClientPorts` hold an IPv4 address next to the last one, IPv6 ones with and
without a byte to carry, every path, no port and the largest one; all buffer
sizes from none to one too many are tried. The proofs cover the other sizes.
*Cidr*: four tokens, and one more in brackets, hold every documented form and
one token that does not belong (`MaxTokens`); the addresses (`Given`) are one of
each family, the numbers (`Runs`) are none, the largest mask of either family,
and a port that does not fit. The proofs have texts of any length.
*IpPacket*: headers of full size with a byte behind them, and one of no version.
*Numbers*: units of two bits, of which a varint has one for its mark; integers of
two units and varints of up to four, which fill the buffer (`BufferSize`);
operands of five bits (`BaseBits`), of which all pairs are tried;
checksums of four bits (`CrcBits`), over up to five bytes (`MaxBytes`) of two bits
(`OctetBits`) in every division into calls. The proofs have every size.
*Texts*: the alphabet has NUL, the percent sign, digits and letters in both
cases, and characters of neither kind; three characters (`MaxLength`) are an
escape and what is cut off from it, and needles of two (`MaxNeedle`) can
overlap in it; the proofs have texts and needles of any length. The hexdump has inputs of two full lines and a byte more, with two
groups; URLs are a start with the separator, without it, or with what becomes
one, and four more of the
delimiters and letters (`MaxUrl`), so that delimiters come in every order, keys
occur twice and what is printed goes on; one letter is printed as another
("," as "-"); paths have two names of up to three characters, among them the
delimiters and the colon of a drive.
*ErrorText*: two threads suffice to disturb a message; the proof has any number.

`MCValues` combines components that have nothing in common. Those about which
theorems are proved it extends, so that their assumptions about constants are
evaluated with the constants of the run; `Hexdump` and `Paths` are instances. A behaviour
exercises one of them (`part`) and the others stand still, so that every
component has its full state space. `CHECK_DEADLOCK FALSE` is set for `values`
alone, where a checksum of full length, a network of the largest kind, a text
or a path of full length leave nothing to do.

**Client discipline.** In the passing tasklet runs `start()`, `stop()` and
`wakeup()` overlap freely, while a constructor, `wait()` or the destructor is
the only call on its tasklet; `tasklet_stop_wait` shows what happens otherwise.
In `network_pool` clients name only host addresses with port 0;
`network_taken` shows why. A client that puts a URL together percent encodes
only what `urlencode()` does or what that prints, and so no slash, and writes
"%" only to encode: section 7 says what becomes of an encoded slash.

## 5. Fairness

The calls and the threads of `Tasklet`, the queue's producers and consumers, and
the step of `LockPolicy` that takes a mutex have strong fairness; its other
steps, which nobody can disable, have weak fairness. A step that needs a mutex
is disabled while another thread has it, so weak fairness would let a thread wait for ever for a
mutex that is taken and released again and again. Strong fairness says that it
gets one in the end; that is what a system scheduler gives to threads that
block, and a spinlock to threads that test it at random times. It is stated for
threads within a call and never for clients: nothing makes anyone call `start()`
or `stop()`, nothing makes a proxy's reference change, and nothing makes a
thread wake up without a notification, so that no property holds thanks to a
timeout of `nanosleep()`. `LockPolicy` has a client that leaves a scope it
entered, which is what a scoped lock is.

`PushCompletes` and `ConsumersComplete` are implications, with `FairProducers`
and `FairConsumers` on the left, each assuming fairness of one side only: the
other side may stop in the middle of a call, holding its lock. `size()` terminates in the model because the nodes
are bounded; in the code it may chase producers for as long as they push faster
than it walks.

## 6. The proofs

All safety properties of tasklet, concurrent_queue, lock_policy, sys_error,
resolve, ip, network, cidr, url, serialization, checksum, types_varint, of address
objects and of encoded texts are theorems. They hold for any number of threads, tasklets, contexts, nodes, values,
proxies, mutexes, codes and answers, and for bytes, addresses, masks, ports,
integers, buffers, polynomials and texts of any size. The end of this section says what is left to TLC, and why.

**`TaskletProofs`.** The invariant has four parts. `TypeOK`. `CallsHaveObjects`
says that a call within its steps has a tasklet and a context. `LockInv` says
that a thread between its test of the flag and its block holds the mutex
(`CheckUnderLock`), that a caller which swaps does (`SwapUnderLock`), and
`NoLostStop`: these three need each other, since a lost stop is precisely a flag
cleared between the test and the block. They hold whatever calls overlap
(`TypeCorrect`, `NoStopIsLost`). `ClientInv` is needed for contexts: calls that
use one are in place, exclude each other as `MayOverlap` says, and a context is
pointed to by its tasklet or by the one call that joins it. From it follow
`ContextsAreAlive`, `JoinsAreSound`, `ThreadsAreUnique` and `StopIsTruthful`,
under `JoinsAreExclusive`, and with it `MutexHeld`, that whoever holds a mutex
is between its lock and its unlock, from which `DeletionsAreQuiet` follows.
`JoinsAreExclusive` says: clients overlap nothing but signals. The prover needs
that assumption, and the run `tasklet_stop_wait` shows that the code does too.
`NotificationsArrive` is about single steps: a notification by the thread's own
tasklet finds it blocked on a condition that only that thread waits on, or finds
it not blocked at all. It needs no more than that a condition which is not
shared has one thread, which follows from `ClientInv`.

Every step of a tasklet is a step of `RestartableThread` or a stutter, from the
same invariant (`TaskletImplementsThread`).

**`ConcurrentQueueProofs`.** `Inv` has the type, who holds which lock, that
`chain` is the list of the pointers, that `m_last` is its end or, within a
`push()`, the node before it, that each node is in the list, private to one call
or free, and how far a `size()` has walked. `ListStaysIntact`,
`LastStaysAtEnd`, `NodesStayAccountedFor` and `NoNodeUsedAfterFree` are parts or
consequences of it. The queue is mapped to `FifoQueue`: the values behind the
dummy are the sequence, `push()` takes effect with its store to `m_next`,
`pop()` when it unlinks or finds nothing, `empty()` when it reads, `size()` when
it has reached the end (`QueueIsLinearizable`).

**`LockPolicyProofs`**: a thread within a scope owns the mutex its proxy refers to,
and a mutex is owned by whoever took it; from these `LockPolicyMutualExclusion`
and `LockPolicyUnlocks`, given that references change only while unused.

**`PowersProofs`, `AddressProofs`.** What the code does byte by byte is arithmetic
on one number, and the lemmas say so. `Recursion` gives a recursive function of
the naturals from its first value and its step, so that `Number`, `Pow2` and
`Candidate` are what their equations say (`LeadingDefined`, `Pow2Defined`), and
`Induction` carries facts along it; bytes make one number and no other
(`NumberIsInjective`), they are the digits of it (`BytesOfNumber`,
`NumberOfBytes`), and a division of the number clears its last bits byte by byte
(`ClearBytes`). The invariant about objects is `DataType`: whatever clients
construct, copy from raw memory, count up, give a port and swap, each object
holds an address whose bytes are as many as its family has
(`ObjectsHoldAddresses`); for `swap()` this takes the three exclusive ors
(`SwapIs`). From it follow

* `AddressesAreKeys`: `++` leads to a greater address (`IncrementIsGreater`, with
  the carry of IPv4 and the byte of IPv6 that is counted), `<` orders addresses
  of one port that are not IPv6 (`LessIsOrder`: by their number, or for paths by
  the first byte that differs), and equal ones have one hash.
* `AddressesSurviveTransfer`: `deserialize()` finds in any part of what
  `serialize()` wrote the parts that were put together (`ReadsBody`,
  `ReadsTyped`) and checks their sizes first; and what the constructor from
  memory makes of the first bytes of a buffer has the hash of the original, if
  it makes anything (`RawKeeps`, by the first zero of a path).

**`NetworkProofs`**. A network is one of the netspecs that clients named
(`HasNetspec`), and of each of those `NetspecIsPrefix` says what `MaskIsPrefix`
does (`MasksArePrefixes`): the masks of the bytes together are a division of the
address by a power of two (`HiddenBits`, `ClearBytes`); counting up from the
network address ascends until the broadcast address, for IPv4 because the number
does, for IPv6 because the last byte does while none is carried.
`reserve_address()` compares the k-th reserved address with the k-th candidate.
If all candidates before the k-th are reserved and nothing else is, the k-th has
just k reserved addresses before it (`PositionOfNext`, by counting them), so
where it stops its candidate is free (`NextIsFree`); it does stop, since a last
reserved address cannot have all of them before it. `Inv`, that only candidates
are reserved, is kept by every call (`InvNext`) while they ascend and clients
name hosts (`Orderly`). Hence `ReservesOnlyNew`, for networks that count up
(`CountsUp`: IPv4 networks of more than one address, IPv6 networks whose
candidates differ in the last byte); and `NetworkIsPool`, the refinement of
`AddressPool`, for IPv4 networks that have hosts, since there the candidates are
all hosts (`Usable`), so that a full set of reserved ones has every host in it.
`NamesHosts` is the discipline of clients: `network_taken` shows that the code
needs it, and section 7 lists what it does with the other networks.

**`CallProofs`**. Of cidr: a parse depends on the places of a few tokens, and each text
that is printed has them in known places: `AloneIs`, `PrintedIs` and
`NetspecTextIs` compute for an address, an address with a port and a network
what `parse_extended_cidr()` takes for the address, the port and the mask. Of
any other text `ResultIs` says what a caller can get: an IP address with a port,
a part of nothing, or an exception, which does not depend on the port that was
given. `CidrIInv` says that the client's text consists of tokens and that its
network is an IP address without a port, with a mask that is not longer; it
takes `ResultIs` to see that `reset()` keeps it. `TextsReadBack` follows.
`FormsAreAccepted` goes the other way: from what the parse took for the address,
the port and the mask it recovers which tokens are in the text, one documented
form at a time, and that nothing else is left in it.

Of resolve: until an exception is raised, the families that were
asked and those still to be asked are those of the request, in order, and the
results are the addresses found so far (`Underway`, `ResolveIInv`); so at the
end they are all of them (`ReturnsEverything`). Of sys_error: a thread that uses
the buffer has asked for a code that the C library does not know
(`ErrorIInv`), so the buffer never holds the message of a known one, and a
thread that asked for a known code copies a constant (`ReportsTheError`;
`ErrorTypeCorrect` is the type). Of ip: each object holds the field of the
header it is for, if a call was made that asked for it when that field had
arrived, or else what it held before (`PacketInv`, `ReadsTheHeader`); a call
that fails at the destination has stored the source.

**`ValueProofs`**. Each of these functions of a sequence is recursive, or a loop,
so each argument has three parts: that the function is what its equations say
(`RecursionUpTo`), what it is after any number of steps (`InductionUpTo`), and
what follows when all of them were made.

*Serialization.* An integer modulo each power of two is what its last units make
(`IntReadsBack`). The units of a varint come from dividing on and taking one
off, so that the value falls with each of them and they come to an end
(`InputFalls`, `UnitCountIs`); reading adds the one again that writing took
(`VarintReadsBack`). `NeverRunsOutOfRoom` says that no value has more units than
`serialized_size()` claims. `SerialIInv` says that the buffer holds what the last call
wrote, one over the other, where `written` says so; `SerializedReadsBack`
follows. `SignedUnitsEndVarints` is about units that have a sign: none of them is
ever taken for one that goes on.

*Checksums.* What a bit does to the register is linear: it distributes over
symmetric difference, and so do any number of them (`IterValuesDistribute`). So
the register that a byte leaves is the table's element for its last bits and
what is shifted down (`TableStepIs`), and by induction along the bytes a register is
the one the definition has for their bits (`RegisterIs`). A chunk continues where
the one before it left off (`CallContinues`, `InvertedTwice`), which is
`CrcIInv`; `ChunksAccumulate` has chunks of any length, so unless a checksum is
taken for the default initial value, it does not matter how the data is divided
into calls.

*Encodings and searches.* After any number of turns of `urldecode()`, what was
encoded of a prefix is decoded (`UrlReadsBack`). The turns of `replace()` only
add to what they have put together, and end when nothing is left to find
(`LoopIs`); a text that lacks the character which is put in for the needle gets it only
where a turn put it, so the loop that goes back finds those places one by one
(`SideBySide`, `TurnThatFinds`, `ReplacedBack`). `ifind()` finds the place of
the first turn (`FirstTurn`, `FindsWhereReplaced`). `TextType`, that the text consists of
characters, is kept by every call. `EncodingsAreUndone` and
`FoundWhereReplaced` follow for texts and needles of any length, and every
alphabet.

*types_varint.* The partial sums of weights are what a number has in its last
bits, and the last weight, which is negative, makes them the number again
(`NumberOfBits`, `BitsOfRest`), so that the bitwise operators are arithmetic on
places (`BitwiseIs`) and shifts divide and multiply (`ShiftsAre`). The invariant `Operands` says that
both are in `VarintBase`; `OperatorsFitTogether` follows for every width.

*url.* The invariant `UrlInv` says that the text consists of letters and that a
URL is `Well`: its scheme has no colon and no capitals, its authority no slash,
its path is empty or starts with one, its query is of keys and values in lower
case (`QueryOf`), none of which is the word that is normalized, and if there is
no path, no slash is in the query or the fragment, and if there is no query, no
question mark in the fragment. `ParsedWell` finds this of what `parse()` returns;
the last two parts are needed, since `parse()` would look for its delimiters
there. `PrintedBack` says that `str()` of such a URL is parsed to it, if
`urlencode()` prints none of its characters as another (`AllComesBack`): the text
consists of six parts in known places (`SixParts`), each delimiter is first
where a part begins that it belongs to (`FirstFound`, `EscapedWithout`), and the
query is one parameter after the other (`Layout`), whose keys and values are
found where they were printed (`ParameterReads`, `QueryReadsBack`).
`UrlsPrintThemselves` follows, for texts of any length, with the parameters
in any order, and for whatever set of characters `urlencode()` keeps and
whatever it prints for the others. `UrlsSplitInOrder` compares a parsed URL with
its text, part by part. If the delimiters come in order, each of `parse()`'s
searches ends where one of them is, and no earlier one is in between
(`EndsInOrder`, `PartIs`). That `split_query()` finds the parameters takes
`ParametersSplit`: the places where it starts are those of the parameters as
they are defined, one for each (`ParameterStarting`), and the first `=` is within
one or behind it (`KeyLengthIs`, `ParameterTaken`).

**Assumptions.** Those about constants (`TaskletAssumption`, `QueueAssumption`,
`LockPolicyAssumption`, `ErrorTextAssumption`, `ResolveAssumption`,
`AddressAssumption`, `ObjectsAssumption`, `NetworkAssumption`,
`CidrAssumption`, `SerializationAssumption`, `CrcAssumption`, `TextAssumption`,
`UrlAssumption`, `VarintAssumption`) say that sizes are numbers and not zero, keep the kinds of
values apart, and say of what clients hand over what the constructors check:
addresses are of the size of their family, masks are not longer, `NETWORK_LIMIT`
is between the bits of the two families, the lower case of a letter is another
letter and no delimiter, and `urlencode()` keeps of the delimiters the slash
alone, prints the others as themselves and nothing as a slash, a capital or a
word that queries normalize. TLC evaluates all of them in the runs.
Theorems about clients that keep to a discipline (`JoinsAreExclusive`,
`NamesHosts`) name it as a hypothesis; the runs have clients that keep to it,
and others that do not.

**Only model-checked.** Liveness, which the prover does not do. The properties of
the hexdump and of paths. `ShowsInput` is about the layout of one line width at a
time and would need a proof of its own for each combination of columns and
groups; `ConvertsPaths` is about the same kind of functions as those of
`ValueProofs`.

## 7. Findings and disagreements

Five runs end with a counterexample to a sentence of the documentation.

* `tasklet_stop_wait`: `stop()` notifies through a context that an overlapping
  `wait()` has deleted (`tasklet.cpp:279`; the comment at 276-278 expects a
  spurious notification at worst).
* `address_map_key`: `operator<` goes on to the port, or to later bytes, when an
  earlier part is *greater*, so two addresses can each be less than the other
  (`socket_address.cpp:726, 732`; `socket_address.h:82` wants map keys).
* `network_taken`: once the network address is reserved by name,
  `reserve_address()` returns one address again and again (`network.cpp:313`;
  `network.h:133`, "Returns a new socket_address").
* `serialization_hole`: the varint 0x4000 takes two units of the three that
  `serialize_varint()` claims (`serialization/varint.h:120`; `:83`).
* `varint_or_equal`: `<=` and `>=` of a varint and an integer compare with `<` and
  `>`, so neither holds of equal numbers (`types/varint.h:409, 416`; `:39-40`, "it
  should behave very much like it's base type").

Further disagreements, met while the code was translated. The models compute
what the code does; where a property would fail, its antecedent or the instance
leaves the case out, and this list is the reason.

| Code | Behaviour | Documentation |
|---|---|---|
| `tasklet.cpp:269` | `stop()` during another thread's `wait()` sees the fresh context and returns false | `tasklet.h:149` "Returns true if the tasklet was in a stoppable state and is now stopped." |
| `tasklet.cpp:133` | of two overlapping `wait()`, the second may join and delete the fresh context | comment at `tasklet.cpp:145` |
| `socket_address.cpp:767` | the carry of IPv6 `++` is not cleared: `::ff` becomes `::1ff` | `socket_address.h:251` "Increment. Returns the address + 1" |
| `socket_address.cpp:854` | swapping an address with itself clears it | `socket_address.h:241` "Behave like a value type." |
| `network.cpp:139` | a network of one address (`/32`) hands out addresses outside of it | `network.h:133-134` |
| `network.cpp:293` | `out_of_range` is thrown when no address is free (`AddressPool` says so too) | `network.h:133-134`, `:149-150` "or nullptr if there are no available addresses." |
| `network.cpp:465` | releasing an address of the network that is not reserved returns false (`AddressPool` says so too; `test/net/network.cpp:287` has only an address outside of the network) | `network.h:166-168` "If the address is not in the network, false is returned. Otherwise, true is returned" |
| `network.cpp:344` | `mapped_address()` of a network of two divides by zero | `network.h:139` |
| `network.cpp:322` | a wide IPv6 network hands out addresses outside of it | `network.h:133-134` |
| `network.cpp:133` | a narrow IPv6 mask throws `domain_error` | `network.h:63-64` |
| `network.cpp:352` | the loop counter has 32 bits, so the loop does not end if the remainder of the hash has more | `network.h:139` |
| `network.cpp:539` | `operator<` of networks is no order across families | |
| `cidr.cpp:61` | false is returned for any text with a slash behind its start, so the address of a relative path with a slash has no family | `cidr.h:53-54` "It's possible that the address is of non-CIDR type, such as a local path." |
| `cidr.cpp:79` | `[::1]` without a colon is no address, and becomes a local path | |
| `cidr.cpp:123` | brackets are accepted around IPv4 addresses | |
| `cidr.cpp:153` | what follows the number of a mask is ignored, and a mask of `/0` refused | |
| `cidr.cpp:148` | a text refused for its mask leaves its address in the result | |
| `path.cpp:73` | a quoted slash takes the text before it with it | `path.h:30-31` "converts any unquoted backslash unto forward slash and vice versa" |
| `path.cpp:80` | a delimiter at the end of a path is dropped; `/` becomes `\`, and that the empty path | `path.h:30-31` |
| `path.cpp:117` | a relative name of two characters that ends with a colon becomes a drive | |
| `path.cpp:62` | `to_posix_path()` leaves doubled backslashes as they are, which `to_win32_path()` made | |
| `error.cpp:45` | two unknown codes share one buffer (and all codes would, with the XSI `strerror_r()`) | |
| `integer.h:137`, `varint.h:155` | with `char` units the sign is extended, and the mark of a continued varint is not seen | |
| `varint.h:164` | a varint of several units that ends exactly with the buffer is refused | `varint.h:127` |
| `varint.h:71` | the size of a negative varint is never returned | `varint.h:63` |
| `crc32.h:222` | a previous checksum equal to the default initial value starts anew | `crc32.h:212` |
| `hexencode.cpp:41` | the upper case digits have `D` for `C`, so `urlencode()` prints `,` `<` `\|` `\` and every byte with a digit C as another character, which `urldecode()` and `url::parse()` return; `PrintsItself` leaves out URLs with such a character | `urlencode.h:28` |
| `hexencode.cpp:114` | an odd number of digits is completed from behind the input | `hexencode.h:36` |
| `hexencode.h:336` | columns of several bytes show what an earlier line left | comment at `hexencode.h:335` |
| `url.cpp:145` | a slash is also found behind the first `?`, and delimiters behind the first `#`; `SplitsInOrder` leaves out these URLs | `url.h:48` |
| `url.cpp:158` | a percent encoded slash in the authority is decoded, and printed as one that ends it | |
| `url.cpp:220` | `operator<` goes on to the next part when one is greater, so each of two URLs can be less than the other | |
| `url.cpp:82` | the query is lower-cased before it is decoded | `url.h:52` |
| `resolve.cpp:150` | a name with a port and no host is looked up with an empty host | `resolve.cpp:151` "Need to provide a hostname." |
| `resolve.cpp:160` | a port that does not fit an `int` raises `out_of_range`, and one that fits no 16 bits is cut off | `resolve.h:46` |
| `resolve.cpp:166` | a lookup that fails leaves a partial result without an exception | `resolve.h:48` |

## 8. What is not modelled

* `fs_tmp`, `string_utf8`, `api`: one call of the operating system each.
* `exponential_backoff`, `cpp_hash`: floating point; a statistical property.
* `types`, `netincludes`, `version`, `logging`, `build`: no state.
* Of modelled components: `is_any()` and `is_loopback()`; comparison of networks;
  comparison, hashing and swapping of URLs; the digits by which IP addresses are
  written; local paths of a length at which they are cut off; which characters
  the hexdump takes for printable, and line widths that its columns do not
  divide; `replace()` of an empty needle; locales; the life of a mutex held by
  `shared_ptr`; the XSI and Windows variants of `strerror_r()`; a varint's
  streaming and hashing, which hand the number on.
* `std::set` is a set in `Network` and `Resolve`. While `operator<` is not an
  order (IPv6, or ports that differ) a real `std::set` may keep an element
  twice or not find it.

## 9. Plan

Done, in this order: tasklet, concurrent_queue, network with socket_address,
serialization, checksum, the text components, resolve, lock_policy; cidr, ip,
fs_path, types_varint, sys_error; proofs of the concurrent ones, of resolve and
of network; proofs of addresses as keys and in transfer, of masks, of headers, of
texts that are read back and of the forms that are accepted; proofs of
serialized numbers, of checksums, of encoded texts, of varints as integers and of
URLs that are printed and parsed.

Next: comparison of networks and of URLs, and `swap()` of URLs; theorems about
the hexdump and paths.
