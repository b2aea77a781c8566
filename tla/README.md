# Verification of cyclonedds-rs

TLA+ models of the Rust binding to Cyclone DDS (`cyclonedds/src`), of its derive
macros (`dds_derive/src`) and of its benchmark (`bench/src`, `scripts`), checked
with TLC on small instances and proved with TLAPS where that is possible. The C
library is not part of the repository; it is modelled from how the binding uses
it, and the definitions that stand for it are marked external in `PROJECT.json`.
Paths below are relative to `cyclonedds/src` unless they name another crate.

## Inventory

| Part | State | Operations | Talks to |
|---|---|---|---|
| `match_watch.rs`, `MatchWatch` | `Present` or `Absent{since, notified}` under a mutex | `new`, `update`, `is_absent`, `absence_deadline`, `mark_notified` | the matched callbacks (write), the watchdog and the polls (read) |
| `match_watch.rs`, `Watchdog` | entries (`Weak`), generation, a condition variable; one thread per process | `register`, `reschedule`, `scan`, `wait_for_next`, `run_once`, `run` | every watched reader |
| `futures.rs` | `ReaderShared`: `AtomicWaker`, `pending_error`, the watch | `read` (the future), `data_reader_listener`, `notify_absence` | executor, DDS callbacks, watchdog |
| `dds_reader.rs` | entity, listener, mode, read buffers | builder, `read_now`/`take_now`, `read_async`/`take_async`, CDR reads, status polls, drop | `futures.rs`, serdata |
| `dds_writer.rs` | entity, `AbsenceWatch` | builder, `write`, `forward`, `is_reader_absent`, `set_listener`, status polls, drop | watch, serdata |
| `serdata.rs`, `serdes.rs`, `sertype.rs` | reference-counted `SerData`, `Sample`, `SampleBuffer`; the tables of operations | what the C library calls for a type or a sample | C library, readers, writers |
| `util.rs` | `SGReader` position | `read` over fragments | serdata |
| `shared_registry.rs`, `dds_domain.rs`, `dds_participant.rs` | one map from domain id to leaked entity per kind | `get_or_create`, `create`, drop | C library |
| `dds_publisher.rs`, `dds_subscriber.rs`, `dds_topic.rs`, `common.rs` | entity handle, `Keepalive` of the parent | create, clone, drop | C library |
| `dds_listener.rs` | the boxed callbacks and the C listener | builder, setters, `hook`, trampolines, drop | C library |
| `dds_builtin.rs` | builtin reader, loans | `read_*`, loan return, properties | `futures.rs`, C library |
| `dds_qos.rs` | a `dds_qos_t` | setters, `Policy`, merge, clone, drop | C library |
| `dds_waitset.rs`, read conditions | handles, attached arguments | attach, detach, wait, masks, drop | C library |
| `untyped.rs`, `stats.rs` | handles, counters | thin | C library |
| `dds_derive`, `interface_gen.rs` | a registry of definitions | two derive macros, IDL and `.msg` text | serde, ROS 2 |
| `bench/src` | processes, pipes, records | process cases, boundary and CDR cases | the library, RouDi |
| `scripts/bench_site.py` | the files of a site | build, index, page | - |

### What is hard here

* The **watchdog** is one thread for the whole process. It scans under its lock
  but announces without it, so everything it found may have changed; and
  `notify_one` is lost when it comes before the wait.
* An **asynchronous read** has one link to the outside, a waker slot. Samples,
  missed deadlines, matched callbacks and the watchdog arrive on other threads
  between any two steps of a poll.
* A **take** consumes samples before it judges them.
* **Shared entities** are created in one mutex and dropped in C code that tears a
  domain down when its last participant goes.
* **Serdata** are shared with the C library by reference count, while Rust owns
  the contents; they are decoded lazily and shared by everyone who holds them.
* **Entities** are deleted with their children; **listeners** are inherited by
  children; both while callbacks run.
* **Tables and texts must agree** although nothing but names ties them: thirteen
  events through four places each, two derive macros over one struct, three
  functions over the modules of an IDL.
* **Processes** of the benchmark fail, stop answering or are killed, and what is
  written of them must be true all the same.

`PROJECT.json` lists the hazards at their lines, with the properties that would
catch them and, where a property has an exception, what the exception is.

## Modules

| Module | Models |
|---|---|
| `MatchWatch` | the methods of `MatchWatch` as operators on `MatchState` |
| `Watchdog` | the watchdog thread, registration and the matched callbacks; extends `MatchWatch` |
| `AsyncReader` | the poll of `futures::read`, the reader's callbacks, the waker; extends `Watchdog` and takes its actions as they are |
| `ReadContract` | the abstract specification of an asynchronous read |
| `WriterWatch` | `is_reader_absent` by several threads, against the matched callback; extends `MatchWatch` |
| `DomainLifecycle` | `SharedRegistry`, and participants and domains, shared and owned |
| `EntityTree` | creation, clones and drops of every entity kind, listeners' boxes, builtin loans |
| `SampleRefs` | reference counts of serdatas between C, `Sample`, `SampleBuffer` and the reads |
| `CdrTransfer` | the bytes of a sample from `to_ser_ref` to `from_fragchain` and on |
| `TypeSupport` | sertypes, tables of operations, key hashes and the instance map |
| `SampleArrays` | the sample arrays the C library has a sertype allocate, resize and free |
| `Listeners` | fields, setters, trampolines and registration of the thirteen events |
| `Builders` | whose callbacks an endpoint runs, in which order |
| `StatusCounters` | statuses polled while callbacks take their changes away |
| `QosPolicy`, `QosHandles` | policies and their integers; who owns a `dds_qos_t` |
| `Waitset` | waitsets, read conditions, status masks |
| `DeriveMacros` | `#[derive(Topic)]` and `#[derive(DdsInterface)]` on one program |
| `InterfaceDefs`, `IdlModules` | the traversal of a type's definitions; the text made of them |
| `Lists` | filters and sorts, for `DeriveMacros`, `IdlModules` and `BenchSite` |
| `BenchProtocol`, `BenchCases` | a process case of the benchmark; its computations |
| `BenchSite` | builds of the benchmark's site and the page |
| `AsyncReaderProofs` | theorems about `MatchWatch`, `Watchdog`, `AsyncReader` and the refinement of `ReadContract` |
| `EntityProofs` | about `DomainLifecycle` and `EntityTree` |
| `SampleRefsProofs`, `CdrTransferProofs` | about the module of that name |
| `QosPolicyProofs` | about `QosPolicy` and `QosHandles` |
| `BenchProofs` | about `BenchProtocol` and `BenchSite` |
| `ComponentProofs` | about `Waitset`, `TypeSupport`, `StatusCounters`, `Listeners`, `Builders`, `SampleArrays`, `BenchCases`, `WriterWatch`, `InterfaceDefs`, `DeriveMacros` and `IdlModules` |
| `DataLemmas` | lemmas on numbers, sets and sequences that several of the proofs need |
| `MCAsyncReader`, `MCDomainLifecycle`, `MCEntityTree`, `MCSampleRefs`, `MCTypeSupport`, `MCDeriveMacros`, `MCInterfaceDefs`, `MCIdlModules` | instances for TLC |
| `MCDeadlines`, `MCComponents` | several models in one run (see Runs) |

What composes with what: `AsyncReader` is `Watchdog` with futures around it and
refines `ReadContract`; `WriterWatch` uses the same `MatchWatch` without the
watchdog; `QosHandles` extends `QosPolicy`. The other modules touch at
boundaries that one of them models and the other only names: which serdata a
read returns (`SampleRefs`) and what the batch is judged by (`AsyncReader`), who
runs for an event (`Builders`), through which trampoline (`Listeners`), and how
long its box lives (`EntityTree`).

### MatchWatch, Watchdog and WriterWatch

`watch[r]` is the `Mutex<MatchState>` of reader `r`. A step is what happens
between two acquisitions of a mutex:

* `client[r]` follows the reader's own threads: `create_async_with_watch`
  (`Create`), `Watchdog::register` (`Register`, then `NotifyOne`), the
  subscription-matched callback (`Update`, `Reschedule`, `NotifyOne`), the drop.
  DDS does not overlap callbacks of one entity, so one counter is enough.
* `pc` follows the thread of `run`: `ScanBegin`, one `ScanEntry` per iteration of
  `retain` (each watch has its own mutex and may change during the scan),
  `ScanEnd`, then without the lock `Mark` and `Wake` per expired reader, then
  `WaitForNext`. `WakePanics` is the arm of `run` that catches a panic.
* `entries` is the `Vec<Weak<_>>` as a set (its order decides nothing),
  `Referenced` is `Weak::upgrade` succeeding.
* `NotifyOne` reaches the watchdog only while it waits; `SpuriousWakeup` is what
  a condition variable may do at any time.

An instant is a number up to `MaxInstant`, the last one the platform represents:
`absence_deadline` answers `None` beyond it.

In `WriterWatch` a call of `is_reader_absent` is `Judge` (the watch, under its
mutex) and `Swap` (the exchange of `last_absent`); any number of callers may be
between the two. `hearing` says that the writer's listener still has the internal
callback, which `set_listener` replaces.

### AsyncReader and ReadContract

A poll is `PollRegister`, `PollTakeError`, `PollRead` (or `PollReadFails`),
`PollAbsence`, with everything else in between. `slot[r]` is the `AtomicWaker`,
`error[r]` the `pending_error`, `callback[r]` the callbacks that are due or under
way. A cache is a number of valid and of invalid (dispose, unregister) samples;
`Batch` gives the ways the C library may fill a buffer from it, and `PollRead`
judges the batch by its first sample as `readn_from_entity_now` does. `unread`
and `early` are history variables for the properties.

`ReadContract` knows no threads, wakers, deadlines or instants: per reader
whether silence is being measured and for how long, and whether a missed deadline
is owed to somebody; per task whether it waits or how it ended. `NoMatchedWriter`
is allowed only when the silence lasted the whole timeout without a break;
a missed deadline is reported once. `ImplementsContract` is the refinement.

### DomainLifecycle

The entities of the C library are `members` (the live participants of a domain),
`declared` (domains made explicitly) and `teardown` (domains inside
`dds_domain_free`): deleting the last participant of a domain that was not made
explicitly, or an explicit domain, puts it there until `dds_delete` returns.
`docs/domain-lifecycle.md` is what the repository knows of this. `entries` and
`shared` are the maps of the two registries, `lock` their mutexes.

`SharedRegistry::get_or_create` for participants is `LookupHit`, or `LookupMiss`
and then, with the mutex held, `CreateShared` or `CreateFails`; after
`resolve_key`, `Register` leaks the participant and enters it under both keys, or
`FindsActual`, `Discard` and `InsertAlias` drop it and enter the alias.
`ResolveFails` and `Unwound` are the early return of `resolve_key(&entity)?`,
which the constant `LookupMayFail` switches on. `DdsDomain::get_or_create` is one
call into C under the other mutex (`DomainMiss`, then `DeclareShared` or
`DeclareFails`); its key is known beforehand, so it has no aliases.

The two unsafe creates rely on what their Safety sections ask of the caller.
`MayOwn` is that promise at the beginning of a call and `MayShare` what it means
for the calls of others: either the domain has a shared participant, or nobody
else creates or drops in it. An owned domain is dropped only when no shared
participant lives in it: the documentation of `get_or_create_with` (line 174)
says that it does not protect from that. Dropping an owned participant that its
domain took along is the failure that `Drop` only logs.

### EntityTree

Two owners have to agree. C keeps `entity`, `up` (what an entity was created
under) and `args` (the callbacks boxes whose pointers it has, its own and the
inherited ones). Rust keeps per entity `value` (how far its value's life has
got), `handles` (how many the application has; the `Keepalive`s of others are
derived, `KeepersOf`), `own` and `next` (the listener it has and the one a
`set_listener` under way brings), and `box` per listener. Creating, dropping and
`set_listener` take one step per call into C, and a callback may begin before and
end after any of them. `CloneHandle` and the drops are those of whichever thread
has a handle; the fields of a value are dropped in the order of their
declaration. A creation that fails, and a `set_listener` that fails, are steps of
their own. Loans of builtin readers belong to buffers (`lent` for C, `loan` for
Rust).

Contract of C: `dds_delete` and `dds_set_listener` wait for the callbacks they
affect, and a handle's value is not given out again while somebody has it. An
owned participant may be dropped under its children, which its documentation
leaves to the caller; `OpenIsLive` is about values whose participant is open.

### SampleRefs, CdrTransfer, TypeSupport, SampleArrays

`SampleRefs` has a count `refc[s]` per serdata, as C does, and derives
`Holders(s)` from who really has one: the C core, the fragments that
`to_ser_ref` lent, the caches, the slots of buffers, and the pointers that
`dds_readcdr` and `dds_takecdr` hand out. A read is one step per reference, so
that a failing decode, an empty batch or an invalid first sample leaves it
anywhere. Three constants are what the application and the network do:
`Clears` (buffers are cleared before they are read into again), `Mixes` (a batch
may begin with a sample without data and go on with others) and `SharesDecode`
(two threads may decode one serdata at the same moment, which is a data race on
`SerData::sample`). The checked and proved instance is `Clears`, not `Mixes`, not
`SharesDecode`; `samples_reuse` is what `~Clears` brings.

In `CdrTransfer` a byte is its position in the sample as first written, so that
one in a wrong place shows. C asks for slices (`Lend`), the network cuts them anew
into fragments that may be missing, repeated, overlapping or out of order, and a
constructor assembles them; untyped topics pass on what came (`Forward`).
`CopyOut` calls `to_ser` as the C library declares it. `TypeSupport` keeps per
serdata its key, hash, table and type, and the instance map of the library, which
finds a serdata by hash and `eqkey` and may keep a copy until the domain is freed.
`SampleArrays` is the contract of the realloc and free functions, box by box.

### Listeners, Builders, StatusCounters

`Listeners` has the tables as the source spells them, each line of its own: which
field a setter fills, which field a trampoline reads and whether it passes a
status, which trampoline is given to C. `Builders` has sequences of callbacks per
event, application ones numbered and the crate's own being 0, through
`on_...`, `chain_...`, `with_listener`, `with_listener_builder`, `as_async` and
the watch. `StatusCounters` has the C library's totals and changes, which a
callback or a poll resets, and what each side was told.

### QosPolicy, QosHandles, Waitset

`QosPolicy` has a `DdsQos` as a record of the policies that `Policy` is about, with
widths as constants (`I32Max`, `U16Max`, `Infinity`), so that saturation and
"infinite" happen at numbers TLC can reach. `QosHandles` has objects of C and
the values that own or borrow them, through create, clone, merge, give to C,
lend, return and drop. `Waitset` has what C keeps (`attached`, with the argument of
each attachment) and blocks in `wait` while readers, conditions and arguments go.
The types do not tie an argument's lifetime to its attachment and do not make the
vector large enough; both are the application's part and guards of the model.

### DeriveMacros, InterfaceDefs, IdlModules

A program of two structs is expanded by both macros in any order; a field has a
type, attributes and a name made of character classes, where a keyword is one
character of the class of its language. The results are compared: key holders,
validation, names.
`InterfaceDefs` runs the recursion of the generated code as a stack of frames over
any graph of named types, with the registries' `visiting`, `seen_defs` and
`entries`. `IdlModules` has the text as its reader sees it: modules that open,
structs declared in the open modules, modules that close, and for every field
whether the scoped name it refers to had been declared.

### BenchProtocol, BenchCases, BenchSite

`BenchProtocol` has the runner, its two children and RouDi as processes with
program counters, pipes as sequences, DDS as samples that may be lost, doubled
or overtake each other, and a budget of `MaxFaults` failures: a file, a spawn, a
crash, a message, a killed runner. Every deadline of `bench/src/lib.rs` is an
action that may happen while its wait lasts. `BenchCases` is the search for
boundary payloads, the summary of latencies and the CDR cases. `BenchSite` has the
files a build writes, one step each, with a build that may die after opening a
file; and the page as operators on the index it fetches.

## Runs

| Run | Instance | Question |
|---|---|---|
| `deadlines` | watchdog: 2 readers with timeouts 1 and 2, clock to 3, 2 generations; writer: 3 callers, up to 2 readers, grace 2; benchmark: 2 messages, 1 failure | does what time must bring about happen, once and in time? |
| `async_read` | 1 reader, 1 task, 1 sample, clock to 2, 2 generations | no lost wakeup, reads end, samples before absence, and the contract |
| `async_shared_reader` | 2 tasks on 1 reader, one takes, one reads; 1 sample | are both outcomes truthful, the missed deadline reported once? |
| `lifecycle` | 2 threads, 1 domain with 2 keys, 3 handles, lookups that may fail | no create during a teardown, shared participants alive and single, arguments never ignored, nothing leaked, mutexes released |
| `samples` | 2 serdatas, 2 readers, 2 buffers of up to 2 slots in all, 1 fragment chain, 5 references | is every reference counted, does what a sample shows stay? |
| `tree` | one participant, group, topic, endpoint, builtin reader and buffer, 2 listeners, 2 handles | no callback on a freed box, no entity deleted under its owner, in whatever order values are dropped |
| `components` | fourteen small models in sixteen parts, below | each one's own |
| `async_stop`, `async_take_invalid`, `to_ser`, `samples_reuse`, `keys` | | the findings below |

`MCDeadlines` and `MCComponents` put models into one graph that share no
variable: the initial state chooses which one moves (`part`), the others stay in
one initial state, where their properties are checked as well. Nothing is
explored twice and no interleaving of unrelated models is. In `MCDeadlines` the
fairness of each model is that of its own module, restricted to the behaviours in
which it moves (`Moves`). The properties of `components`, by what they show:

| Property | Module | Shows |
|---|---|---|
| `AssemblySound` | `CdrTransfer` | a sample arrives as it was written, or not at all, however it is cut up |
| `CopyServes` | `TypeSupport` | the copy in the instance map is found again and can be freed |
| `ArraysSound` | `SampleArrays` | the boxes that live are those of the array, each once |
| `QosSound` | `QosPolicy` | what a policy builds is accepted and read back; what is read is bounded and builds again |
| `HandlesSound` | `QosHandles` | each `dds_qos_t` has one owner and says what was set through it |
| `EventsRouted` | `Listeners` | each event runs the callback set for it, with its own status |
| `ChainSound` | `Builders` | no callback is lost, the crate's own run first |
| `StatusesTold` | `StatusCounters` | every change is told once, to a poll or a callback |
| `WaitSound` | `Waitset` | `wait` hands out live arguments only |
| `DerivesAgree` | `DeriveMacros` | both macros agree on the key, the names and what they refuse |
| `DefinitionsSound` | `InterfaceDefs` | definitions come out complete, once and in order, or there is a reason |
| `TextsResolve` | `IdlModules` | modules balance and references resolve |
| `ReportSound` | `BenchCases` | boundary payloads, percentiles and CDR records are right |
| `SiteSound` | `BenchSite` | what was recorded stays, a finished build is listed, the page draws recorded values |

The bounds. Timeouts of 1 and 2 are the smallest of which one is nearer. The clock
must pass a timeout twice, so that a period can end and a second one begin:
`MaxInstant` 2 with a timeout of 1. At the last instant a deadline is no longer
representable, which is `checked_add` answering `None`; the clock stops there, and
the liveness properties are about deadlines that are representable.
`MaxGeneration` bounds the registrations and reschedules: 2 let a reader register
and a callback overtake the scan that found it, and `async_stop` has 3. One reader
is enough for the reads, because readers meet only in the watchdog, which
`deadlines` checks with two. Three callers of `is_reader_absent` are two that race
and one that finds the result. Two messages can overtake each other; one failure
may come at any step of any process and leaves the rest to clean up (the theorems
are for any number). Two threads are the two sides of a race for a mutex or a
teardown; three handles are one shared, one owned and one surplus participant. Two
serdatas in two buffers of two readers are the least in which one serdata has
holders of every kind while another one is decoded or evicted. `MaxReferences`
leaves out states in which more than five references are held at a time: every
kind of holder, two of them on each serdata and one to spare. One entity of each
kind is a whole path of the tree; two listeners are one's own and either the
inherited or the next one. The tree with two endpoints, or three listeners, has
millions of states and is not among the runs. What these bounds leave out is what
the theorems are for: all but three of the properties that are not about fairness
are proved for every value of the constants.

In `components`, three bytes in up to three fragments give every way of two to
overlap with a third; `I32Max` 8 lets `SUPPORT_INSTANCES` times a depth leave the
width and `Infinity` 3 lies between the durations 2 and 4; three types give a
cycle with an entry, a diamond and a namesake; two callbacks are one that a
builder replaces and one that it chains; three property lists have less than what
is asked for, one thing twice, and one that is no text; `U16Max`, `UsizeMax` and
`WireBytes` have a value at, below and beyond each limit of the arithmetic; three
builds and one crash are a build that dies, one that finds what it left and one
after that; `CHART_LIMIT` 2 cuts a history of three. The number of definitions,
programs and name classes is what the conditions in the source tell apart; the
sets are in the MC modules with a comment each.

Deadlock checking is on wherever somebody may always act again
(`AsyncRead`, `AsyncSharedReader`, `Lifecycle`, `Samples` and the runs that look
for their findings). It is off in `Deadlines`, `Components` and `ToSer`, where a
benchmark, a build, a traversal or a transfer ends and its model stops; in
`Keys`, where the library's domain is freed; and in `Tree`, where everything may
have been created and dropped.

### Fairness

* `Watchdog`: weak fairness of the watchdog's steps (one thread that the operating
  system schedules), of the clock, and of the calls that a callback has begun.
  Nothing obliges a writer to come or go.
* `AsyncReader`: weak fairness of the polls of a woken task (an executor polls
  what was woken), of callbacks that are due, of the watchdog and the clock. The
  calls that a matched callback makes take the watchdog's mutex, which the
  watchdog may lock again and again; their strong fairness (`ClientFinishes`)
  says that a thread is not starved at a mutex for ever. Samples, missed
  deadlines, calls and spurious wakeups are never guaranteed.
* `WriterWatch`: weak fairness of the clock, of a callback under way and of the
  second half of a call that has begun. Nobody is obliged to call.
* `BenchProtocol`: weak fairness of the steps of the runner and the children, and
  of each deadline of theirs (a clock that runs). RouDi, the network and the
  failures are free; in particular no child is obliged to answer before the
  deadline of whoever waits for it.
* `DomainLifecycle`: weak fairness of what a call that has begun still does: calls
  into C return.

## Findings

Each has a run that shows the behaviour from the code and a quotation in
`PROJECT.json` of what the repository says instead.

* **A mark on the wrong period** (`async_stop`). `Watchdog::scan` finds a period
  expired; `mark_notified` is called later, without the watchdog's lock
  (`match_watch.rs:107`). If a writer comes and goes in between, the mark lands on
  the new period, which `absence_deadline` then hides: the future wakes, is not
  absent yet, parks, and no one wakes it. `early` is the history of such marks;
  `StopWhenNoWriterUnlessEarly` shows that nothing else prevents the end.
* **A batch judged by its first sample** (`async_take_invalid`). A take that
  returns an invalid sample first answers `NoData` for the whole batch
  (`dds_reader.rs:545`): valid samples taken with it are lost, and valid samples
  left behind wake nobody.
* **Offset and size** (`to_ser`). The C library calls `to_ser` with the offset
  first; the functions of `serdata.rs:580` and `607` name the size first and use
  each in place of the other.
* **A buffer read into again** (`samples_reuse`). `set_serdata`
  (`serdes.rs:164`) drops the box of the serdata a slot held instead of giving its
  reference back. Only a buffer that was cleared is safe to reuse.
* **Equal keys** (`keys`). `serdata_eqkey` (`serdata.rs:353`) compares a hash that
  only `from_keyhash` fills: different keys compare equal, and equal keys compare
  different across the two origins.

Met on the way, without a run of their own:

* `get_or_create` counts on the drop of a surplus participant never being its
  domain's last one (SAFETY comment at `dds_participant.rs:188`). If
  `dds_get_domainid` failed on a new participant, the early return at
  `shared_registry.rs:65` would drop exactly that. `lifecycle` includes it;
  `NoCreateInTeardown` excepts it.
* `idl_type_ref` (`interface_gen.rs:170`) keeps empty middle segments that
  `middle_segments` drops; `TextsResolve` asks for resolved references only without
  them.
* Two nested pairs of namesakes with equal outer texts lose the inner definition
  without the panic that `interface_gen.rs:206` intends.
* Type names are not compared with keywords (`dds_derive/src/lib.rs:624`), field
  and module names are.
* `wait` passes `timeout_us` on as nanoseconds, and believes a count from C that
  may exceed the vector's capacity (`dds_waitset.rs:70`).
* A QoS given to a create call is never freed (`dds_qos.rs:482`), nor is the
  sertype of a topic whose creation fails; `forward` unwraps what may be missing
  (`dds_writer.rs:443`, `serdata.rs:299`).
* Two futures on one reader share one `AtomicWaker`: the one registered first
  sleeps until something else wakes it.
* `set_listener` of a writer with a watch takes the internal callback away, and
  `is_reader_absent` then judges by a watch that hears nothing.
* A run file of the benchmark's site that was cut off by a crash is never written
  again (`scripts/bench_site.py:662`), and a null metric is drawn as zero (350).

## Proofs

No theorem assumes more than the named assumptions of the modules on their
constants (finite sets, timeouts in `Nat`, `None`, `Null` and `NoCdr` apart from
the values they are told from), except where it says so in its `ASSUME`.
**Watchdog.** `TypeCorrect`. `AnnouncesOnce`: what is in the expired list was
unmarked when it was put there and only the watchdog marks. `NoLostReschedule`
(`WaitCovers`) needs `LookedInv`, because the promise concerns a blocked watchdog
only and says nothing of how it got there. While it scans, whoever has finished a
callback is still to be looked at, is covered by the nearest deadline or is in the
expired list; after the scan this remains so as long as the generation is the one
seen at its beginning; and only then does `wait_for_next` block.

**AsyncReader.** `ReadStepIsWatchdogStep`: a step of the composition is a step or
a stutter of the watchdog, so the watchdog's theorems carry over.
`WakeupsAreNotLost` and `AbsencesAreNotLost` need `HeardInv`: for each thing that
may have happened (a sample, an error, a marked absence), either its callback is
still to come, or the task is woken, or the poll has the check for it still
before it; and the waker in the slot is that of the reader's sole future.
`ContractImplemented` is the refinement of `ReadContract`, initial states and
steps: a period that the contract calls too short is never expired, because
`since + timeout` is compared with the same clock. `DataComesFirst` and
`TakesDeliver` assume `MaxInvalid = 0`: with invalid samples they do not hold
(findings).

**WriterWatch.** `ReportsOnce` and `VerdictsHold`. The invariant's core: while the
watch hears the callbacks and none is under way, it measures exactly when no
reader is matched, and from no earlier instant than the last one left. The balance
of reports follows `last` whatever verdicts overtake each other, because the
exchange decides alone.

**DomainLifecycle.** One invariant, `IInv` of `EntityProofs`. Its core: inside the mutex the
requested key stays missing; an alias equals the entry of its domain; the
participant just made is known to nobody else (`MadeInv`) and owned ones are never
registered (`OwnedInv`), so that no deletion hits an entry (`EntryInv`); two calls
that the promise keeps apart overlap only in a domain with a shared participant
(`PromiseInv`); hence only a domain without one is ever torn down
(`TeardownInv`). `RegistryIsSound` (from `SharedStaysAlive`, `SharedIsOne`,
`ArgumentsHonoured`), `NothingLeaks` and `CreationIsSafe` follow for any number of
threads, domains and handles; `OnlyOwnersTearDown` under `~ LookupMayFail`.

**EntityTree.** `EntityInv` strengthens the two properties by the shape of the tree
(`TreeInv`), by what keeps an entity alive (`LifeInv`: a live entity's value is
open, and what it is under is live), by the ownership of boxes (`BoxInv`: a box is
live exactly if one value has it, as its listener or as the next one), and by
where the pointers of C come from (`ArgsInv`: a live entity's callbacks are those
given to it or to what it is under, and a running callback belongs to a live
entity). `BoxesAreSound` and `AnyOrder` then say: a drop frees a box only after
C has deleted everything that may call it, and deletes nothing under an open
value.

**SampleRefs.** `RefsAreSound` and `ShownKept`, for any number of serdatas, readers
and buffers. `Counted` says that the count is the number of holders; it is
inductive only with `OpsOK` (what a read under way has already bound and what it
has still to bind) and `Exclusive` (C locks a reader during a read). Cardinalities
are handled by lemmas for one holder more and one less. The theorems assume
`Clears` and not `Mixes`, `ShownKept` also not `SharesDecode`.

**QosPolicy.** `PoliciesAgree`, for every width, depth, duration and limit: the
saturated product of a positive depth is not less than the depth, so a built QoS
passes the checks of C; the invariant remembers that a QoS built from a policy is
exactly `to_qos` of it and that only discovery brings an invalid history.

**QosHandles.** `HandlesAreSound`, for any number of handles. A handle is not
freed twice and is not used after it was freed because `HandlesInv` knows the
owner of each `dds_qos_t` (the Rust value, the sample it was copied from, a leak,
nobody), that an owned one is in exactly one variable, and that its values are
those set through it.

**BenchProtocol.** `NothingIsLeft`: a runner that wrote its record has reaped every
process it spawned, whatever failed; `BehindInv` ties the runner's stage to the
processes that exist by then. `RecordsAreTruthful` has two directions. That an
"ok" is earned needs what travels (`TakenInv`: only what was written is taken),
what is on its way to the runner (`SaidInv`: who says "ok" ended well, having taken
all in order) and what the runner made of it (`StatusInv`). That a run in which
nothing failed and no deadline passed is not recorded as failed needs all that
such a run may look like, the handshake step by step and the order of the messages
in the three queues between them: `CalmInv`, which TLC checked on the run's
instance before it was proved, and the longest proof of the project.

**CdrTransfer.** `SamplesArriveWhole`, for every length, every cut into slices,
every chain of fragments and any number of forwards. `TransferInv` says at each
stage what has been secured: the slices lent are a cut of a prefix of the payload,
the chain walked so far gave exactly the bytes up to where its fragments reach,
what was read is a prefix. `FlattenSeq` is recursive; that it joins slices one by
one is proved by the least number for which it would not.

**Waitset, TypeSupport, StatusCounters, Listeners, Builders, SampleArrays** (all in
`ComponentProofs`). `WaitHandsOutTheLiving`: who is attached is alive (`WaitInv`).
`CopiesServe`: the map files every instance in use under its name, hash and key
hash, equal names are one instance, and a serdata still says how it was made
(`TypesInv`). `EveryChangeIsTold`: the changes told and the one pending add up to
those that happened (`ToldInv`). `EventsFindTheirCallbacks` (`RoutedInv`).
`ChainsAreSound`: behind the event under way stand the callbacks promised to it,
minus those that ran, and the crate's own is still first (`ChainInv`).
`BoxesAreTheArrays`: the boxes alive are those of the array, each once, through
growth, a shorter read and the drop (`BoxesInv`).

**BenchCases.** `ReportsAreSound`, from three parts. `BoundariesAreNearest`: the
bisection ends at the payload next to the boundary, for any boundary and width,
because what it has excluded so far lies on the far side (`BoundaryInv`).
`CdrLinesAreTrue`: a CDR record tells the samples that were counted (`CdrInv`).
`SummariesAreTrue`: the sort is stated as some rearrangement in order; that there is
one (`SortsAll`), and that the fold of the sum stays between the extremes times the
count (`SumsUp`), are both proved by the least length for which they would fail.

**InterfaceDefs.** `DefinitionsAreSound`, for any finite program. `DefsInv`: the
calls under way are a path of fields from the root with distinct names, none of
them registered, so there are never more of them than types; whatever is registered has the
definitions of its fields before it; and a panic's witnesses are on the path or
in the registry. That the types are finite is an assumption: a program has as many as
its text.

**DeriveMacros.** `MacrosAgree`, for any structs with any fields. `DeriveInv` says
that each result is what its macro makes of the struct; the rest is about pure
operators. Three of them are loops: the filter that picks the key fields
(`KeptOf`), the automaton over a name (`SnakeIs`) and the one over the arguments of
`#[cdds(...)]` (`AttrsAre`). Each is stated by what it returns for the first n
places and proved by the least n for which that would fail (`FoldedUp`, `FoldMore`,
`PlaceByPlace`). `StructsAssumption` is what the syntax gives: fields have a name, a
type and attributes; `package = ...` has a string.

**IdlModules.** `TextsAreSound`, for any structs in an order where fields name
earlier ones (`IdlAssumption`, which is what `DefinitionsAreSound` shows of the
traversal) and any middle of the names. `TextInv`: the modules open are the first
segments of the current name, all structs before it are declared under theirs, and
a field refers to what had been declared then.

**BenchSite.** `SiteIsSound`. `SiteInv`: a run file holds what was first recorded for
it, and as long as none is cut off for good (`Clean`) whatever was listed can be
read and stands in the index as it was recorded. That files cut off stay so is what
makes this inductive: an index made of the commits' first documents, which is what
a build without any readable run writes, exists only once a file is cut off. The
sorts of the index and of the chart are stated by what they return (`Arranged`);
that there is such a list for a total order is proved by counting what lies before
each member (`ArrangedIs`).

Provers take neither spaces nor a lone `_` in a string, so the models write
`unsigned_short` and `underscore`. Where the code's conditions overlap and the first
one counts, `DeriveMacros` says IF ... ELSE IF: a CASE of TLA+ may choose any branch
that holds, though TLC takes the first.

**DataLemmas** holds what the others share about numbers, sequences and sets, folds,
filters and sorts. Its
`LeastNatural` (a non-empty set of naturals has a least one) takes the place of the
library's induction theorems, which take an operator as parameter.

Only model-checked:

* the liveness properties (`EveryDeadlineAnnounced`, `StopWhenNoWriterUnlessEarly`,
  `CallsComplete`, `LocksAreReleased`, `AbsenceNoticed`, `EveryoneEnds`), since
  TLAPS does not reason about fairness;
* the violations.

## Not modelled

* The C library beyond the definitions marked external; discovery and the network.
* Loans of a writer: `loan()` asks C for what the crate's sertype never offers, so
  it always fails and nothing follows from it.
* `set_trigger` of a waitset: it concerns waitsets attached to waitsets.
* Panics other than those of a waker in the watchdog; poisoned mutexes, which the
  code unwraps to the inner value everywhere these modules look.
* Alignment and byte order of CDR, which belong to the `cdr` crate.
* `generated.rs`, `build.rs` and the error table of `cyclonedds-sys`: declarations
  and nothing that runs. Statistics, error texts, logging.
* The untyped topic's own file and the builders that only pass values on.
* Of the benchmark: the metadata of the machine and the parsing of arguments. Of
  its site: HTML, styles and wording. The local server, the examples and the
  helper scripts are programs around the library.
* In `DomainLifecycle`, an owned domain dropped under a shared participant, and
  owners who break their promise: what happens then is undefined. In `Waitset`,
  attachments that outlive their argument and vectors without room.

## What is left

* An abstract specification of a sample's life (written, delivered, shown, gone)
  that `SampleRefs` and `CdrTransfer` both implement; today they meet in the reader
  of this document only.
* Two readers and two tasks in one liveness run of `AsyncReader`; the states are
  too many for the present module and would need a coarser watchdog.
