# A verification of `concurrent`

TLA+ modules for the synchronisation library in `src/`, checked with TLC on
small instances and proved with TLAPS for any number of threads, lists, nodes
and objects. Paths below are those of the repository; `bdrwlock.cpp` and
the like are in `src/src/`.

## 1. The system

| component | state | operations | built on |
|---|---|---|---|
| futex wrappers, `bdfutex.cpp` | none | `futex_wait`, `futex_wake`, `futex_lock_pi`, `futex_unlock_pi` | the kernel |
| read-write lock, `bdrwlock.*` | `gate`, `nreaders`; `write_modified` in each modifiable lock | `lock`, `unlock` of three classes, `try_write_modify`, `write_modify` | `futex_wait`, `futex_wake` |
| binary semaphore, `semaphore.*` | `gate` | `post`, `wait`, `try_wait` | `futex_wait`, `futex_wake` |
| PI lock, `bdlock.*` | `gate`, the owner's thread id and two bits | `lock`, `unlock` | the PI calls |
| hazard pointer domain, `HazardPointer.hpp` | the complete set of nodes, `free_list`, `gc_list`, each node's pointers | `HazardPointer`: construct, `Acquire`, `Release`, `Delete`, `Recycle`; `HazardPointerNode::Clear`; `HazardPointerList`: `Prime`, `Collect` | atomics, a mutex around `Collect` |
| collector thread, `HazardPointer.cpp/.hpp` | registered lists with ids and states, `active`, `thrd`, an event | `RegisterClient`, `DeregisterClient`, `Signal`, `Stop`, `Run` | a mutex, a binary semaphore, `Collect` of the lists |
| `semaphore` (wrapper of `sem_t`), `stacktrace.h` | | | not modelled, see section 8 |

How they interact. The locks and the semaphore share nothing but the futex
wrappers. A `HazardPointerList` may be registered with a `CollectorThread`:
`Delete` pushes a node on the list's `gc_list` and signals the thread, the
thread calls the list's `Collect`, and the list's destructor takes it off the
registry.

What is hard. Everything here is concurrency between single atomic accesses:
wake-ups that come between a test and the sleep it leads to, threads that
overtake the one that was woken, counts that two threads change, lists that are
pushed to and popped from at the same time, a scan that is stale when it is
used, objects that are destroyed while a thread works on them; the death of a
lock's owner; signals that end a system call early. `PROJECT.json` lists these
hazards at their lines, with the properties that would catch them.

What makes each component correct: a writer is alone, the count of readers is
exact and nobody sleeps for ever (read-write lock); each event releases one
caller and none is lost (semaphore); one owner, also after deaths, that can
unlock and knows of its waiters (PI lock); what is protected is not deleted, what is retired
is deleted once, nodes that nobody is bound to protect nothing, and the lists
stay lists (domain); no list is touched after it
is gone, no work is slept over, and the thread can be stopped (collector).

## 2. The modules

| module | what it is |
|---|---|
| `RWLock` | `futex_rw_control` and the three lock classes |
| `AbstractRWLock` | an atomic reader-writer lock with upgrade, implemented by `RWLock` |
| `RWLockProofs` | theorems about `RWLock` |
| `BinarySemaphore` | `binary_semaphore` |
| `EventFlag` | a flag that posts set and each wait takes, implemented by `BinarySemaphore` |
| `BinarySemaphoreProofs` | theorems about `BinarySemaphore` |
| `PILock` | `fu_lock`, with the kernel's half of the PI protocol |
| `PILockProofs` | theorems about `PILock` |
| `HazardDomain` | `HazardPointerNode`, `HazardPointerList`, `HazardPointer` |
| `SafeReclamation` | what such a domain promises its clients, implemented by `HazardDomain` |
| `HazardListLemmas` | what `push`, `pop` and `remove` do to a linked list |
| `HazardDomainProofs` | theorems about `HazardDomain` |
| `Collector` | `CollectorThread` and the lists registered with it |
| `CollectorProofs` | theorems about `Collector` |
| `SequenceLemmas` | lemmas on sequences without repetitions, for `PILockProofs` and `CollectorProofs` |
| `MCHazardDomain` | the symmetry set for TLC |

`map` in `PROJECT.json` gives the source lines of every definition.

### How state and actions correspond to the code

The variables carry the names of the members and locals. `pc[t]` names the next
access of thread `t` to shared memory, or `idle` outside the library; two
accesses are one step only where no other thread can tell, which a comment then
says. A definition whose name starts with `Mut` is a plausible bug used to test
the properties; no specification uses it.

*Futexes.* A thread that `FUTEX_WAIT` has put to sleep is a thread at a
`..._parked` label. `FUTEX_WAIT` compares the word and parks in one step, as
the kernel does; if the word differs (EAGAIN) the caller goes on. `FUTEX_WAKE`
picks any sleeper. With `Interrupts`, a sleeper may go on at any time (EINTR),
which `futex_wait` does not report.

*RWLock.* `op[t]` is the method being executed, so that `enter_gate` (two of its
exchanges differ only in what they store: `EnterGateCas`) and
`leave_gate` are written once and return to the right place, and so is the loop
that waits for readers, which is the same code in `write_lock`,
`try_write_modify` and `write_modify`. `lk[t]` is the class the caller uses;
the pcs `held_read` and `held_write` are the caller's critical section, as it
believes it to be. `FreshLocks` says whether a `fu_read_modifiable_lock` is
used for one `lock()`..`unlock()` only (`Done` then stands for
`make_modifiable_lock()`, whose result starts with `write_modified` false) or
again. The rules at the top of `bdrwlock.h` are kept: a thread that
has a lock does not lock again, and `write_modify` is called by a reader. The
destructor runs when all threads are idle.

*PILock.* The futex word is a record of the thread id and the bits
`FUTEX_WAITERS` and `FUTEX_OWNER_DIED`; the queue of waiters is the kernel's.
`Die` is the exit of a thread that has the lock: the kernel passes a contended
lock to the first waiter and sets `FUTEX_OWNER_DIED`. A lock nobody waits for
keeps the dead thread's id (no robust list is registered), and whoever then
calls `FUTEX_LOCK_PI` gets ESRCH, a critical error, which calls `abort()`. A
death, and a PI call that comes back with EINTR or EAGAIN, are possible in
every behaviour. The history variable `retried` records that such an error was
seen, and `lock()` then returns without the lock: mutual exclusion is stated
for behaviours in which it was not. After a hand-over by death the new owner's
`unlock()` throws before it gets to the kernel (the pc `thrown`), and the lock
stays where it is; `OwnerMayUnlock` says that this happens to the owner in no
other case, and `NoStrandedWaiter` says of such a lock only that the word names
an owner and waiters, and of any other that the owner has yet to unlock it, which
the bit `FUTEX_WAITERS` sends through the kernel.

*HazardDomain.* The clients share one location with a pointer to an object.
Each gets a node (`AcquireNode`: the constructor, or `Recycle` of an instance
that is not bound), reads the location through its `HazardPointer`
(`AcquireRead`, `AcquireStore`; also when it points to an object already), or
clears it (`Clear`), checks that the location still holds it (`Validate`: "clients are responsible
for checking that pointer has the expected value", `HazardPointer.hpp:95-96`),
and then uses the object (`protected`), releases it, or unlinks and deletes it.
`Prime` adds a node and pushes it on the free list. Nodes are numbered in the
order in which `Add` links them into the complete set, which is only ever added
to: its front is `nodes`, node n is linked to n - 1, and `end_node` is 0. The
member `all_haz_ptrs` and the locals of `Collect` and `remove` belong to the
one collector that has `collector_client_lock`, so there is one of each.
Each plain read is a load of its own, since the Makefile does not optimise. The
walk to the node in `remove` is one step: only the head of the gc list can
change under it, and the two reads of the link that matter, lines 348 and 357,
are two steps. `SerialDelete` and `SerialAcquire` say whether the application
keeps `Delete` out of `Collect`, and threads from acquiring nodes at the same
time. The code does neither and its documentation claims that neither is
needed; the runs with a flag off show what goes wrong (section 4), the runs
with both on show that nothing else does.

*Collector.* `clients` and `clientsID` are the two vectors of the code, side by
side. Each list has one application thread; of the list the model keeps
the objects on its `gc_list` (`retired`) and those that hazard pointers protect
(`hazard`). The list's `Collect` is two steps, the deletions and the test of
`gc_list` for its result, so that a `Delete` may come in between. The deletions
are one exact step: they take what is retired and not protected, and nothing
else. That is an abstraction: beside a `Delete`, the list's `Collect` is neither
atomic nor exact, as `HazardRemove` and `HazardScan` show, and what the runs of
`Collector` say is said of lists whose `Collect` does its work. `data_lock`
is a variable, since `Delete` and the compare-exchange in `DeregisterClient` do
not take it. A list is deregistered by its destructor only. The semaphore is one boolean: it comes from `Semaphore.hpp`, which
is not in the repository, and is taken to do what `EventFlag` states. The
destructor of `CollectorThread` does not overlap with the use of a list.

## 3. What is checked

| run | instance | shows |
|---|---|---|
| `RWLock` | 3 threads, signals (232 thousand states) | `MutualExclusion`, `ReadersCounted`, `NoLostGateWakeup`, `NoLostWriterWakeup`, `NeverAborts`, `UpgradeExcludesWriters`; `RWLock` implements `AbstractRWLock`; a writer through the gate is admitted; the gate is passed |
| `BinarySemaphore` | 4 threads, signals | `NoLostWakeup`; implements `EventFlag` with its fairness |
| `PILock` | 4 threads that may die, EINTR and EAGAIN | `MutualExclusion` unless a call was retried, `OnlyOwnerReleases` and `OwnerMayUnlock` always, `NoStrandedWaiter` (in full unless a call was retried or the lock came by a death); without deaths and retries, `NeverFails` and `LockEventuallyAcquired` |
| `HazardSerial` | 2 clients, 2 collectors, 3 nodes, 2 objects, symmetry (637 thousand states) | `ProtectedStaysAllocated`, `NeverFails`, `ListsIntact`, `NodeBoundOnce`, `UnboundNodesInert`, `NoObjectLost`; `HazardDomain` implements `SafeReclamation` |
| `HazardLiveness` | 2 clients, 1 collector, 2 nodes, 2 objects (70 thousand states) | `RetiredEventuallyDeleted` |
| `HazardOvertaken` | 1 client, 1 collector, 3 nodes, 2 objects (28 thousand states) | `NonBlocking`, `RetiredEventuallyDeleted` |
| `Collector` | 2 lists, 1 object each, 2 registrations (157 thousand states) | `CollectedListsAlive`, `NeverAsserts`, `NoLostSignal`, `ThreadEndsFirst`, `RetiredEventuallyCollected`, `DeregisterReturns`, `StopEndsThread` |

Every module of a component has its type invariant, `TypeOK`, checked in one of
these runs. Deadlock is checked in all of them. The last two properties of
`Collector` allow for the crash in `Stop(true)` that `CollectorJoin` shows.

Bounds. Three threads on the read-write lock are a reader, an upgrading reader
and a writer, or one that leaves the gate, one that sleeps and one that
overtakes; the proofs of section 6 say that more change nothing. Four threads
on the PI lock are an owner that may die, two waiters whose order matters, and
one that overtakes. Three nodes allow one on each list and one bound, or two on
one list; two objects allow one to be protected while another is retired, and,
being reused when deleted, ABA on objects as well. Two collectors contend for
the lock of `Collect`. With two registrations two lists share the collector, or
one is destroyed and constructed again. `MaxNodes` is the memory for nodes
(`NewNode` throws when it is used up) and `IdModulus` bounds the registrations.
Liveness of the domain has two instances, since two clients and three nodes
(1.1 million states) are too many to search for cycles. `HazardLiveness` has two
clients, so that one protects what the other retires, and two nodes. In
`HazardOvertaken` one client has a third node to use while `Collect` has two to
deal with, which is what it takes to overtake `Collect` for ever: the client
acquires and releases its node, the head of the free list changes each time, and
the exchange by which `Collect` pushes the collected node fails each time. No
fairness of the scheduler excludes this; the lists are lock-free, not wait-free.
`NonBlocking` says that it takes another thread going through such a loop again
and again to hold one up, and `RetiredEventuallyDeleted` is stated for
behaviours in which no thread is held up for ever. Without that condition TLC
finds the livelock on this instance.

Fairness. A thread that can take a step of the library eventually does (weak
fairness: threads are scheduled), and callers leave their critical sections.
Nothing makes a caller lock, post, delete or stop. Strong fairness is assumed
of a caller's `unlock` in `RWLock` (an upgrade that fails returns to the
critical section, and a caller does not try for ever); of `Release` in
`HazardDomain` (a client does not set its hazard pointer for ever without
letting go) and of entering `Collect`, which is called again and again; and of a list's thread in
`Collector`, which needs a mutex that the collector holds for short times only,
and a compare-exchange that fails only while the collector works on that very
list.

## 4. Where the code and its documentation disagree

Each of these runs ends in a counterexample, to a statement that a comment, an
assertion or the README makes. `findings` in `PROJECT.json` quotes them.

| run | what happens |
|---|---|
| `RWLockReuse` | `unlock()` leaves `write_modified` set; a modifiable lock that is used again takes a read lock for a write lock |
| `HazardRemove` | a push between two reads in `remove` makes it unlink the wrong node |
| `HazardScan` | an object protected and retired after the scan of its node is deleted |
| `HazardPop` | ABA in `pop`: two hazard pointers share a node |
| `CollectorJoin` | `Stop(true)` joins through a pointer that the thread has just cleared |

The runs of the domain with a flag off do not check for deadlock: after a failed
assertion the process is gone.

Also seen while modelling, without a run of their own; the properties of the
passing runs are worded accordingly:

* the gate is not first come, first served (`bdrwlock.h:51-52`): a newcomer may
  enter ahead of a thread that was woken;
* `assert(vsampled == 0)` (`bdrwlock.cpp:97`, with `TESTING` defined) is in the
  branch where the sampled value is 1;
* `futex_lock_pi` lets EINTR and EAGAIN pass (`bdfutex.cpp:106-114`), and
  `fu_lock::lock()` returns without the lock. This depends on the kernel
  returning them, which the code provides for; hence `retried`;
* `futex_unlock_pi` masks out `FUTEX_WAITERS` only (`bdfutex.cpp:129-130`);
  `MASK_OUT_FUTEX_OWNER_DIED`, line 118, is used nowhere. When an owner dies and
  the kernel passes its lock on, the word has the bit `FUTEX_OWNER_DIED`, the new
  owner's `unlock()` throws "unlock attempted without prior locking"
  (`bdlock.cpp:44`), the lock stays with it, and whoever waits is stranded. Hence
  the exception for `gate.died` in `OwnerMayUnlock` and `NoStrandedWaiter`;
  without it TLC finds both violated;
* `Delete` asserts that its node's pointer is NULL (`HazardPointer.hpp:154`)
  after it has published the node on the gc list. Unless something keeps
  `Delete` and `Collect` apart, `Collect` may free the node in between, and
  another client acquire it and set its pointer: the assertion fails;
* a node released while it points to nothing goes on no list
  (`HazardPointer.hpp:136`, 661), a fourth case beside the three of
  `src/README.md:25-28`; it protects nothing (`UnboundNodesInert`), but is never
  used again: `Acquire` of an empty location and `Release`, time and again, use
  up memory until the list is destroyed. `Delete` drops such a node, too;
* `DeregisterClient` leaves the list's `collector_thread` set
  (`HazardPointer.cpp:89`). A list that the application deregisters is
  deregistered again by its destructor, which fails the assertion at line 66;
  hence `Collector` has lists deregistered by their destructor only;
* when `id_value` wraps (`HazardPointer.cpp:52`, 120), a list may get the id 0,
  and the scan, which starts with `curr_id` 0, never looks at it. The run
  `Collector` has `WrapIds = FALSE`; with `WrapIds = TRUE`, `IdModulus = 3` and
  one list that is constructed again and again, TLC finds
  `RetiredEventuallyCollected` violated;
* `Collect` of an empty list returns false (`HazardPointer.hpp:517`), which the
  comments at 193-194 and 512-513 call incomplete.

## 5. Mutants

Every property of a passing run has a mutant in `PROJECT.json`: a definition
with a plausible bug (a dropped wake-up, a missing re-read, an exchange without
a comparison) under which TLC finds the property violated in the same run.

## 6. What is proved

`RWLockProofs`, for every finite set of threads, with or without signals,
assuming `FreshLocks` (`RWLockReuse` shows that this is needed):

* `TypeCorrect`, `WriterAlone`, `CountExact`, `AbortFree`, `UpgradeSafe` and
  `WriterWakeup`: the type invariant and the safety invariants of the run
  `RWLock`;
* `GateWakeup`: `NoLostGateWakeup`, without the assumption;
* `Refinement`: every step is a step of `AbstractRWLock` or a stutter.

The argument. Mutual exclusion does not carry itself: that a writer is alone
follows from `nreaders` being -1, which means that nobody is counted as a
reader *if* the count is exact, and it is exact only as long as one thread at a
time has passed the gate. So the inductive invariant has these parts:

* `Typed`: the variables' types;
* `Locals`: a thread's method, class and flag agree with where it is, so that
  `unlock()` undoes what was locked (this is the part that needs `FreshLocks`:
  an idle thread's `write_modified` is then false);
* `ExpectedRange`: the values `enter_gate` has seen;
* `GateExclusive`: at most one thread is inside the gate, and the word is not 0
  while one is;
* `ReadersCounted`: the count, as a difference of cardinalities; its steps rest
  on lemmas on adding an element to a set and taking one away;
* `AdmittedAlone`: while a writer is admitted nobody is counted as a reader;
* `ValRange`: what a writer waits for is a count, never negative;
* `NeverAborts`.

Each part has a lemma that says that steps preserve it, with one case for each
action.

`BinarySemaphoreProofs`, for every set of threads: `TypeCorrect`, `Wakeup`
(`NoLostWakeup`) and `Refinement`, that `Spec` implements the safety part of
`EventFlag`. `NoLostWakeup` is inductive together with the types.

`PILockProofs`, for every set of threads: `TypeCorrect`, `Mutex`
(`MutualExclusion`), `WaitersKnown` (`NoStrandedWaiter`), `OwnerUnlocks`
(`OwnerMayUnlock`), `ErrorFree` (`NeverFails`) and the action property
`OwnersRelease` (`OnlyOwnerReleases`).
That at most one thread has the lock follows from `HoldersOwn`: unless a PI call
was retried, whoever `lock()` returned to is named in the word. This is kept by a
hand-over only because the queue holds exactly the blocked threads, each once
(`Typed`), and because whoever calls `FUTEX_UNLOCK_PI` owns the lock
(`UnlockerOwns`). `FreeWord` says that a word without an owner is 0 altogether,
so that the exchange in `futex_lock_pi` cannot succeed beside waiters
(`WaitersNamed`), and `OrderlyWord` what holds without deaths and retries, which
`NeverFails` needs. `OwnerActive` follows the owner beyond that: unless a call
was retried it is yet to unlock, or dead, in which case nobody is queued, or
`unlock()` has thrown, in which case the word has `FUTEX_OWNER_DIED`
(`OwnerMayUnlock`). This is what `NoStrandedWaiter` needs in order to say that
the owner is still there.

`CollectorProofs`, for every finite set of lists and any objects:

* `TypeCorrect`, `ListsAlive` (`CollectedListsAlive`), `AssertsHold`
  (`NeverAsserts`) and `ThreadEnds` (`ThreadEndsFirst`). The inductive invariant
  ties three views of a registration together: the vectors, the list's `state`
  with the pc of the thread that put it there (`StateOrder`: COLLECTING is the
  collector's, DELETING the destructor's, so the compare-exchanges exclude each
  other), and the list's `collector_thread` (`ClientOrder`). `ScanOrder` says
  when the collector has `data_lock` and a list in its hands, `OwnerOrder` how
  far `Stop` or the destructor has come. The theorems are about `Spec`, in which
  a list is deregistered by its destructor only (section 4 says why);
* `SignalsReach` (`NoLostSignal`), assuming `~WrapIds`. An id that wraps is the
  case that is excluded, as in the run `Collector`. Its invariant `SignalInv`
  adds that the ids grow along the vectors: a list whose id the scan has not
  reached yet is then also ahead of it in the vector, whatever is erased
  meanwhile, and a list that the scan has passed with work left has set
  `pending` or the event. Erasing an entry moves the later ones down; the lemmas on
  `RemoveAt` in `SequenceLemmas` say which.

`HazardDomainProofs`, for any clients, collecting threads and objects and any
number of nodes: `TypeCorrect`, `ProtectionHolds` (`ProtectedStaysAllocated`),
`AssertsHold` (`NeverFails`), `NodesBoundOnce`, `ObjectsKept` (`NoObjectLost`),
`UnboundInert`, `ListsKept` (`ListsIntact`), and `Refinement`, that the domain
implements `SafeReclamation`. All assume `SerialAcquire` and `SerialDelete`: the
runs `HazardPop`, `HazardScan` and `HazardRemove` show what goes wrong without
the one or the other. The invariants need both: with either flag off, TLC
finds each of them violated on the instance of `HazardPop` or of
`HazardScan`, but for `UnboundNodesInert`: it holds on the instance of
`HazardPop`, and on that of `HazardScan` the search ends before, where `remove`
reads through a NULL link.

The argument. A deletion is safe because Collect has seen every hazard pointer
that could still lead to a retired object (`Scanned`: the pointer's node is yet
to be scanned, or its object is in `all_haz_ptrs`). This holds because an
object can no longer be protected once it is unlinked (`Placed`: an object is in
the shared location, with the client that unlinked it, or retired with one node,
never in two of these), and because the node that protects it is not somebody
else's: `Owners` says that each node on the way to or from a list, bound, or
taken off the gc list belongs to one thread and is on no list. That in turn
needs to know exactly which nodes are on the lists after each `push`, `pop` and
`remove` (`AreLists`, `ListNodes`, `RetiredNodes`), and that what `pop` and
`remove` have read is still so when they exchange (`Popping`, `Collection`),
which is where the two flags come in. `Serial` is what the flags and
`collector_client_lock` guarantee, `Labels`, `Pushed` and `Pointing` tie locals
and pointers to labels. None of the properties is inductive without the others,
so they are proved together, with a lemma for each action.

Lists. `IsList` says that there is a numbering of different nodes along the
links that ends in `end_node`; the lemmas of `HazardListLemmas` show from it
what a walk from the head meets, and give the numbering after each operation.
The walk is a recursive function, and the induction theorems of the library
cannot be used here, so `IntervalInduction` derives what is needed from
cardinalities: if the induction failed at `k`, taking 1 away would map the
finite set of counterexamples up to `k` one to one into a smaller one.

Assumptions on constants: names are different (`NULL` is not an object, and so
on), `MaxNodes` is a natural number and `IdModulus` a positive one, and the
threads of `RWLock` and the lists of `Collector` are finitely many. Every
inductive invariant but for `IsList`, which quantifies over all numberings, was
checked with TLC on the instance of the component's run before it was proved.

Only model-checked: the liveness properties `WriterEventuallyAdmitted`,
`GateEventuallyPassed`, `LockEventuallyAcquired`, `RetiredEventuallyDeleted`,
`NonBlocking`, `RetiredEventuallyCollected`, `DeregisterReturns` and
`StopEndsThread`, and the fairness of `ImplementsEventFlag`. Liveness under
fairness is out of the prover's reach. Every invariant and every other property of the passing runs is a
theorem.

## 7. Plan

1. Done: read-write lock with its abstract specification and proofs; semaphore
   likewise; PI lock; hazard pointer domain; collector thread.
2. Done: `Prime`, `Clear`, repeated `Acquire` and the part of `Recycle` that
   works, in `HazardDomain`; `SafeReclamation` and its refinement; liveness of
   the read-write lock with three threads, and of the domain with three nodes.
3. Done: the invariants of `PILock`, `Collector` and `HazardDomain` and the
   refinement of `SafeReclamation` proved.
4. Open: action properties beside the refinements, such as that `Collect` deletes
   only what it found on the gc list; trimming what the longer leaves of
   `HazardDomainProofs` cite.

## 8. What is not modelled

* `class semaphore`: each method is one call on a `sem_t`, whose result it does not
  look at (so `wait()` returns when a signal interrupts it); it has no logic of
  its own and nothing in the repository uses it.
* `stacktrace.h`: output before `abort()`.
* `Recycle` of a bound `HazardPointer`, which reads through a null pointer
  (`HazardPointer.hpp:630`, 116), and the move constructor, which moves an
  uninitialised member into the source (`HazardPointer.hpp:594`): what follows
  is undefined, and one call shows it. This is why the domain is `partly`
  modelled.
* More than one `CollectorThread`: `~CollectorThread` leaves the state of its
  lists at `k_REGISTERED` (`HazardPointer.cpp:163`), so that they cannot be
  registered with another.
* `sem_rw_lock`, which is disabled with `#if 0`.
* Memory orderings weaker than sequential consistency: the atomics are taken to
  be single steps in one order.
* Destruction of a lock, semaphore or list while a call on it is in progress,
  which the comments forbid for lists and the classes do not provide for.
* Priorities: threads waiting for a PI lock are served in order.
