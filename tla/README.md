# u80211, specified and verified

u80211 is a portable 802.11 station layer: a driver hands it received frames, a kernel gives
it locks, works and timers, and a user scans, associates and transmits through it. Its logic
is a handful of small state machines that several threads drive at the same time, with no
thread of its own. This directory specifies them in TLA+, checks them with TLC on small
instances and proves what matters most with TLAPS for every instance.

Run a check with `tlc -workers 2 -config association_callers.cfg MCAssociation`, a proof with
`tlapm AssociationProofs.tla`. `PROJECT.json` names every run, the lines each definition
models, the defects each property is known to find, the hazards of the code and the findings.

## The system

| Component | State it keeps | Operations |
|---|---|---|
| Association (`association.c`) | the part of `u80211_device_t` under `association_spinlock`: state, `ap`, `disconnected_ap`, the current context, the context to clean up, generation, result, waiters, last sequence control; per attempt a context with a completion work and two timed works | associate, wait, disassociate; handlers of authentication, association response, deauthentication and disassociation frames; the duplicate filter; two timeouts; the completion work; the cleanup work |
| Scan (`scan.c`) | the scan state (channel, `receiving`, ring buffer, one timed work), waiters, under `scan_spinlock` | scan, wait, process a probe response, the scan work, the cleanup work |
| Ring buffer (`ringbuffer.c`) | data, two counters that run freely | init, destroy, write, read, peek, truncate, remove |
| Access points (`ap.c`, `ap.h`) | an atomic reference count | allocate, hold, release |
| BSS cache (`bss_cache.c`) | a red-black tree by MAC address, a count, under a rwlock; it holds one reference per entry | insert, find, remove, purge, list, count, init, deinit |
| Red-black tree (`rbtree.c`) | nodes with parent, children and colour | insert, remove, lookup, first, successor |
| Keys (`key.c`) | a list of keys with a receive and a transmit sequence each, under `key_spinlock` | set, delete, select, validate a received sequence, next transmit sequence |
| Data frames (`packet_data.c`, `packet.c`) | the transmit sequence control | allocate and transmit a buffer, process a packet, (de)serialise headers |
| Management frames (`packet_management.c`) | none | parse and build, dispatch to association and scan |
| Device (`device.c`) | all of the above | register, unregister |
| Michael, regulatory table, strings, lists | none of their own | pure functions |
| Kernel interface (`kernel_interface.h`, external) | works, timers, semaphores, locks | enqueue, enqueue delayed, free, wait, signal |

How they interact. `u80211_process_packet` runs on any CPU that received a frame and calls
the association, the scan or the data path. The association and the scan share the device's
`state`, changed by compare-and-exchange only, which is what keeps an attempt and a scan apart.
The scan inserts access points into the cache; the user takes one out, with a reference, and
passes it to `u80211_associate`. The transmit path reads the association's `ap` under its lock
and then the keys under theirs. Works that are queued and timers that are armed call back into
the association or the scan with a context that those allocated and free again.

What is hard. (1) Every handler that ends an attempt leaves the lock before it enqueues the
cleanup, and a request for a work that is already pending is ignored. (2) A context is freed
by a work while other works, timers and the thread in `u80211_associate` may still use it.
(3) Four kinds of events race for each attempt: answers, timeouts, teardowns, and answers that
come again or late. (4) References to access points are held by seven kinds of places.
(5) The scan hands records from the receivers to its work through a buffer guarded by a flag.
(6) A transmission looks at the keys in three separate critical sections, an installation
calls the driver outside of any. `PROJECT.json` lists each of these at its line.

What makes each component correct:

- Association: one attempt at a time, owned by one context; nothing handed over is lost;
  every waiter is woken, with the verdict on an attempt; references balance; works and
  contexts are not used after they are freed; attempts end.
- Scan: the records of a channel are read only when nobody writes; a state that is freed is no
  longer found; each scan visits each allowed channel once and ends; waiters are woken.
- Ring buffer: what is read is what was written, in order, whatever the counters are.
- Cache: one entry per address, count equal to size, an entry is freed only without holders.
- Tree: search order, no red node under a red node, equal black heights.
- Keys: no sequence number is transmitted twice under one installation of a key; no frame is let
  in twice; what the driver holds is what the list holds, unless calls about a key cross.
- Data path: every buffer is consumed exactly once; the offsets stay in the buffer.

## Modules

| Module | Models |
|---|---|
| `Association` | `association.c` whole, with the works, timers and semaphores it uses, the reference counts, and the scan's effect on the device state |
| `MCAssociation` | bounds, symmetry and frame sets for TLC |
| `AssociationProofs` | proofs: types, ownership of contexts, waiters, verdicts, cleanups, works |
| `AssociationReferenceProofs` | proofs: reference counts, and what follows for the attempt in progress |
| `Scan` | `scan.c` whole, with what it does to the BSS cache and to the radio, and attempts to associate as its environment |
| `MCScan` | channels, record sizes and symmetry for TLC |
| `ScanProofs` | proofs about `Scan` |
| `Keys` | `key.c`, and the paths of `packet_data.c` and `packet.c` that use it |
| `MCKeys` | identities, first sequences and symmetry for TLC |
| `KeysProofs` | proofs about `Keys` |
| `ByteQueue` | what a ring buffer promises |
| `RingBuffer` | `ringbuffer.c` whole; implements `ByteQueue` |
| `ScanRecords` | how `scan.c` writes and reads records in the ring buffer |
| `RbTree` | `rbtree.c` as operators on trees |
| `MCStructures` | ring buffer, records and tree under any calls |
| `RbTreeProofs` | proofs about the operators of `RbTree` |
| `RingBufferProofs` | proofs about `RingBuffer` and `ScanRecords`, and about the tree under any calls |
| `Directory` | what the cache and the reference counts promise together |
| `BssCache` | `bss_cache.c`, `ap.c` and `ap.h`, on a tree of `RbTree` |
| `Device` | `device.c`, with the cache and everything else that holds a reference; implements `Directory` |
| `MCDevice` | addresses and the bound on activity for TLC |
| `DeviceProofs` | proofs about `Device` and its cache: objects, references, entries, sweeps, and that it implements `Directory` |
| `InformationElements` | the elements of `packet_management.c`, read and written |
| `Frames` | headers and ciphers of `packet.c` and `packet_data.c`, reception, the management handlers, as operators |
| `Transmission` | buffers and `u80211_transmit_buffer` (`packet_data.c`), the frames `packet_management.c` sends |
| `MCTransmission` | keys, requests and lists of elements for TLC |
| `TransmissionProofs` | proofs about `Transmission` |

The modules meet where the code does: `Association` has the two transitions of the device
state that a scan makes, `Scan` the ones an attempt makes and its late `set_channel`; `Scan` takes
the ring buffer for a queue of whole records, `ScanRecords` shows that the records stay whole and
`RingBuffer` that it is a queue. `BssCache` runs on `RbTree`, `Device` on `BssCache`. `Device` takes
from `Association` the critical sections that move a reference, `Transmission` leaves open what
the link and the keys may be, which `Association` and `Keys` have in full.

### Association

One action is one critical section of `association_spinlock`, or one kernel call outside of
it. So a handler that decides under the lock and enqueues the cleanup after it is two actions
(`ProcessAssociation`, then `ReceiverEnqueuesCleanup`), and anything may happen between the two.

| State | In the code |
|---|---|
| `state`, `ap`, `disconnected_ap`, `association_*`, `received_sequence_control` | the fields of `u80211_device_t` of these names; an invalid sequence control is `None`; `association_generation` is counted modulo `GenerationSize`, as an `unsigned int` is modulo its width |
| `context[c]` | `u80211_association_context_t` in heap block `c`: free, live, or closing (access point released and timers freed, works not yet) |
| `completion[c]`, `timeout[<<c, s>>]` | where the context's works are: idle, queued, in the middle of their callback; a timeout may also be armed |
| `cleanup` | `association_cleanup_work`: whether it is pending, where its callback is, and that callback's local pointers. Pending and running are independent: a work may be queued again while it runs |
| `caller[t]`, `receiver[r]` | where a thread is in the function it executes, and its locals |
| `refcount`, `outside`, `lost` | `u80211_ap_t.refcount`; whether the cache or the user holds a reference; references to which no pointer is left |
| `fault` | which destroyed object has been used; `null` and `crash` stop the program |

The actions follow the file. `AssociateEnter`, `AssociateFail`, `AssociatePublish` and
`AssociateReturn` are the parts of `u80211_associate`; `DeauthenticateBegin` and `End` those of
`u80211_deauthenticate`; `WaitBegin` and `End`, `TransmitBegin` and `End` what the wait and the
transmission do; `ReceiveResponse` and `ReceiveData` the duplicate filter;
`ProcessAuthentication`, `ProcessAssociation` and `association_process_teardown` the handlers;
`TimerFires`, `association_timeout`, `TimeoutEnqueuesCleanup`, `CompletionBegin` and `End` the
works of a context; `CleanupTakes`, `Releases`, `Destroys` and `Finishes` the cleanup work.

Abstractions. A frame is its kind, the access point it comes from and whether it is a
success; it is taken to name that access point both as its source and as its BSSID. Any frame
may be received at any time, any number of times, which covers loss, repetition, delay and
reordering. Memory is a set of blocks; allocation may fail at any time. A block that a thread
still points to is not reused, so that a late use is seen as such. Undefined behaviour (the use
of something freed) either stops the program or has no effect; which of the two is left open.
Information elements, rates and the bytes of frames are left out. `u80211_wait...` calls that
return at once change nothing and are no actions.

The kernel: a request for a work that is pending is ignored, one for a work that runs is
not (`kernel_interface.h:82-89`, `tests/kernel_interface.c:282-314`); freeing a work cancels it
and waits for its callback (`:316-331`); freeing a timer cancels it and waits for nothing
(`:239-253`).

### Scan

One action is one critical section of `scan_spinlock`, one call to the driver, the cache or the
kernel outside of it, or one turn of the loop that empties the buffer.

| State | In the code |
|---|---|
| `state`, `scan_context`, `scan_waiters` | the fields of `u80211_device_t`; every state that belongs to the association is `ATTEMPT` |
| `scan[s]` | `u80211_scan_state_t` in heap block `s`: whether it is allocated, `receiving`, `current_channel`, `buffer` |
| `work[s]` | where its one timed work is: idle, armed, queued, or a place in `scan_work` |
| `scan_cleanup_work` | the argument of the cleanup while it is pending, and while its callback runs |
| `caller[t]` | where a thread is in `u80211_scan` or in the wait, or that its `u80211_associate` has yet to set the channel |
| `cache`, `held` | the access points in the cache, and those of which somebody else has a reference |
| `radio` | the channel the device listens on, as `set_channel` left it |
| `stray`, `visited` | observers: a late `set_channel` of an association has come since the scan's last; channels on which responses were let in |

`u80211_scan` is `ScanBegin`, `Publishes`, `Purges`, `Tunes`, `Opens`, `Returns`; `scan_work` is
`WorkCloses`, `Reads` (once per record), `HasRead`, then either `Switches`, `Tunes`, `Opens`,
`Returns`, or `Completes` and `EnqueuesCleanup`; `cleanup_scan` is `CleanupDestroys`, which waits for
the work as `u80211_kernel_free_work` does, and `CleanupFinishes`.

Abstractions. A response is the access point it is from and the channel it names, 0 for none;
it may name any, and come at any time, on any channel. Its record has a size, so that the buffer
is full after different numbers of them. `set_channel` is taken to succeed: the code ignores
what it returns. Calls that fail, and waits that find no scan, change nothing and are no actions.

### Keys

One action is one critical section of `key_spinlock`, or one call to the driver.

| State | In the code |
|---|---|
| `keys` | `device->keys`, a list of `u80211_key_metadata_t`; the bytes of a key are its `installation`, one for each call of `u80211_set_key` |
| `driver` | the key the driver has for each identity (index, peer and flags); external |
| `configurator[c]` | a thread between its call to the driver and its change of the list |
| `transmitter[t]` | where `u80211_transmit_buffer` is, with its header, key, cipher and sequence |
| `receiver[r]` | a CPU between `u80211_select_cipher_by_index` and the check of the sequence, or between that and the handler of the frame, which it was let in to under an installation |
| `given`, `accepted` | observers: sequences given to frames, and sequences let in, by installation |
| `disturbed` | observer: an installation or removal has been under way during this transmission |
| `crossed` | observer: identities for which a call to the driver was made while another thread was between its own and the list, and none since that met no other |

A sequence is what it is in the code: `SequenceSize` bytes, the least significant first.
`increment_sequence` and `sequence_is_newer` are translated as they work on the bytes; `Number` is
what they stand for, and only properties use it. A header is its first two addresses, from which the
code tells direction, group and peer; so a frame sent for another source counts as received, as it
does there. Michael codes, lengths and space in buffers appear as the choice to fail. Received
frames may have any header, index and sequence at any time.

### Ring buffer

`ByteQueue` says what each call does to a queue and returns. `RingBuffer` has the memory, not
initialised, and the two counters, and one action per call; `Contents` is the refinement mapping.
Calls do not overlap: the scan sees to that, and `ReadBeforeLeaving` is about it.

`ScanRecords` adds what a response does (room is checked for the header and the element together,
then two writes) and what the scan work does (two reads, the second as long as the first one says).
`RecordsWhole` relates the bytes of the buffer to the records that were written and not read, also
between the two calls.

### Red-black tree

A tree is a record of the root and the pointers and colours of its nodes, and each function of
`rbtree.c` is an operator from trees to trees. What the code has twice, mirrored, has a side as
argument; its loops are recursive functions, over nodes or over as many turns as there are nodes. A removed node's fields, which the code
leaves as they are until an insertion sets them, are reset, so that states do not differ by them.
`u80211_rbtree_check` walks a tree, changes nothing and reports nothing; it is left out.

### Cache and device

| State | In the code |
|---|---|
| `tree`, `entry_count` | `device->bss_cache`; what the compare functions compare is `Key`, a number for an address |
| `refcount`, `held` | `u80211_ap_t.refcount`, and how many of these references users have |
| `sweep` | the loop of a purge or of the cache's end: its iterator, whether the count it read was one, and (for the properties) what it has not come to |
| `stage`, `objects` | how far `u80211_register_device` or `u80211_unregister_device` has come, what is allocated |
| `ap`, `association_context`, `association_cleanup_context`, `disconnected_ap`, `taken`, `waking` | who holds references in the association; `taken` are the local pointers of `cleanup_association` |
| `work` | whether `scan_cleanup_work` and `association_cleanup_work` are queued and whether they run |
| `lost` | observer: references to which no pointer is left |

A call that holds the read/write lock once is one action. A sweep is taken entry by entry, and an
entry of a purge in two steps, for users hold and release without the lock: between the reading of
the count and the removal somebody may take a reference, who must have had one already.

`Directory` knows nothing of trees and counts: it has entries, uses, and says that an access point
is alive exactly while it is one or in use. Under `BssDirectory` the entries are the members of the
tree, `uses` is the sum over all holders, and `alive` is a count above zero; so that `Device`
implements it says that counts are exact, that purge drops what it finds unused and nothing else,
and that a sweep passes over no entry although the tree changes under its iterator.

A device is unregistered as the programs in `tests/programs` do it: the wait for the last attempt and the last
scan has returned, frames have ceased. `tests/programs/association.c` does so with a link up. The
cleanup works wake those who wait before they return, so they may still run, and a teardown's
cleanup may still be queued. That `u80211_unregister_device` drops the reference in
`disconnected_ap` but not the one in `ap` is what `lost` counts there: `NothingLeft` excepts exactly
this reference, and the one that a second teardown overwrites.

### Frames and transmission

`Frames` and `InformationElements` are operators. A byte of a packet is named for what it belongs to
and its place in that: the third byte of an address is `<<address, 3>>`. So a field that is read from
the wrong place, or from bytes of two things, is no value at all (`Value`), and nothing depends on
which bytes an address has. Michael codes are taken to differ for different texts; a byte of TKIP
that is computed from another is `Seed` of it. Sizes are reckoned modulo `SIZE_MAX_1`, which is
smaller than in the code and larger than any frame, so that an unsigned difference that passes zero is
seen. Elements are real bytes, for their identifiers and sizes decide what is read.

`Transmission` has the buffers. A descriptor is `data`, `size` and `current_offset` of
`u80211_tx_buffer_descriptor_t`, with what the driver allocated and the bytes from the offset on,
among which a byte that nobody wrote is `Unwritten`. `Begin` is the allocation and the
user who fills the buffer; then come the critical sections of `u80211_transmit_buffer`, each with
the work up to the next: `Transmit` (or `TransmitRefused`), `SelectKey` (`SelectNoKey`,
`IndexRefused`), `SelectCipher` (`Unsupported`), `prepare_ccmp_tx` or `prepare_tkip_tx`
(`NotPermitted`), `Serialize`. `SendManagement` is the four functions that send management frames.
`disposals` counts how often a buffer was freed or transmitted.

Reception keeps no state of its own, so `u80211_process_packet` is an operator: from a packet
to what the user or a handler is given. Whether a sequence is new and whether a frame is a
repetition, which do have state, are in `Keys` and `Association`. What an access point does with a
frame is external: it may relay data in each of the four forms of the two distribution bits, its
radio adds what the driver of this library leaves to it (the code of CCMP, the check of TKIP),
and it answers as the standard says. A frame may arrive cut off at any byte.

## Runs

| Run | Question | Instance |
|---|---|---|
| `association_callers` | do the types, hand-over of the cleanup, waiters, works, references and contexts stay sound when a new attempt starts while the threads, timers and works of the last one are still under way? | one access point, two contexts, two callers, one receiver, generations modulo 2 |
| `association_receivers` | do frames of two access points processed by two receivers at once keep the attempt, the verdict and the references sound? | two access points, of which one answers, one context, one caller, two receivers, generations modulo 1 |
| `association_liveness` | do attempts end, do waiters return, are references given back? | one of everything |
| `association_timer_use` | is a timer only used while it is allocated? No | one of everything |
| `association_request_null` | does the association request find an access point? No | one of everything |
| `association_request_freed` | does it keep that access point until the frame is built? No | one of everything |
| `scan` | is each scan in one hand at a time, do pointers, waiters, channel, radio and buffer stay sound, are all channels scanned, and does every scan end, does every wait return? | two callers, two scan states, two access points of which one has no valid address, channels 1 to 3 without 2 |
| `keys_transmit` | do frames, counters, ciphers and keys fit while keys change? | two transmitters, two configuring threads, two identities, two installations |
| `keys_receive` | is no frame let in twice, or after a later one? | two receivers, one configuring thread, two identities, two installations |
| `structures` | is the ring buffer a queue? Do records stay whole in it? Is the tree a red-black tree, and walked in order? | four places, calls with up to five bytes, counters up to 13, elements of up to one byte; eleven nodes |
| `device` | does the device implement the directory, does everything that runs find what it uses, and is nothing left behind? | four access points on three addresses, two references of users to each, one lost |
| `frames` | is every buffer consumed once and in its bounds? Is what arrives what was sent? | two users, frames of 13 and 16 bytes, keys of CCMP and TKIP, one of another cipher, one with index 4; any lists of three elements |

The bounds of the association. Two contexts are enough for an attempt and the leftovers of one other, and the
code admits no third: a cleanup that is pending refuses a new attempt. Two callers let one
thread be inside `u80211_associate` while another waits, transmits or disconnects. Two
receivers let two handlers of the same attempt overlap; a third would only repeat the second. What
needs several contexts or callers is checked in `association_callers`, what needs several receivers
in `association_receivers`.
A generation modulo 2 or 1 is harsher than the code's 32 bits: it makes a stale timeout see its
own generation again, so that what holds does not rest on the counter being wide. Two
sequence control values tell a repeated frame from another. `MCBound` in `association_callers`
and `MCNothingLost` in `association_liveness` stop exploration after a reference was lost once
or at all, which a teardown can repeat without end; `ReferencesExact` is checked up to there.
Caller names and context names are interchangeable in `association_callers` (no property
tells them apart), so it uses symmetry; the run with liveness does not.

The bounds of the scan. With two states, one scan can begin while the cleanup of another ends;
two callers let one scan while the other waits or associates, and since a scan goes on when
its caller has returned, that caller may join in. The run has no symmetry, for it checks liveness. The channel left out is between the
allowed ones, and the last one is allowed, so that both the skip and the end of the loop of
`next_channel` are met. The buffer has room for one large and one small record, or three small ones.

The bounds of the keys. One access point has two pairwise keys in `keys_transmit`, and a pairwise and a group key
of the same index in `keys_receive`. Two installations let a key be replaced while it is used, stand beside
another, or come from two threads at once. Sequences are two bytes of one bit: they carry, and they end, within three
frames. Nothing in the code keeps two threads from changing the same key, and in `keys_transmit`
they do. In `keys_receive` one thread changes keys: received sequences are compared within one
installation, and which thread made it does not matter; the proof is for any number.

The bounds of the ring buffer. The counters go round the memory three times, calls ask for more
than it holds, and two kinds of bytes tell places apart. The real counters are 64 bits wide and
never come to their end. A record is a header of one byte and an element of none or one; four places
are full after two to four records.

The bounds of the tree. Every tree that insertions and removals of eleven nodes can make is
reached, and from each of them every insertion and removal is tried. With eight nodes an insertion
recolours and then rotates one level up; with ten a removal goes up two levels to the root, or one level
and then rotates. Of the cases of the repair only one is out of reach, that the sibling is red after
it went up, which thirteen nodes do not make either; at the leaf this case is met. A
node with two children is met with its successor as a child and further down.

The bounds of the device. Two access points have the same address, so that an insertion that finds one is
met. A user has at most two references to each: one, and one taken in addition while a purge looks.
`MaxActivity` bounds what goes on at a time rather than how often: registering and
unregistering can be repeated without end. `CHECK_DEADLOCK FALSE` in these runs, since calls end
at their bounds.

The bounds of frames. `ETHERNET_MAX_FRAME_SIZE` is 16 instead of 1514, the headroom and tailroom
are the code's; a frame of 13 bytes is too short for its own header, one of 16 fills the buffer to its
end, so that what is written behind it must be in the tailroom. Two frames from the device suffice, for
two transmissions share only the sequence control and the key's counter. Elements
have the sizes at which something changes: 0, 1, 2, 8, 9, 32, 33; sets of rates have 0, 1, 7, 8, 9, 12 and all
128 members. Frames are cut at every byte.

Fairness (`FairSpec` of `Association`; that of `Scan` is the same): a thread that is in the middle of a call goes on, a queued work is run,
an armed timer fires, a receiver finishes its frame. That is what kernel threads, interrupt
handlers and timers do. Nothing makes a caller call, a frame arrive or anybody drop a
reference. Weak fairness is enough, since none of these steps is disabled by another for ever.

## What the runs found

1. `TimersUsedWhileAllocated` fails. `u80211_associate` arms the authentication timer, and the
   completion work the association timer, after the attempt may have been ended and its timers
   freed (`association.c:358`, `:222` against `:41-42`). The completion work is joined one line
   after its timer is freed.
2. `RequestFindsAccessPoint` fails. `u80211_send_association_request` reads `device->ap`
   without the lock (`packet_management.c:343`); a teardown or a timeout may have cleared it.
3. `RequestKeepsAccessPoint` fails. The cleanup drops the context's reference
   (`association.c:90`) before it waits for the completion work that reads the access point.
4. A second teardown before the cleanup has run overwrites `disconnected_ap`
   (`association.c:135`), and the reference in it is lost. `ReferencesExact` counts these in
   `lost` and shows that this is the only leak and that nothing is released twice.

`AttemptInProgressIsSafe` bounds the first three: only works and callers of attempts that have
already ended meet a destroyed object, never the attempt in progress: it is asked of the very step
that meets it.

Three things that are no findings, since no line of the repository says otherwise, but that a
user should know. A frame prepared while a key is being replaced may carry a number of the old
key's counter and be sent under the new key, which will use that number again:
`TransmitsUnderDriverKey` excepts such frames (`disturbed`) and shows that no others are concerned.
Two threads that change keys of one identity may reach the driver and the list in opposite orders, and
then the two hold different keys (`key.c:79-96`, `:107-119`) until the next call about this identity:
`ListMatchesDriver` and `TransmitsUnderDriverKey` except identities for which that may have happened
(`crossed`), and show that list and driver agree on all others.
And the `set_channel` of an association that has already failed may retune the radio under a scan
(`association.c:355`): `RadioOnChannel` excepts exactly that (`stray`).
And a device that is unregistered with a link up never drops the reference of that link: the access
point stays allocated for ever. `NothingLeft` excepts exactly this.

## Proofs

Every theorem holds for any values of the constants that satisfy the named `ASSUME` of the module it is
about. In each module the initial case is a lemma, the step has one lemma per kind of thread or
one step per action, and what many actions have in common is said once.

### Association

`ConstantsAssumption` asks that `None` is nothing else and that contexts and callers, which hold
references that are counted, are finite; access points and frames may be infinite, and the modulus
of the generation any. There are four layers, each inductive given those before.

- `OwnershipInvariant` (`AssociationProofs`): types, and who has which context. From it follow
  `TypeCorrect`, `AttemptOwned` (`AttemptOwnership`) and the action property `NoContextLost`
  (`HandOver`). `AttemptOwnership` alone is not inductive: to show that the cleanup work changes
  and frees a context that the device does not have, one needs to know that the pointer in
  its local variable is the one in `association_cleanup_context` (`CleanupLocals`), and to show
  that a published context is about an access point, that a thread inside `u80211_associate` has
  one (`CallerLocals`). The conjunction, `Ownership`, is also what rules out line 129 of
  `association.c`, the attempt without a context. `EndAttemptHandsOver` states once what the five
  handlers that end an attempt have in common.
- `ServiceInvariant` (`AssociationProofs` too): `AssociationWaitersServed` (`WaitersServed`),
  `VerdictsSound` (`VerdictSound`) and `CleanupsNotLost` (`CleanupNotLost`). `DeviceMoves` says in six
  cases, and one of no change, what any step does to the state, the verdict and the pending cleanup, `CallerMoves` what it
  does to a caller; the three promises follow from these without looking at handlers again.
- `CustodyInvariant`: `WorksStayOwned` (`WorksOwned`), with the stages a context goes through
  (`ContextStages`). A work or a timer is never queued for a context that is gone, because the
  cleanup passes from one stage to the next only when the joined work is idle.
- `AccountsInvariant` (`AssociationReferenceProofs`): `ReferencesStayExact` (`ReferencesExact`). The count
  of an access point is a sum of the cardinalities of three sets of holders. A step changes each of
  the sets by one element at most, so the lemma `Balance` turns what is left to prove of a
  step into an equation between numbers. `AttemptsInProgressAreSafe` (`AttemptInProgressIsSafe`) is an
  action property that needs all the layers: what is met destroyed is met in a step of a work or caller whose
  own context is not the device's.

### Scan

`ScanAssumption` leaves open the numbers of callers, scan states and access points, the allowed
channels, the size of the buffer and that of each record.

- `HandsInvariant`: `ScanInOneHand` (`SingleDriver`), `ScanPointersLive` (`PointersLive`) and
  `ScanWaitersServed` (`WaitersServed`). `Hands` says that callers, works and the cleanup
  exclude one another, each of them pairwise (`OneHand`, which is `SingleDriver` without the
  set), that what is in a hand is allocated and nothing else is (`InHand`), and that what
  receivers find has been published by a caller that still runs or belongs to a work that is
  not complete (`Published`): without the last, `complete_scan` clearing the pointer before it hands
  the scan over would not be seen to matter.
- `TurnsInvariant` adds the order of things in one scan: responses are let in only between the
  opening and the closing, the radio is on the scan's channel from when it is set, and a
  work past its reading loop has an empty buffer. It is inductive given `Hands`, which is what says
  that no other scan retunes the radio meanwhile. It gives `ScanRadioOnChannel` (`RadioOnChannel`) and
  the action property `ScanReadBeforeLeaving` (`ReadBeforeLeaving`). That `next_channel` returns a
  channel rests on the library's theorem that `<` is well-founded on the naturals.
- `VisitsInvariant` says of a scan on a channel that it has been on the allowed channels below it, and
  of one that is complete on all: `ScanVisitsEveryChannel` (`EveryChannelScanned`).
- `ScanTypeCorrect` (`TypeOK`) says that the records in a buffer never exceed its size. The size is a
  sum over a sequence, written as a recursive function; what the sum of a longer sequence is, is
  shown by the least length for which it would be wrong.

### Keys

`KeysAssumption` leaves open the numbers of threads, identities and installations, the length of a sequence
and its largest byte. The layers are `KeysTypeCorrect` (`TypeOK`); `InstalledOnce`, that every
installation is made once and reaches the list once, and is used by no frame before that; and
`CountersLast`, that the counters of a key stand at the last sequence that was used under it, whichever
frames are under way. Together they are `KeysInvariant` (`CountersFollowUse`). `ListMove` and `FrameMoves`
say once what a step does to the list and to a frame. From them:

- `SequencesFitCiphers` (`SequenceFitsCipher`), `SequencesStayFresh` (`SequencesFresh`: no sequence is used twice
  under one installation) and `SequencesCountByOne` (`SequencesCount`);
- `NothingIsReplayed` (`NothingReplayed`), for any number of receivers: each step that lets a frame in lets in
  a number above all that were let in before under this installation. The property looks at the steps of
  the receivers, so that a frame that is let in again with the same number breaks it.

What the loops of `increment_sequence` and `sequence_is_newer` do to a sequence of any length is proved
through its number in positional notation, again by a least counterexample: incrementing adds one, and newer
means a higher number.

`ListMatches` (`ListMatchesDriver`) and `FramesMatchDriver` (`TransmitsUnderDriverKey`) are proved for any
number of threads that change keys, transmit and receive, with no assumption on how they are
kept apart. They rest on `ListFollowsDriver`: as long as the calls about an identity have not crossed, at
most one thread is between the driver and the list with it, and the driver is where that
thread led it. A call to the driver that meets another marks the identity as crossed; one that meets
none clears the mark, for the list then gets what the driver got last, whatever the two held
before. `UndisturbedFrames` says that a frame that nothing came across was begun while nobody was between the
two.

### Ring buffer and records

`RingBufferTypeCorrect` (`TypeOK`) and `BufferImplementsQueue` (`ImplementsByteQueue`) hold for a memory of
any size and calls of any length. The refinement maps the memory between the two counters to
the queue; each operation is shown to be the queue's from one lemma about copies in two passes.
`RecordsStayWhole` (`RecordsAreWhole`, under the specification of `MCStructures`, which is any calls
of `ScanRecords`) holds for elements of any size that a header can say (`ScanRecordsAssumption`). The
conjunct it needs is `CallsMatch`: a receiver that has written a header still has the room for the
element, since `scan.c` looks for the room of both before the first write.

### Red-black tree

`RbTreeAssumption` asks that nodes are finite in number, `None` is none of them and keys are integers. The
theorems are about operators, for trees of any number of nodes:

- `InsertIsSound` and `RemoveIsSound`: from a tree that is `Sound` of some nodes, inserting one whose
  key is none of theirs, or removing one of them, makes a tree that is `Sound` of the nodes there
  should be. `EmptyIsSound` is where it begins.
- `SoundTreeServes`: in a sound tree the walks from either end meet every node in order, the members
  are those nodes, and a lookup finds the node with the key, or says that there is none.

`Sound` says that there is a set `U` for each node (what is under it) and a number `B` (how many black nodes are
on a way down). `Shaped` relates pointers, keys and `U` locally, node by node and its children; `Coloured`
relates colours and `B` locally. No property of whole subtrees is used, so a rotation is a change
of `U` and `B` at two nodes (`Rotates`, `RisenIsShaped`). That the sets shrink downwards, being finite, takes
the place of induction: a loop ends, and a recursive walk has a value, since a node with the smallest
set for which it would not cannot exist (`Lowest`).

While the tree is repaired it is not sound. `Clashing` is what the loop of an insertion keeps: all is
right but for one red node under a red parent. `Short` is what the loop of a removal keeps: all is right but for
one node, from which one black node too few is counted, when the leaf that is about to go is not counted.
Both say what the loop has climbed past is repaired, and each turn (the uncle red; the sibling red, its
children black, the near or the far one red) is a lemma. A node with two children
is first exchanged with its successor (`Exchanged`); the exchanged tree is `Sound` under the keys
exchanged (`SwappedIsShaped`), and under the true ones once the node has gone (`Rekeyed`).

`TreeStaysSound` (`TreeIsSound`, under the specification of `MCStructures`) follows: whatever is
inserted and removed, in whatever order. The run reaches its eleven nodes; the theorem has any number,
and with them the case of the repair that the run does not reach.

### Device

`BssCacheAssumption` asks that a user may hold a reference, `DeviceAssumption` that the bound on lost
references is a number; access points, as nodes of a tree, are finite in number (`RbTreeAssumption`).

`StagesOfDevice` says what is allocated, which works may be queued and whether the lock may be
taken at each step of registering, undoing and unregistering. `ObjectsStayLive` (`ObjectsLive`) and
`NoObjectLeaks` (a device that is gone has left no object, no queued or running work and no lock
that is held) follow, whatever the tree and the counts do.

`DeviceIsConsistent` adds what is in them. Its invariant, `DeviceInvariant`, has besides the stage:

- `LinkInvariant`: the association's pointers to access points, each with the reference it owns. An
  attempt's access point is the link's, and no context waits for its cleanup while an attempt is in
  progress; else its end would overwrite that context and lose its reference.
- `CacheInvariant`: the tree is `Sound` of the entries, `entry_count` is their number, and every count is that of
  the uses and the entry together (`ReferencesCounted`). A step uses some access points once more, or
  none (`UsedMore`), or one once less (`UsedLess`), or an entry joins or leaves the tree (`Joins`, `Leaves`).
- `SweepInvariant`: what a sweep has still to come to is an upper part of the order that begins at its
  iterator. That is what makes it indifferent to removals behind it: the iterator is the successor
  in the tree as it was before the removal, and `RemoveIsSound` says the rest has kept its order. An entry found
  unused is used by nobody until it is dropped, for references are taken only to what somebody has already, or
  under the lock, which the purge holds.
- `LinkOfStage` and `CacheOfStage`: from which step of unregistering on there is no link and no entry.

None of these is inductive alone: that an entry found unused stays so needs the counts, that counts do not
fall below zero needs the link, and that a freed access point is in no tree needs the cache.

From it follow `DeviceTypes` (`TypeOK`: no count falls below zero), `NothingIsLeft` (`NothingLeft`) and
`DeviceImplementsDirectory` (`ImplementsDirectory`). In the refinement each step of the device is shown
to be one of `Directory` or to leave its variables alone; a purge that drops an entry is the directory's,
because the entry was unused when its count was read and still is. The access points a user gets
at once are the first ones in order, as many as the user's buffer has room for.

### Transmission

`TransmissionAssumption` leaves open the users, the frame size, the keys, the rates and the strings;
the headroom, the tailroom and the sizes of headers are the code's. `BuffersInvariant` gives
`TransmissionTypeCorrect` (`TypeOK`, in which every descriptor stays inside what the driver
allocated) and `BuffersAreConsumed` (`BuffersConsumed`). How far a call has come says how much room is
left before the data, at least: 64 bytes when `u80211_transmit_buffer` begins, 32 until the 8 of the
cipher are put there, 24 until the header of the frame is serialized (`Held`), and that all bytes
from the data on are written (`Holds`). That the header takes no more than the 24 needs its control field: data to an
access point has three addresses. For management frames, the lengths of the elements are
reckoned as they are written; the number of rates is counted by an induction over the bitmap.

### Only model-checked

- Liveness, of `Association` and `Scan`: the prover does not reason about fairness.
- `ReceivedAsSent` and `ElementsAgree`: that reading undoes writing compares whole frames, cut at
  every byte, and folds over strings of elements: an induction over data.

## Plan

1. `AssociationService`, an abstract specification (one attempt, its verdict, its waiters, no
   contexts and no works) that `Association` implements under a refinement mapping, by
   `DeviceMoves` and `CallerMoves`.
2. The elements of fixed size of `ReceivedAsSent`.

## Not modelled

- The Michael checksum and the transmission powers of the regulatory table: their values are a
  matter of test vectors. `Frames` uses the first as a function that no two texts share a value of,
  `Scan` the channels of the second.
- `packet_count` with its two accessors, which nothing reads but diagnostics, and
  `u80211_rbtree_check`.
- Byte order and the intrusive list, which appear as the values and sequences they represent.
- The test harness, which is I/O; it was read for how the library is used.
- Drivers that fail: `set_channel` and `transmit` return what the code ignores or hands on. An
  `allocate_tx_buffer` that fails ends the call before anything is changed.
