---------------------------- MODULE DeviceProofs ----------------------------
(***************************************************************************)
(* Proofs about Device.  First, that what is allocated is what the calls   *)
(* and the works that run may use, from registration to the end.           *)
(*                                                                         *)
(* Then, that the cache keeps what Directory promises: a step gives        *)
(* references to some access points (UsedMore), takes one back (UsedLess), *)
(* or lets an entry join or leave, and one lemma says of each of these what*)
(* it does to the invariant and which step of the directory it is.         *)
(***************************************************************************)
EXTENDS Device, TLAPS, RbTreeProofs

\* What u80211_register_device has allocated when it returns.
Everything == {"device", "key_spinlock", "scan_spinlock", "scan_cleanup_work",
               "association_spinlock", "association_cleanup_work", "rwlock"}

\* What is left before a step of u80211_unregister_device.
Remaining(step) ==
  Everything \ ({"key_spinlock"}
    \cup (IF step > 2 THEN {"scan_cleanup_work"} ELSE {})
    \cup (IF step > 3 THEN {"association_cleanup_work"} ELSE {})
    \cup (IF step > 6 THEN {"rwlock"} ELSE {}))

\* The step of it that frees a work.
FreedAt(w) == IF w = "scan_cleanup_work" THEN 2 ELSE 3

\* The objects are those of the stage.
ObjectsOfStage ==
  \/ At("none", 1) /\ objects = {}
  \/ \E step \in 1 .. 7 : At("register", step) /\ objects = Undone(Allocations[step])
  \/ /\ At("up", 1) \/ At("unregister", 1)
     /\ Everything \subseteq objects /\ objects \subseteq Everything \cup {"key"}
  \/ \E step \in 2 .. 7 : At("unregister", step) /\ objects = Remaining(step)

\* A work is requested or runs until the step that frees it.
WorksOfStage ==
  /\ work \in [Works -> [queued : BOOLEAN, running : BOOLEAN]]
  /\ \A w \in Works :
       work[w].queued \/ work[w].running =>
         At("up", 1) \/ \E step \in 1 .. FreedAt(w) : At("unregister", step)

\* The lock is held for many turns by a purge, while the device is up, and at the
\* step that empties the cache.
IsSweep(s) ==
  \E by, iterator, unused, left :
    s = [by |-> by, iterator |-> iterator, unused |-> unused, left |-> left]
LockOfStage ==
  /\ IsSweep(sweep)
  /\ ~Unlocked => At("up", 1) \/ At("unregister", 6)

StageInvariant == ObjectsOfStage /\ WorksOfStage /\ LockOfStage

-----------------------------------------------------------------------------
(***************************************************************************)
(* The lists of what there is.                                             *)
(***************************************************************************)

\* What is allocated, in order, and what is there before each.
LEMMA ObjectsInOrder ==
  /\ DOMAIN Allocations = 1 .. 7 /\ Len(Allocations) = 7
  /\ {Allocations[i] : i \in DOMAIN Allocations} = Everything
  /\ Undone(Allocations[1]) = {}
  /\ \A i \in 1 .. 6 :
       Undone(Allocations[i + 1]) = Undone(Allocations[i]) \cup {Allocations[i]}
  /\ Everything = Undone(Allocations[7]) \cup {Allocations[7]}
<1>1. DOMAIN Allocations = 1 .. 7 /\ Len(Allocations) = 7 BY DEF Allocations
<1>2. /\ Allocations[1] = "device" /\ Allocations[2] = "key_spinlock"
      /\ Allocations[3] = "scan_spinlock" /\ Allocations[4] = "scan_cleanup_work"
      /\ Allocations[5] = "association_spinlock"
      /\ Allocations[6] = "association_cleanup_work" /\ Allocations[7] = "rwlock"
  BY DEF Allocations
<1>3. \A i \in 1 .. 7 : i = 1 \/ i = 2 \/ i = 3 \/ i = 4 \/ i = 5 \/ i = 6 \/ i = 7 OBVIOUS
<1>4. {Allocations[i] : i \in DOMAIN Allocations} = Everything
  BY <1>1, <1>2, <1>3 DEF Everything
<1>5. /\ Undone("device") = {} /\ Undone("key_spinlock") = {"device"}
      /\ Undone("scan_spinlock") = {"key_spinlock", "device"}
      /\ Undone("scan_cleanup_work") = {"scan_spinlock", "key_spinlock", "device"}
      /\ Undone("association_spinlock") =
           {"scan_cleanup_work", "scan_spinlock", "key_spinlock", "device"}
      /\ Undone("association_cleanup_work") =
           {"association_spinlock", "scan_cleanup_work", "scan_spinlock", "key_spinlock", "device"}
      /\ Undone("rwlock") =
           {"association_cleanup_work", "association_spinlock", "scan_cleanup_work",
            "scan_spinlock", "key_spinlock", "device"}
  BY DEF Undone
<1>6. ASSUME NEW i \in 1 .. 6
      PROVE  Undone(Allocations[i + 1]) = Undone(Allocations[i]) \cup {Allocations[i]}
  <2>1. i = 1 \/ i = 2 \/ i = 3 \/ i = 4 \/ i = 5 \/ i = 6 OBVIOUS
  <2>2. CASE i = 1 BY <1>2, <1>5, <2>2
  <2>3. CASE i = 2 BY <1>2, <1>5, <2>3
  <2>4. CASE i = 3 BY <1>2, <1>5, <2>4
  <2>5. CASE i = 4 BY <1>2, <1>5, <2>5
  <2>6. CASE i = 5 BY <1>2, <1>5, <2>6
  <2>7. CASE i = 6 BY <1>2, <1>5, <2>7
  <2> QED BY <2>1, <2>2, <2>3, <2>4, <2>5, <2>6, <2>7
<1>7. Everything = Undone(Allocations[7]) \cup {Allocations[7]}
  BY <1>2, <1>5 DEF Everything
<1> QED BY <1>1, <1>2, <1>4, <1>5, <1>6, <1>7

\* In a stage and no other.
LEMMA OneStage ==
  ASSUME NEW call, NEW step, At(call, step), NEW other, NEW at, At(other, at)
  PROVE  call = other /\ step = at
BY DEF At

\* The objects of a stage are what its users need.
LEMMA StageSuffices == StageInvariant => ObjectsLive
<1> SUFFICES ASSUME StageInvariant PROVE ObjectsLive OBVIOUS
<1>1. ASSUME NEW w \in Works, work[w].running \/ work[w].queued
      PROVE  {"device", w, IF w = "scan_cleanup_work" THEN "scan_spinlock"
                                                      ELSE "association_spinlock"}
               \subseteq objects
  <2>1. CASE At("up", 1) \/ At("unregister", 1)
    <3>1. Everything \subseteq objects
      BY <2>1 DEF StageInvariant, ObjectsOfStage, At
    <3> QED BY <3>1 DEF Everything, Works
  <2>2. CASE w = "scan_cleanup_work" /\ At("unregister", 2)
    <3>1. objects = Remaining(2) BY <2>2 DEF StageInvariant, ObjectsOfStage, At
    <3> QED BY <2>2, <3>1 DEF Remaining, Everything
  <2>3. CASE w = "association_cleanup_work" /\ \E step \in 2 .. 3 : At("unregister", step)
    <3>1. objects = Remaining(2) \/ objects = Remaining(3)
      BY <2>3 DEF StageInvariant, ObjectsOfStage, At
    <3> QED BY <2>3, <3>1 DEF Remaining, Everything
  <2>4. At("up", 1) \/ \E step \in 1 .. FreedAt(w) : At("unregister", step)
    BY <1>1 DEF StageInvariant, WorksOfStage
  <2> QED BY <2>1, <2>2, <2>3, <2>4 DEF Works, FreedAt
<1>2. ASSUME ~Unlocked PROVE {"device", "rwlock"} \subseteq objects
  <2>1. CASE At("up", 1)
    <3>1. Everything \subseteq objects BY <2>1 DEF StageInvariant, ObjectsOfStage, At
    <3> QED BY <3>1 DEF Everything
  <2>2. CASE At("unregister", 6)
    <3>1. objects = Remaining(6) BY <2>2 DEF StageInvariant, ObjectsOfStage, At
    <3> QED BY <3>1 DEF Remaining, Everything
  <2> QED BY <1>2, <2>1, <2>2 DEF StageInvariant, LockOfStage
<1>3. Up => {Allocations[i] : i \in DOMAIN Allocations} \subseteq objects
  BY ObjectsInOrder DEF StageInvariant, ObjectsOfStage, Up, At
<1>4. ASSUME NEW i \in DOMAIN Allocations, At("register", i)
      PROVE  Undone(Allocations[i]) \subseteq objects
  BY <1>4, ObjectsInOrder DEF StageInvariant, ObjectsOfStage, At
<1> QED BY <1>1, <1>2, <1>3, <1>4 DEF ObjectsLive

-----------------------------------------------------------------------------
(***************************************************************************)
(* Every step.                                                             *)
(***************************************************************************)

LEMMA StageAtFirst == Init => StageInvariant
<1> SUFFICES ASSUME Init PROVE StageInvariant OBVIOUS
<1>1. ObjectsOfStage BY DEF Init, ObjectsOfStage, At
<1>2. WorksOfStage BY DEF Init, WorksOfStage
<1>3. LockOfStage
  BY DEF Init, CacheInit, NoSweep, LockOfStage, IsSweep, Unlocked
<1> QED BY <1>1, <1>2, <1>3 DEF StageInvariant

\* What a step may do to the works: request one or let one run while the device is up,
\* or make one less busy.
WorksStep ==
  /\ work' \in [Works -> [queued : BOOLEAN, running : BOOLEAN]]
  /\ \A w \in Works :
       work'[w].queued \/ work'[w].running => At("up", 1) \/ work[w].queued \/ work[w].running

\* What a step may do to the lock: take it while the device is up, or keep it.
LockStep ==
  /\ IsSweep(sweep')
  /\ Unlocked => Unlocked' \/ At("up", 1)

\* A step that leaves the stage and the objects alone.
LEMMA StageKept ==
  ASSUME StageInvariant, UNCHANGED <<stage, objects>>, WorksStep, LockStep
  PROVE  StageInvariant'
<1>1. ASSUME NEW at, NEW step PROVE At(at, step)' <=> At(at, step) BY DEF At
<1>2. ObjectsOfStage'
  BY DEF StageInvariant, ObjectsOfStage, At
<1>3. WorksOfStage'
  <2>1. \A w \in Works : work'[w].queued \/ work'[w].running =>
          At("up", 1) \/ \E step \in 1 .. FreedAt(w) : At("unregister", step)
    BY DEF StageInvariant, WorksOfStage, WorksStep
  <2> QED BY <2>1 DEF WorksOfStage, WorksStep, At
<1>4. LockOfStage' BY DEF StageInvariant, LockOfStage, LockStep, Unlocked, At
<1> QED BY <1>2, <1>3, <1>4 DEF StageInvariant

\* A work that a step makes queued or running, or neither.
LEMMA OneWork ==
  ASSUME StageInvariant, NEW w \in Works, NEW queued \in BOOLEAN, NEW running \in BOOLEAN,
         work' = [work EXCEPT ![w] = [queued |-> queued, running |-> running]],
         queued \/ running => At("up", 1) \/ work[w].queued \/ work[w].running
  PROVE  WorksStep
<1>1. work \in [Works -> [queued : BOOLEAN, running : BOOLEAN]]
  BY DEF StageInvariant, WorksOfStage
<1>2. work' \in [Works -> [queued : BOOLEAN, running : BOOLEAN]] BY <1>1
<1>3. ASSUME NEW v \in Works, work'[v].queued \/ work'[v].running
      PROVE  At("up", 1) \/ work[v].queued \/ work[v].running
  BY <1>1, <1>3
<1> QED BY <1>2, <1>3 DEF WorksStep

LEMMA WorksUnchanged == ASSUME StageInvariant, UNCHANGED work PROVE WorksStep
BY DEF StageInvariant, WorksOfStage, WorksStep

LEMMA SweepUnchanged == ASSUME StageInvariant, UNCHANGED sweep PROVE LockStep
BY DEF StageInvariant, LockOfStage, LockStep, Unlocked

\* What the calls of the cache do to the lock.
LEMMA CacheStep ==
  ASSUME StageInvariant, CacheCall \/ UserCall \/ SweepTurn \/ PurgeEnds
  PROVE  LockStep /\ UNCHANGED <<stage, objects, work>>
<1>1. UNCHANGED <<stage, objects, work>>
  BY DEF CacheCall, UserCall, SweepTurn, PurgeEnds, deviceVars
<1> SUFFICES LockStep BY <1>1
<1>2. CASE CacheCall
  <2>1. CASE UNCHANGED sweep BY <2>1, SweepUnchanged
  <2>2. CASE u80211_bss_cache_purge
    <3>1. IsSweep(sweep') BY <2>2 DEF u80211_bss_cache_purge, SweepBegins, IsSweep
    <3>2. At("up", 1) BY <1>2 DEF CacheCall, Up
    <3> QED BY <3>1, <3>2 DEF LockStep
  <2> QED
    BY <1>2, <2>1, <2>2
    DEF CacheCall, u80211_ap_allocate, u80211_bss_cache_insert, u80211_bss_cache_remove,
        u80211_bss_cache_find, GivenOut, u80211_bss_cache_get_aps
<1>3. CASE UserCall
  BY <1>3, SweepUnchanged DEF UserCall, u80211_ap_hold, u80211_ap_release
<1>4. CASE SweepTurn
  <2>1. ~Unlocked BY <1>4 DEF SweepTurn, PurgeLooks, SweepDrops, Unlocked
  <2>2. PICK by, iterator, unused, left :
          sweep = [by |-> by, iterator |-> iterator, unused |-> unused, left |-> left]
    BY DEF StageInvariant, LockOfStage, IsSweep
  <2>3. \/ sweep' = [sweep EXCEPT !.unused = TRUE]
        \/ \E next : sweep' = [sweep EXCEPT !.iterator = next, !.unused = FALSE,
                                            !.left = @ \ {sweep.iterator}]
    BY <1>4 DEF SweepTurn, PurgeLooks, SweepDrops, GoesOn
  <2>4. IsSweep(sweep') BY <2>2, <2>3 DEF IsSweep
  <2> QED BY <2>1, <2>4 DEF LockStep
<1>5. CASE PurgeEnds
  <2>1. sweep' = NoSweep BY <1>5 DEF PurgeEnds, SweepEnds
  <2>2. IsSweep(sweep') BY <2>1 DEF NoSweep, IsSweep
  <2>3. Unlocked' BY <2>1 DEF NoSweep, Unlocked
  <2> QED BY <2>2, <2>3 DEF LockStep
<1> QED BY <1>1, <1>2, <1>3, <1>4, <1>5

\* A request makes a work queued, and a turn of it running or not.
LEMMA RecordFields ==
  ASSUME NEW old, NEW queued, NEW running, old = [queued |-> queued, running |-> running],
         NEW value
  PROVE  /\ [old EXCEPT !.queued = value] = [queued |-> value, running |-> running]
         /\ [old EXCEPT !.running = value] = [queued |-> queued, running |-> value]
OBVIOUS

\* What the link does to the works.
LEMMA LinkSteps ==
  ASSUME StageInvariant, LinkStep
  PROVE  WorksStep /\ UNCHANGED <<stage, objects, sweep>>
<1> DEFINE a == "association_cleanup_work"
<1>1. a \in Works BY DEF Works
<1>2. work \in [Works -> [queued : BOOLEAN, running : BOOLEAN]]
  BY DEF StageInvariant, WorksOfStage
<1>3. PICK queued \in BOOLEAN, running \in BOOLEAN :
        work[a] = [queued |-> queued, running |-> running]
  BY <1>1, <1>2
<1> HIDE DEF a
<1>4. UNCHANGED <<stage, objects, sweep>>
  BY DEF LinkStep, release_disconnected_ap, DropDisconnected, u80211_associate, AttemptEnds,
         association_process_teardown, u80211_deauthenticate, CleanupBegins, CleanupReleases,
         CleanupWakes, CleanupReturns, cacheVars
<1> SUFFICES WorksStep BY <1>4
<1>5. CASE UNCHANGED work BY <1>5, WorksUnchanged
<1>6. ASSUME Up, Enqueued(a) PROVE WorksStep
  <2>1. work' = [work EXCEPT ![a] = [@ EXCEPT !.queued = TRUE]] BY <1>6 DEF Enqueued
  <2>2. work' = [work EXCEPT ![a] = [queued |-> TRUE, running |-> running]]
    <3> DEFINE old == work[a]
               value == TRUE
    <3>1. old = [queued |-> queued, running |-> running] BY <1>3
    <3>2. work' = [work EXCEPT ![a] = [old EXCEPT !.queued = value]] BY <2>1
    <3> HIDE DEF old, value
    <3>3. [old EXCEPT !.queued = value] = [queued |-> value, running |-> running] BY <3>1, RecordFields
    <3>4. work' = [work EXCEPT ![a] = [queued |-> value, running |-> running]] BY <3>2, <3>3
    <3> QED BY <3>4 DEF value
  <2> QED BY <1>1, <1>6, <2>2, OneWork DEF Up
<1>7. CASE CleanupBegins
  <2>1. /\ work[a].queued
        /\ work' = [work EXCEPT ![a] = [queued |-> FALSE, running |-> TRUE]]
    BY <1>7 DEF CleanupBegins, a
  <2> QED BY <1>1, <2>1, OneWork
<1>8. CASE CleanupReturns
  <2>1. work' = [work EXCEPT ![a] = [@ EXCEPT !.running = FALSE]] /\ work[a].running
    BY <1>8 DEF CleanupReturns, Cleaning, a
  <2>2. work' = [work EXCEPT ![a] = [queued |-> queued, running |-> FALSE]]
    <3> DEFINE old == work[a]
               value == FALSE
    <3>1. old = [queued |-> queued, running |-> running] BY <1>3
    <3>2. work' = [work EXCEPT ![a] = [old EXCEPT !.running = value]] BY <2>1
    <3> HIDE DEF old, value
    <3>3. [old EXCEPT !.running = value] = [queued |-> queued, running |-> value] BY <3>1, RecordFields
    <3>4. work' = [work EXCEPT ![a] = [queued |-> queued, running |-> value]] BY <3>2, <3>3
    <3> QED BY <3>4 DEF value
  <2> QED BY <1>1, <1>3, <2>1, <2>2, OneWork
<1> QED
  BY <1>4, <1>5, <1>6, <1>7, <1>8
  DEF LinkStep, release_disconnected_ap, u80211_associate, AttemptEnds,
      association_process_teardown, u80211_deauthenticate, CleanupReleases, CleanupWakes, a

\* What a scan that ends does to the works.
LEMMA ScanSteps ==
  ASSUME StageInvariant, ScanCleanupRuns \/ ScanCleanupEnds
  PROVE  WorksStep /\ UNCHANGED <<stage, objects, sweep>>
<1> DEFINE w == "scan_cleanup_work"
<1>1. w \in Works BY DEF Works
<1>2. work \in [Works -> [queued : BOOLEAN, running : BOOLEAN]]
  BY DEF StageInvariant, WorksOfStage
<1>3. PICK queued \in BOOLEAN, running \in BOOLEAN :
        work[w] = [queued |-> queued, running |-> running]
  BY <1>1, <1>2
<1>4. UNCHANGED <<stage, objects, sweep>>
  BY DEF ScanCleanupRuns, ScanCleanupEnds, cacheVars
<1> SUFFICES WorksStep BY <1>4
<1>5. CASE ScanCleanupRuns
  <2>1. work' = [work EXCEPT ![w] = [@ EXCEPT !.running = TRUE]] /\ At("up", 1)
    BY <1>5 DEF ScanCleanupRuns, Up
  <2>2. work' = [work EXCEPT ![w] = [queued |-> queued, running |-> TRUE]]
    <3> DEFINE old == work[w]
               value == TRUE
    <3>1. old = [queued |-> queued, running |-> running] BY <1>3
    <3>2. work' = [work EXCEPT ![w] = [old EXCEPT !.running = value]] BY <2>1
    <3> HIDE DEF old, value
    <3>3. [old EXCEPT !.running = value] = [queued |-> queued, running |-> value] BY <3>1, RecordFields
    <3>4. work' = [work EXCEPT ![w] = [queued |-> queued, running |-> value]] BY <3>2, <3>3
    <3> QED BY <3>4 DEF value
  <2> QED BY <1>1, <2>1, <2>2, OneWork
<1>6. CASE ScanCleanupEnds
  <2>1. work' = [work EXCEPT ![w] = [@ EXCEPT !.running = FALSE]] /\ work[w].running
    BY <1>6 DEF ScanCleanupEnds
  <2>2. work' = [work EXCEPT ![w] = [queued |-> queued, running |-> FALSE]]
    <3> DEFINE old == work[w]
               value == FALSE
    <3>1. old = [queued |-> queued, running |-> running] BY <1>3
    <3>2. work' = [work EXCEPT ![w] = [old EXCEPT !.running = value]] BY <2>1
    <3> HIDE DEF old, value
    <3>3. [old EXCEPT !.running = value] = [queued |-> queued, running |-> value] BY <3>1, RecordFields
    <3>4. work' = [work EXCEPT ![w] = [queued |-> queued, running |-> value]] BY <3>2, <3>3
    <3> QED BY <3>4 DEF value
  <2> QED BY <1>1, <1>3, <2>1, <2>2, OneWork
<1> QED BY <1>5, <1>6

\* While a device is registered nothing uses it.
LEMMA Quiet ==
  ASSUME StageInvariant, NEW call \in {"none", "register"}, NEW step, At(call, step)
  PROVE  Unlocked /\ \A w \in Works : ~work[w].queued /\ ~work[w].running
BY DEF StageInvariant, WorksOfStage, LockOfStage, At

\* Until it is up, a stage more leaves that so.
LEMMA StaysQuiet ==
  ASSUME StageInvariant, NEW call \in {"none", "register"}, NEW step, At(call, step),
         UNCHANGED <<work, sweep>>
  PROVE  WorksOfStage' /\ LockOfStage'
<1>1. Unlocked /\ \A w \in Works : ~work[w].queued /\ ~work[w].running BY Quiet
<1> QED BY <1>1 DEF StageInvariant, WorksOfStage, LockOfStage, Unlocked

LEMMA RegisterBegins ==
  ASSUME StageInvariant, u80211_register_device
  PROVE  StageInvariant'
<1>1. At("none", 1) /\ At("register", 1)' /\ UNCHANGED <<objects, work, sweep>>
  BY DEF u80211_register_device, Proceed, At, cacheVars
<1>2. objects = {} BY <1>1 DEF StageInvariant, ObjectsOfStage, At
<1>3. ObjectsOfStage' BY <1>1, <1>2, ObjectsInOrder DEF ObjectsOfStage
<1> QED BY <1>1, <1>3, StaysQuiet DEF StageInvariant

LEMMA RegisterAllocates ==
  ASSUME StageInvariant, Allocates
  PROVE  StageInvariant'
<1>1. PICK step \in 1 .. 7 :
        /\ At("register", step) /\ objects' = objects \cup {Allocations[step]}
        /\ IF step = 7 THEN Proceed("up", 1) ELSE Proceed("register", step + 1)
        /\ UNCHANGED <<work, sweep>>
  BY ObjectsInOrder DEF Allocates, cacheVars
<1>2. objects = Undone(Allocations[step]) BY <1>1 DEF StageInvariant, ObjectsOfStage, At
<1>3. ObjectsOfStage'
  <2>1. CASE step = 7
    <3>1. At("up", 1)' BY <1>1, <2>1 DEF Proceed, At
    <3>2. objects' = Everything BY <1>1, <1>2, <2>1, ObjectsInOrder
    <3> QED BY <3>1, <3>2 DEF ObjectsOfStage
  <2>2. CASE step # 7
    <3> DEFINE next == step + 1
    <3>1. next \in 1 .. 7 /\ step \in 1 .. 6 BY <2>2
    <3>2. objects' = Undone(Allocations[next]) BY <1>1, <1>2, <3>1, ObjectsInOrder
    <3>3. At("register", next)' BY <1>1, <2>2 DEF Proceed, At
    <3> HIDE DEF next
    <3> QED BY <3>1, <3>2, <3>3 DEF ObjectsOfStage
  <2> QED BY <2>1, <2>2
<1> QED BY <1>1, <1>3, StaysQuiet DEF StageInvariant

LEMMA RegisterFails ==
  ASSUME StageInvariant, AllocationFails
  PROVE  StageInvariant'
<1>1. PICK step \in 1 .. 7 :
        /\ At("register", step) /\ objects' = objects \ Undone(Allocations[step])
        /\ Proceed("none", 1) /\ UNCHANGED <<work, sweep>>
  BY ObjectsInOrder DEF AllocationFails, cacheVars
<1>2. objects = Undone(Allocations[step]) BY <1>1 DEF StageInvariant, ObjectsOfStage, At
<1>3. ObjectsOfStage' BY <1>1, <1>2 DEF Proceed, At, ObjectsOfStage
<1> QED BY <1>1, <1>3, StaysQuiet DEF StageInvariant

LEMMA KeyIsSet ==
  ASSUME StageInvariant, u80211_set_key
  PROVE  StageInvariant'
<1>1. At("up", 1) /\ objects' = objects \cup {"key"} /\ UNCHANGED <<stage, work, sweep>>
  BY DEF u80211_set_key, Up, cacheVars
<1>2. Everything \subseteq objects /\ objects \subseteq Everything \cup {"key"}
  BY <1>1 DEF StageInvariant, ObjectsOfStage, At
<1>3. ObjectsOfStage' BY <1>1, <1>2 DEF ObjectsOfStage, At
<1> QED BY <1>1, <1>3 DEF StageInvariant, WorksOfStage, LockOfStage, Unlocked, At

-----------------------------------------------------------------------------
(***************************************************************************)
(* The end of a device.                                                    *)
(***************************************************************************)

LEMMA UnregisterBegins ==
  ASSUME StageInvariant, u80211_unregister_device
  PROVE  StageInvariant'
<1>1. At("up", 1) /\ At("unregister", 1)' /\ Unlocked /\ UNCHANGED <<objects, work, sweep>>
  BY DEF u80211_unregister_device, Up, Idle, Proceed, At, cacheVars
<1>2. Everything \subseteq objects /\ objects \subseteq Everything \cup {"key"}
  BY <1>1 DEF StageInvariant, ObjectsOfStage, At
<1>3. ObjectsOfStage' BY <1>1, <1>2 DEF ObjectsOfStage, At
<1>4. WorksOfStage'
  <2>1. \A w \in Works : 1 \in 1 .. FreedAt(w) BY DEF FreedAt
  <2> QED BY <1>1, <2>1 DEF StageInvariant, WorksOfStage
<1>5. LockOfStage' BY <1>1 DEF StageInvariant, LockOfStage, Unlocked
<1> QED BY <1>3, <1>4, <1>5 DEF StageInvariant

\* A step from the first to the sixth of the end.
LEMMA EndGoesOn ==
  ASSUME StageInvariant, NEW step \in 1 .. 6, NEW freed, Unregistering(step, freed),
         step = 1 => freed = {"key", "key_spinlock"},
         step \in 2 .. 6 => Remaining(step) \ freed = Remaining(step + 1)
  PROVE  ObjectsOfStage'
<1> DEFINE next == step + 1
<1>1. /\ At("unregister", step) /\ At("unregister", next)' /\ objects' = objects \ freed
      /\ next \in 2 .. 7
  BY DEF Unregistering, Proceed, At
<1>2. objects' = Remaining(next)
  <2>1. CASE step = 1
    <3>1. Everything \subseteq objects /\ objects \subseteq Everything \cup {"key"}
      BY <1>1, <2>1 DEF StageInvariant, ObjectsOfStage, At
    <3>2. Remaining(2) = Everything \ {"key_spinlock"} BY DEF Remaining
    <3>3. "key" \notin Everything BY DEF Everything
    <3> QED BY <1>1, <2>1, <3>1, <3>2, <3>3
  <2>2. CASE step # 1
    <3>1. objects = Remaining(step)
      BY <1>1, <2>2 DEF StageInvariant, ObjectsOfStage, At
    <3>2. step \in 2 .. 6 BY <2>2
    <3> QED BY <1>1, <3>1, <3>2
  <2> QED BY <2>1, <2>2
<1> HIDE DEF next
<1> QED BY <1>1, <1>2 DEF ObjectsOfStage

\* What each step frees.
LEMMA RemainingInOrder ==
  /\ Remaining(2) \ {"scan_cleanup_work"} = Remaining(3)
  /\ Remaining(3) \ {"association_cleanup_work"} = Remaining(4)
  /\ Remaining(4) = Remaining(5) /\ Remaining(5) = Remaining(6)
  /\ Remaining(6) \ {"rwlock"} = Remaining(7)
  /\ Remaining(7) = {"association_spinlock", "scan_spinlock", "device"}
<1>1. /\ Remaining(2) = Everything \ {"key_spinlock"}
      /\ Remaining(3) = Everything \ {"key_spinlock", "scan_cleanup_work"}
      /\ Remaining(4) = Everything \ {"key_spinlock", "scan_cleanup_work",
                                      "association_cleanup_work"}
      /\ Remaining(5) = Remaining(4) /\ Remaining(6) = Remaining(4)
      /\ Remaining(7) = Everything \ {"key_spinlock", "scan_cleanup_work",
                                      "association_cleanup_work", "rwlock"}
  BY DEF Remaining
<1> QED BY <1>1 DEF Everything

\* Of the end, a step that takes the lock for the last sweep, or leaves it.
LEMMA EndSweeps ==
  ASSUME NEW by, SweepBegins(by) \/ SweepEnds
  PROVE  IsSweep(sweep') /\ (SweepEnds => Unlocked')
<1>1. CASE SweepEnds BY <1>1 DEF SweepEnds, NoSweep, IsSweep, Unlocked
<1>2. CASE SweepBegins(by)
  <2>1. IsSweep(sweep') BY <1>2 DEF SweepBegins, IsSweep
  <2>2. ~SweepEnds BY <1>2 DEF SweepBegins, SweepEnds, Unlocked
  <2> QED BY <2>1, <2>2
<1> QED BY <1>1, <1>2

\* A step from one to the next of the end keeps the works from the step that frees
\* them on as they are then.
LEMMA WorksEnd ==
  ASSUME StageInvariant, NEW step \in 1 .. 6,
         At("unregister", step), At("unregister", step + 1)',
         work' \in [Works -> [queued : BOOLEAN, running : BOOLEAN]],
         \A w \in Works : step = FreedAt(w) => ~work'[w].queued /\ ~work'[w].running,
         \A w \in Works : step # FreedAt(w) => work'[w] = work[w]
  PROVE  WorksOfStage'
<1> SUFFICES ASSUME NEW w \in Works, work'[w].queued \/ work'[w].running
             PROVE  \E at \in 1 .. FreedAt(w) : At("unregister", at)'
  BY DEF WorksOfStage
<1> DEFINE next == step + 1
<1>1. step # FreedAt(w) /\ (work[w].queued \/ work[w].running) OBVIOUS
<1>2. PICK at \in 1 .. FreedAt(w) : At("unregister", at)
  BY <1>1 DEF StageInvariant, WorksOfStage, At
<1>3. at = step BY <1>2 DEF At
<1>4. FreedAt(w) \in Nat BY DEF FreedAt
<1>5. next \in 1 .. FreedAt(w) BY <1>1, <1>2, <1>3, <1>4
<1>6. At("unregister", next)' OBVIOUS
<1> HIDE DEF next
<1> QED BY <1>5, <1>6

\* The other half of the steps of the end: they leave the lock alone, or it is theirs.
LEMMA LockEnd ==
  ASSUME StageInvariant, NEW step \in 1 .. 6, At("unregister", step), UNCHANGED sweep, step # 6
  PROVE  LockOfStage'
<1>1. Unlocked BY DEF StageInvariant, LockOfStage, At
<1> QED BY <1>1 DEF StageInvariant, LockOfStage, Unlocked

LEMMA EndsOfUse ==
  ASSUME StageInvariant, UnregisterStep
  PROVE  StageInvariant'
<1>1. CASE u80211_unregister_device BY <1>1, UnregisterBegins
<1>2. CASE u80211_key_state_deinit
  <2>1. Unregistering(1, {"key", "key_spinlock"}) /\ UNCHANGED <<work, sweep>>
    BY <1>2 DEF u80211_key_state_deinit, cacheVars
  <2>2. At("unregister", 1) /\ At("unregister", 2)'
    BY <2>1 DEF Unregistering, Proceed, At
  <2>3. ObjectsOfStage' BY <2>1, EndGoesOn
  <2>4. \A w \in Works : 1 # FreedAt(w) BY DEF FreedAt
  <2>5. WorksOfStage'
    <3>1. At("unregister", 1 + 1)' BY <2>2
    <3> QED BY <2>1, <2>2, <2>4, <3>1, WorksEnd DEF StageInvariant, WorksOfStage
  <2>6. LockOfStage' BY <2>1, <2>2, LockEnd
  <2> QED BY <2>3, <2>5, <2>6 DEF StageInvariant
<1>3. ASSUME NEW w \in Works, FreesWork(w, FreedAt(w)) PROVE StageInvariant'
  <2> DEFINE step == FreedAt(w)
  <2>1. step \in 2 .. 3 BY DEF FreedAt
  <2>2. /\ Unregistering(step, {w}) /\ UNCHANGED sweep /\ ~work[w].running
        /\ work' = [work EXCEPT ![w].queued = FALSE]
    BY <1>3 DEF FreesWork, cacheVars
  <2>3. At("unregister", step) /\ At("unregister", step + 1)'
    BY <2>2 DEF Unregistering, Proceed, At
  <2>4. Remaining(step) \ {w} = Remaining(step + 1)
    <3>1. CASE w = "scan_cleanup_work" BY <3>1, RemainingInOrder DEF FreedAt
    <3>2. CASE w = "association_cleanup_work"
      BY <3>2, RemainingInOrder DEF FreedAt
    <3> QED BY <3>1, <3>2 DEF Works
  <2>5. \A v \in Works : step = FreedAt(v) => v = w BY DEF Works, FreedAt
  <2> HIDE DEF step
  <2>6. step \in 1 .. 6 /\ step # 1 /\ step # 6 BY <2>1
  <2>7. ObjectsOfStage' BY <2>2, <2>4, <2>6, EndGoesOn
  <2>8. work \in [Works -> [queued : BOOLEAN, running : BOOLEAN]]
    BY DEF StageInvariant, WorksOfStage
  <2>9. work' \in [Works -> [queued : BOOLEAN, running : BOOLEAN]] BY <2>2, <2>8
  <2>10. ~work'[w].queued /\ ~work'[w].running BY <2>2, <2>8
  <2>11. \A v \in Works : v # w => work'[v] = work[v] BY <2>2, <2>8
  <2>12. step = FreedAt(w) BY DEF step
  <2>13. WorksOfStage' BY <2>3, <2>5, <2>6, <2>9, <2>10, <2>11, <2>12, WorksEnd
  <2>14. LockOfStage' BY <2>2, <2>3, <2>6, LockEnd
  <2> QED BY <2>7, <2>13, <2>14 DEF StageInvariant
<1>4. CASE ReleasesDisconnected
  <2>1. Unregistering(4, {}) /\ UNCHANGED <<work, sweep>>
    BY <1>4 DEF ReleasesDisconnected, DropDisconnected, cacheVars
  <2>2. At("unregister", 4) /\ At("unregister", 5)' BY <2>1 DEF Unregistering, Proceed, At
  <2>3. ObjectsOfStage' BY <2>1, EndGoesOn, RemainingInOrder
  <2>4. \A w \in Works : 4 # FreedAt(w) BY DEF FreedAt
  <2>5. WorksOfStage'
    <3>1. At("unregister", 4 + 1)' BY <2>2
    <3> QED BY <2>1, <2>2, <2>4, <3>1, WorksEnd DEF StageInvariant, WorksOfStage
  <2>6. LockOfStage' BY <2>1, <2>2, LockEnd
  <2> QED BY <2>3, <2>5, <2>6 DEF StageInvariant
<1>5. CASE EmptiesCache
  <2>1. Unregistering(5, {}) /\ UNCHANGED work /\ SweepBegins("deinit")
    BY <1>5 DEF EmptiesCache, u80211_bss_cache_deinit
  <2>2. At("unregister", 5) /\ At("unregister", 6)' BY <2>1 DEF Unregistering, Proceed, At
  <2>3. ObjectsOfStage' BY <2>1, EndGoesOn, RemainingInOrder
  <2>4. \A w \in Works : 5 # FreedAt(w) BY DEF FreedAt
  <2>5. WorksOfStage'
    <3>1. At("unregister", 5 + 1)' BY <2>2
    <3> QED BY <2>1, <2>2, <2>4, <3>1, WorksEnd DEF StageInvariant, WorksOfStage
  <2>6. LockOfStage' BY <2>1, <2>2, EndSweeps DEF LockOfStage
  <2> QED BY <2>3, <2>5, <2>6 DEF StageInvariant
<1>6. CASE CacheEmptied
  <2>1. Unregistering(6, {"rwlock"}) /\ UNCHANGED work /\ SweepEnds
    BY <1>6 DEF CacheEmptied
  <2>2. At("unregister", 6) /\ At("unregister", 7)' BY <2>1 DEF Unregistering, Proceed, At
  <2>3. ObjectsOfStage' BY <2>1, EndGoesOn, RemainingInOrder
  <2>4. \A w \in Works : 6 # FreedAt(w) BY DEF FreedAt
  <2>5. WorksOfStage'
    <3>1. At("unregister", 6 + 1)' BY <2>2
    <3> QED BY <2>1, <2>2, <2>4, <3>1, WorksEnd DEF StageInvariant, WorksOfStage
  <2>6. LockOfStage' BY <2>1, EndSweeps DEF LockOfStage
  <2> QED BY <2>3, <2>5, <2>6 DEF StageInvariant
<1>7. CASE FreesDevice
  <2>1. /\ At("unregister", 7) /\ At("none", 1)' /\ UNCHANGED <<work, sweep>>
        /\ objects' = objects \ {"association_spinlock", "scan_spinlock", "device"}
    BY <1>7 DEF FreesDevice, Proceed, At, cacheVars
  <2>2. objects = Remaining(7) BY <2>1 DEF StageInvariant, ObjectsOfStage, At
  <2>3. ObjectsOfStage' BY <2>1, <2>2, RemainingInOrder DEF ObjectsOfStage
  <2>4. \A w \in Works : ~work[w].queued /\ ~work[w].running
    <3> SUFFICES ASSUME NEW w \in Works, work[w].queued \/ work[w].running PROVE FALSE
      OBVIOUS
    <3>1. FreedAt(w) \in 2 .. 3 BY DEF FreedAt
    <3>2. PICK at \in 1 .. FreedAt(w) : At("unregister", at)
      BY <2>1 DEF StageInvariant, WorksOfStage, At
    <3>3. at = 7 BY <2>1, <3>2 DEF At
    <3> QED BY <3>1, <3>2, <3>3
  <2>5. WorksOfStage' BY <2>1, <2>4 DEF StageInvariant, WorksOfStage
  <2>6. LockOfStage' BY <2>1 DEF StageInvariant, LockOfStage, Unlocked, At
  <2> QED BY <2>3, <2>5, <2>6 DEF StageInvariant
<1>8. CASE FreesWork("scan_cleanup_work", 2)
  <2>1. "scan_cleanup_work" \in Works /\ FreedAt("scan_cleanup_work") = 2
    BY DEF Works, FreedAt
  <2> QED BY <1>3, <1>8, <2>1
<1>9. CASE FreesWork("association_cleanup_work", 3)
  <2>1. "association_cleanup_work" \in Works /\ FreedAt("association_cleanup_work") = 3
    BY DEF Works, FreedAt
  <2> QED BY <1>3, <1>9, <2>1
<1> QED BY <1>1, <1>2, <1>4, <1>5, <1>6, <1>7, <1>8, <1>9 DEF UnregisterStep

LEMMA StageNext == StageInvariant /\ [Next]_vars => StageInvariant'
<1> SUFFICES ASSUME StageInvariant, [Next]_vars PROVE StageInvariant' OBVIOUS
<1>1. CASE u80211_register_device BY <1>1, RegisterBegins
<1>2. CASE Allocates BY <1>2, RegisterAllocates
<1>3. CASE AllocationFails BY <1>3, RegisterFails
<1>4. CASE CacheCall \/ UserCall \/ SweepTurn \/ PurgeEnds
  BY <1>4, CacheStep, WorksUnchanged, StageKept
<1>5. CASE u80211_set_key BY <1>5, KeyIsSet
<1>6. CASE ScanCleanupRuns \/ ScanCleanupEnds
  BY <1>6, ScanSteps, SweepUnchanged, StageKept
<1>7. CASE LinkStep BY <1>7, LinkSteps, SweepUnchanged, StageKept
<1>8. CASE UnregisterStep BY <1>8, EndsOfUse
<1>9. CASE UNCHANGED vars
  <2>1. UNCHANGED <<stage, objects, work, sweep>> BY <1>9 DEF vars, deviceVars, cacheVars
  <2> QED BY <2>1, WorksUnchanged, SweepUnchanged, StageKept
<1> QED BY <1>1, <1>2, <1>3, <1>4, <1>5, <1>6, <1>7, <1>8, <1>9 DEF Next

\* The objects, the works and the lock of a device go with the stage of its
\* registration: u80211_register_device builds them up in one order, an error undoes
\* what there is, and u80211_unregister_device takes them down again.
THEOREM StagesOfDevice == Spec => []StageInvariant
<1>1. Init => StageInvariant BY StageAtFirst
<1>2. StageInvariant /\ [Next]_vars => StageInvariant' BY StageNext
<1> QED BY <1>1, <1>2, PTL DEF Spec

\* Whatever the access points and the tree, no work, no sweep and no call uses what
\* u80211_unregister_device has freed or u80211_register_device not yet allocated.
THEOREM ObjectsStayLive == Spec => []ObjectsLive
<1>1. Spec => []StageInvariant BY StagesOfDevice
<1>2. StageInvariant => ObjectsLive BY StageSuffices
<1> QED BY <1>1, <1>2, PTL

\* A device that failed to register or was unregistered has leaked no object, no work
\* of it is queued or runs, and nobody has its lock.
NothingKept ==
  At("none", 1) =>
    objects = {} /\ Unlocked /\ \A w \in Works : ~work[w].queued /\ ~work[w].running

THEOREM NoObjectLeaks == Spec => []NothingKept
<1>1. Spec => []StageInvariant BY StagesOfDevice
<1>2. StageInvariant => NothingKept
  <2> SUFFICES ASSUME StageInvariant, At("none", 1) PROVE NothingKept BY DEF NothingKept
  <2>1. objects = {} BY DEF StageInvariant, ObjectsOfStage, At
  <2> QED BY <2>1, Quiet DEF NothingKept
<1> QED BY <1>1, <1>2, PTL

-----------------------------------------------------------------------------
(***************************************************************************)
(* Lists of references.                                                    *)
(***************************************************************************)

\* How often an access point is in a list.
CountIn(list, a) == Cardinality({i \in DOMAIN list : list[i] = a})

LEMMA CountNone ==
  ASSUME NEW a
  PROVE  CountIn(<<>>, a) = 0
<1>1. {i \in DOMAIN <<>> : <<>>[i] = a} = {} OBVIOUS
<1> QED BY <1>1, FS_EmptySet DEF CountIn

\* Without its head, a list has it once less.
LEMMA CountHead ==
  ASSUME NEW S, NEW list \in Seq(S), list # <<>>, NEW a
  PROVE  /\ CountIn(list, a) \in Nat /\ CountIn(Tail(list), a) \in Nat
         /\ CountIn(list, a) = CountIn(Tail(list), a) + IF Head(list) = a THEN 1 ELSE 0
<1> DEFINE n == Len(list)
           Whole == {i \in DOMAIN list : list[i] = a}
           Rest == {i \in DOMAIN Tail(list) : Tail(list)[i] = a}
           f == [i \in Rest |-> i + 1]
<1>1. /\ n \in Nat /\ n > 0 /\ DOMAIN list = 1 .. n /\ Head(list) = list[1]
      /\ DOMAIN Tail(list) = 1 .. n - 1 /\ \A i \in 1 .. n - 1 : Tail(list)[i] = list[i + 1]
  OBVIOUS
<1>2. IsFiniteSet(Whole) /\ IsFiniteSet(Rest)
  <2>1. IsFiniteSet(1 .. n) /\ IsFiniteSet(1 .. n - 1) BY <1>1, FS_Interval
  <2>2. Whole \in SUBSET (1 .. n) /\ Rest \in SUBSET (1 .. n - 1) BY <1>1
  <2> QED BY <2>1, <2>2, FS_Subset
<1>3. \A i \in Rest : i \in 1 .. n - 1 /\ list[i + 1] = a BY <1>1
<1>4. \A i \in Whole : i \in 1 .. n /\ list[i] = a BY <1>1
<1>5. f \in Bijection(Rest, Whole \ {1})
  <2>1. f \in [Rest -> Whole \ {1}]
    <3> SUFFICES ASSUME NEW i \in Rest PROVE i + 1 \in Whole \ {1} OBVIOUS
    <3>1. i \in 1 .. n - 1 /\ list[i + 1] = a BY <1>3
    <3> QED BY <1>1, <3>1
  <2>2. \A i, j \in Rest : f[i] = f[j] => i = j BY <1>3
  <2>3. \A j \in Whole \ {1} : \E i \in Rest : f[i] = j
    <3> TAKE j \in Whole \ {1}
    <3>1. j \in 2 .. n /\ list[j] = a BY <1>1, <1>4
    <3>2. j - 1 \in 1 .. n - 1 /\ (j - 1) + 1 = j BY <1>1, <3>1
    <3>3. j - 1 \in Rest BY <1>1, <3>1, <3>2
    <3> QED BY <3>2, <3>3
  <2> QED BY <2>1, <2>2, <2>3 DEF Bijection, Injection, IsInjective, Surjection
<1>6. Cardinality(Whole \ {1}) = Cardinality(Rest)
  <2>1. ExistsBijection(Rest, Whole \ {1}) BY <1>5 DEF ExistsBijection
  <2> QED BY <1>2, <2>1, FS_Bijection
<1>7. 1 \in Whole <=> Head(list) = a BY <1>1
<1>8. Cardinality(Whole \ {1}) = IF 1 \in Whole THEN Cardinality(Whole) - 1 ELSE Cardinality(Whole)
  BY <1>2, FS_RemoveElement
<1>9. Cardinality(Whole) \in Nat /\ Cardinality(Rest) \in Nat BY <1>2, FS_CardinalityType
<1>10. CountIn(list, a) = Cardinality(Whole) /\ CountIn(Tail(list), a) = Cardinality(Rest)
  BY DEF CountIn
<1> HIDE DEF Whole, Rest
<1> QED BY <1>6, <1>7, <1>8, <1>9, <1>10

\* What the cleanup takes: up to two references.
BothOf(c, d, none) ==
  (IF c = none THEN <<>> ELSE <<c>>) \o (IF d = none THEN <<>> ELSE <<d>>)

LEMMA CountTwo ==
  ASSUME NEW S, NEW c, NEW d, NEW none, c \in S \cup {none}, d \in S \cup {none}, none \notin S,
         NEW list, list = BothOf(c, d, none)
  PROVE  /\ list \in Seq(S)
         /\ \A a \in S : CountIn(list, a) = (IF c = a THEN 1 ELSE 0) + (IF d = a THEN 1 ELSE 0)
<1>1. ASSUME NEW e \in S, NEW a
      PROVE  <<e>> \in Seq(S) /\ CountIn(<<e>>, a) = IF e = a THEN 1 ELSE 0
  <2> DEFINE one == <<e>>
  <2>1. one \in Seq(S) /\ one # <<>> /\ Head(one) = e /\ Tail(one) = <<>> OBVIOUS
  <2> HIDE DEF one
  <2>2. CountIn(one, a) = CountIn(Tail(one), a) + IF Head(one) = a THEN 1 ELSE 0
    BY <2>1, CountHead
  <2>3. CountIn(Tail(one), a) = 0 BY <2>1, CountNone
  <2>4. CountIn(one, a) = IF e = a THEN 1 ELSE 0 BY <2>1, <2>2, <2>3
  <2> QED BY <2>1, <2>4 DEF one
<1>2. <<>> \in Seq(S) /\ \A a : CountIn(<<>>, a) = 0 BY CountNone
<1>3. CASE c = none /\ d = none
  <2>1. list = <<>> BY <1>3 DEF BothOf
  <2> QED BY <1>2, <1>3, <2>1
<1>4. CASE c # none /\ d = none
  <2>1. list = <<c>> /\ c \in S BY <1>4 DEF BothOf
  <2>2. list \in Seq(S) BY <1>1, <2>1
  <2>3. ASSUME NEW a \in S PROVE CountIn(list, a) = IF c = a THEN 1 ELSE 0
    <3>1. CountIn(<<c>>, a) = IF c = a THEN 1 ELSE 0 BY <1>1, <2>1
    <3> QED BY <2>1, <3>1, Zenon
  <2> QED BY <1>4, <2>2, <2>3
<1>5. CASE c = none /\ d # none
  <2>1. list = <<d>> /\ d \in S BY <1>5 DEF BothOf
  <2>2. list \in Seq(S) BY <1>1, <2>1
  <2>3. ASSUME NEW a \in S PROVE CountIn(list, a) = IF d = a THEN 1 ELSE 0
    <3>1. CountIn(<<d>>, a) = IF d = a THEN 1 ELSE 0 BY <1>1, <2>1
    <3> QED BY <2>1, <3>1, Zenon
  <2> QED BY <1>5, <2>2, <2>3
<1>6. CASE c # none /\ d # none
  <2>1. c \in S /\ d \in S BY <1>6
  <2>2. list = <<c>> \o <<d>> BY <1>6 DEF BothOf
  <2>3. list \in Seq(S) /\ Len(list) = 2 /\ list[1] = c /\ list[2] = d BY <2>1, <2>2
  <2>4. list \in Seq(S) /\ list # <<>> /\ Head(list) = c
    <3>1. list # <<>>
      <4> SUFFICES ASSUME list = <<>> PROVE FALSE OBVIOUS
      <4>1. Len(list) = 0 OBVIOUS
      <4> QED BY <2>3, <4>1
    <3> QED BY <2>3, <3>1
  <2>5. Tail(list) = <<d>>
    <3> DEFINE t == Tail(list)
    <3>1. t \in Seq(S) /\ Len(t) = 1 /\ t[1] = d BY <2>1, <2>3
    <3> HIDE DEF t
    <3>2. t = <<d>> BY <2>1, <3>1
    <3> QED BY <3>2 DEF t
  <2>6. ASSUME NEW a \in S
        PROVE  CountIn(list, a) = (IF c = a THEN 1 ELSE 0) + (IF d = a THEN 1 ELSE 0)
    <3>1. CountIn(list, a) = CountIn(Tail(list), a) + IF Head(list) = a THEN 1 ELSE 0
      BY <2>4, CountHead
    <3>2. CountIn(<<d>>, a) = IF d = a THEN 1 ELSE 0 BY <1>1, <2>1
    <3>3. CountIn(Tail(list), a) = IF d = a THEN 1 ELSE 0 BY <2>5, <3>2
    <3> DEFINE x == IF c = a THEN 1 ELSE 0
               y == IF d = a THEN 1 ELSE 0
    <3>4. x \in Int /\ y \in Int /\ CountIn(list, a) = y + x BY <2>4, <3>1, <3>3
    <3> SUFFICES CountIn(list, a) = x + y OBVIOUS
    <3> HIDE DEF x, y
    <3> QED BY <3>4
  <2> QED BY <2>4, <2>6
<1> QED BY <1>3, <1>4, <1>5, <1>6
-----------------------------------------------------------------------------
(***************************************************************************)
(* What the cache finds in its tree.                                       *)
(***************************************************************************)

\* The smallest of a set of nodes is there, unless the set is empty.
LEMMA SmallestIs ==
  ASSUME NEW set \in SUBSET Nodes
  PROVE  \/ SmallestOf(set) = None /\ set = {}
         \/ /\ SmallestOf(set) \in set /\ SmallestOf(set) # None
            /\ \A m \in set : Key[SmallestOf(set)] <= Key[m]
<1>1. CASE set = {} BY <1>1 DEF SmallestOf
<1>2. CASE set # {}
  <2> DEFINE V == [n \in Nodes |-> {m \in Nodes : Key[m] < Key[n]}]
  <2>1. IsFiniteSet(Nodes) /\ Key \in [Nodes -> Int] /\ None \notin Nodes BY RbTreeAssumption
  <2>2. PICK n \in set : \A m \in set : ~Smaller(V[m], V[n])
    <3>1. V \in [Nodes -> SUBSET Nodes] OBVIOUS
    <3> HIDE DEF V
    <3> QED BY <1>2, <2>1, <3>1, Lowest
  <2>3. ASSUME NEW m \in set PROVE Key[n] <= Key[m]
    <3> SUFFICES ASSUME ~(Key[n] <= Key[m]) PROVE FALSE OBVIOUS
    <3>1. Key[n] \in Int /\ Key[m] \in Int /\ Key[m] < Key[n] BY <2>1
    <3>2. V[m] \subseteq V[n]
      <4> SUFFICES ASSUME NEW p \in Nodes, Key[p] < Key[m] PROVE Key[p] < Key[n] OBVIOUS
      <4>1. Key[p] \in Int BY <2>1
      <4> QED BY <3>1, <4>1
    <3>3. m \in V[n] /\ m \notin V[m] BY <3>1
    <3> QED BY <2>2, <3>2, <3>3 DEF Smaller
  <2>4. /\ SmallestOf(set) \in set
        /\ \A m \in set : Key[SmallestOf(set)] <= Key[m]
    BY <1>2, <2>3 DEF SmallestOf
  <2> QED BY <2>1, <2>4
<1> QED BY <1>1, <1>2

\* A sound tree answers what the cache asks it.
Served(t, members) ==
  /\ t \in Trees /\ Members(t) = members /\ members \in SUBSET Nodes /\ IsFiniteSet(members)
  /\ (IF t.root = None THEN None ELSE u80211_rbtree_first(t)) = SmallestOf(members)
  /\ \A n \in members :
       u80211_rbtree_successor(t, n) = SmallestOf({m \in members : Key[m] > Key[n]})
  /\ \A key \in Addresses :
       u80211_rbtree_lookup(t, key) = SmallestOf({m \in members : Key[m] = key})
  /\ \A m, n \in members : Key[m] = Key[n] => m = n

LEMMA SoundIsServed ==
  ASSUME NEW t, NEW members, Sound(t, members)
  PROVE  Served(t, members)
<1>1. PICK U, B : Shaped(t, U, Key) /\ U[t.root] = members /\ Coloured(t, B) BY DEF Sound
<1>2. /\ t \in Trees /\ Members(t) = members /\ members \in SUBSET Nodes /\ WalksInOrder(t)
  BY SoundTreeServes
<1>3. IsFiniteSet(members) BY <1>2, RbTreeAssumption, FS_Subset
<1>4. \A m, n \in members : Key[m] = Key[n] => m = n BY <1>1, KeysDiffer
<1>5. t.root = None <=> members = {} BY <1>1, RbTreeAssumption, Parents
<1>6. /\ members # {} => u80211_rbtree_first(t) = SmallestOf(members)
      /\ \A n \in members :
           u80211_rbtree_successor(t, n) = SmallestOf({m \in members : Key[m] > Key[n]})
      /\ \A key \in {Key[n] : n \in Nodes} :
           u80211_rbtree_lookup(t, key) = SmallestOf({m \in members : Key[m] = key})
  BY <1>2 DEF WalksInOrder, SmallestOf
<1>7. members = {} => SmallestOf(members) = None BY DEF SmallestOf
<1> QED BY <1>2, <1>3, <1>4, <1>5, <1>6, <1>7 DEF Served, Addresses, APs

\* Of some entries, the first i in the order of their addresses.
Leading(members, i) ==
  {a \in members : Cardinality({b \in members : Key[b] < Key[a]}) < i}

\* The one that comes next.
ComesNext(members, i, x) ==
  /\ x = None => Leading(members, i) = members /\ Leading(members, i + 1) = members
  /\ x # None => /\ x \in members /\ Leading(members, i + 1) = Leading(members, i) \cup {x}
                 /\ Cardinality(Leading(members, i + 1)) = i + 1
                 /\ {m \in members : Key[m] > Key[x]} = members \ Leading(members, i + 1)

LEMMA LeadingGrows ==
  ASSUME NEW members \in SUBSET Nodes, \A m, n \in members : Key[m] = Key[n] => m = n,
         NEW i \in Nat,
         Leading(members, i) = members \/ Cardinality(Leading(members, i)) = i,
         NEW x, x = SmallestOf(members \ Leading(members, i))
  PROVE  ComesNext(members, i, x)
<1> DEFINE Below(a) == {b \in members : Key[b] < Key[a]}
           now == Leading(members, i)
           then == Leading(members, i + 1)
<1>1. \A a \in members : Key[a] \in Int BY RbTreeAssumption
<1>2. IsFiniteSet(members) BY RbTreeAssumption, FS_Subset
<1>3. \A a \in members : IsFiniteSet(Below(a)) /\ Cardinality(Below(a)) \in Nat
  BY <1>2, FS_Subset, FS_CardinalityType
<1>4. now = {a \in members : Cardinality(Below(a)) < i} BY DEF Leading
<1>5. then = {a \in members : Cardinality(Below(a)) < i + 1} BY DEF Leading
<1>6. \/ x = None /\ members \ now = {}
      \/ x \in members \ now /\ x # None /\ \A m \in members \ now : Key[x] <= Key[m]
  <2> HIDE DEF now
  <2> DEFINE rest == members \ now
  <2>1. rest \in SUBSET Nodes /\ x = SmallestOf(rest) BY DEF now
  <2> HIDE DEF rest
  <2>2. \/ x = None /\ rest = {}
        \/ x \in rest /\ x # None /\ \A m \in rest : Key[x] <= Key[m]
    BY <2>1, SmallestIs
  <2> QED BY <2>2 DEF rest
<1> HIDE DEF now, then
<1>7. ASSUME x = None PROVE now = members /\ then = members
  <2>1. now = members BY <1>4, <1>6, <1>7
  <2>2. \A a \in members : Cardinality(Below(a)) < i + 1 BY <1>3, <1>4, <2>1
  <2> QED BY <1>5, <2>1, <2>2
<1>8. ASSUME x # None
      PROVE  /\ x \in members /\ then = now \cup {x} /\ Cardinality(then) = i + 1
             /\ {m \in members : Key[m] > Key[x]} = members \ then
  <2>1. x \in members \ now /\ \A m \in members \ now : Key[x] <= Key[m] BY <1>6, <1>8
  <2>2. Cardinality(now) = i /\ IsFiniteSet(now)
    <3>1. now # members BY <2>1
    <3> QED BY <1>2, <1>4, <3>1, FS_Subset DEF now
  <2>3. Below(x) \subseteq now
    <3> SUFFICES ASSUME NEW b \in members, Key[b] < Key[x], b \notin now PROVE FALSE OBVIOUS
    <3> QED BY <1>1, <2>1
  <2>4. ASSUME NEW b \in now PROVE b \in Below(x)
    <3> SUFFICES ASSUME ~(Key[b] < Key[x]) PROVE FALSE BY <1>4
    <3>1. b \in members /\ Cardinality(Below(b)) < i BY <1>4
    <3>2. Below(x) \subseteq Below(b)
      <4> SUFFICES ASSUME NEW p \in members, Key[p] < Key[x] PROVE Key[p] < Key[b] OBVIOUS
      <4> QED BY <1>1, <2>1, <3>1
    <3>3. Cardinality(Below(x)) <= Cardinality(Below(b)) BY <1>3, <3>1, <3>2, FS_Subset
    <3>4. ~(Cardinality(Below(x)) < i) BY <1>4, <2>1
    <3> QED BY <1>3, <2>1, <3>1, <3>3, <3>4
  <2>5. Cardinality(Below(x)) = i
    <3>1. Below(x) = now BY <2>3, <2>4
    <3> QED BY <2>2, <3>1
  <2>6. ASSUME NEW m \in members, Key[m] > Key[x] PROVE m \notin then /\ m \notin now
    <3>1. Below(x) \cup {x} \subseteq Below(m)
      <4>1. \A p \in members : Key[p] < Key[x] => Key[p] < Key[m] BY <1>1, <2>1, <2>6
      <4>2. x \in Below(m) BY <1>1, <2>1, <2>6
      <4> QED BY <4>1, <4>2
    <3>2. x \notin Below(x) BY <1>1, <2>1
    <3>3. /\ IsFiniteSet(Below(x) \cup {x})
          /\ Cardinality(Below(x) \cup {x}) = Cardinality(Below(x)) + 1
      BY <1>3, <2>1, <3>2, FS_AddElement
    <3>4. Cardinality(Below(x) \cup {x}) <= Cardinality(Below(m))
      BY <1>3, <2>6, <3>1, FS_Subset
    <3>5. Cardinality(Below(m)) \in Nat /\ ~(Cardinality(Below(m)) < i + 1)
      <4>1. Cardinality(Below(x) \cup {x}) = i + 1 BY <2>5, <3>3
      <4>2. Cardinality(Below(m)) \in Nat BY <1>3, <2>6
      <4>3. i + 1 <= Cardinality(Below(m)) BY <3>4, <4>1
      <4> HIDE DEF Below
      <4> QED BY <4>2, <4>3
    <3> QED BY <1>4, <1>5, <3>5
  <2>7. ASSUME NEW m \in now PROVE m \in then
    <3> HIDE DEF Below
    <3>1. m \in members /\ Cardinality(Below(m)) < i BY <1>4
    <3>2. Cardinality(Below(m)) \in Nat BY <1>3, <3>1
    <3>3. Cardinality(Below(m)) < i + 1 BY <3>1, <3>2
    <3> QED BY <1>5, <3>1, <3>3
  <2>8. x \in then BY <1>5, <2>1, <2>5
  <2>9. \A m \in members : m # x => Key[m] > Key[x] \/ m \in now
    BY <1>1, <2>1
  <2>10. then \subseteq members /\ now \subseteq members BY <1>4, <1>5
  <2>11. then = now \cup {x} BY <2>6, <2>7, <2>8, <2>9, <2>10
  <2>12. Cardinality(then) = i + 1 BY <2>1, <2>2, <2>11, FS_AddElement
  <2>13. \A m \in now : ~(Key[m] > Key[x])
    <3> TAKE m \in now
    <3>1. m \in members /\ Key[m] < Key[x] BY <2>4
    <3> QED BY <1>1, <2>1, <3>1
  <2>14. {m \in members : Key[m] > Key[x]} = members \ then
    <3>1. ~(Key[x] > Key[x]) BY <1>1, <2>1
    <3> QED BY <2>6, <2>9, <2>11, <2>13, <3>1
  <2> QED BY <2>1, <2>11, <2>12, <2>14
<1> QED BY <1>7, <1>8 DEF now, then, ComesNext

\* As many as there are, or as were asked for.
LEMMA LeadingCounts ==
  ASSUME NEW members \in SUBSET Nodes, \A m, n \in members : Key[m] = Key[n] => m = n,
         NEW n \in Nat
  PROVE  Leading(members, n) = members \/ Cardinality(Leading(members, n)) = n
<1> DEFINE Reached == {i \in 0 .. n : \/ Leading(members, i) = members
                                      \/ Cardinality(Leading(members, i)) = i}
<1>1. 0 \in Reached
  <2>1. \A a \in members : Cardinality({b \in members : Key[b] < Key[a]}) \in Nat
    <3> TAKE a \in members
    <3>1. IsFiniteSet(members) BY RbTreeAssumption, FS_Subset
    <3>2. {b \in members : Key[b] < Key[a]} \in SUBSET members OBVIOUS
    <3> QED BY <3>1, <3>2, FS_Subset, FS_CardinalityType
  <2>2. Leading(members, 0) = {} BY <2>1 DEF Leading
  <2>3. Cardinality(Leading(members, 0)) = 0 BY <2>2, FS_EmptySet
  <2> QED BY <2>3
<1>2. ASSUME NEW i \in Reached, i # n PROVE i + 1 \in Reached
  <2>1. i \in Nat /\ i + 1 \in 0 .. n BY <1>2
  <2>2. Leading(members, i) = members \/ Cardinality(Leading(members, i)) = i OBVIOUS
  <2> DEFINE x == SmallestOf(members \ Leading(members, i))
  <2>3. x = SmallestOf(members \ Leading(members, i)) OBVIOUS
  <2> HIDE DEF x
  <2>4. ComesNext(members, i, x) BY <2>1, <2>2, <2>3, LeadingGrows
  <2> QED BY <2>1, <2>4 DEF ComesNext
<1>3. Reached \in SUBSET (0 .. n) OBVIOUS
<1> HIDE DEF Reached
<1>4. n \in Reached BY <1>1, <1>2, <1>3, UpToLength
<1> QED BY <1>4 DEF Reached

\* What u80211_bss_cache_get_aps has after i entries.
Filling(t, i, buffer) ==
  IF i = 0 THEN [filled |-> {}, iterator |-> IF t.root = None THEN None ELSE u80211_rbtree_first(t)]
  ELSE IF buffer[i - 1].iterator = None THEN buffer[i - 1]
  ELSE [filled |-> buffer[i - 1].filled \cup {buffer[i - 1].iterator},
        iterator |-> u80211_rbtree_successor(t, buffer[i - 1].iterator)]

Fills(t, n, buffer) == buffer = [i \in 0 .. n |-> Filling(t, i, buffer)]

\* These are the first of all, and it goes on with the next.
FilledWith(members, i) ==
  [filled |-> Leading(members, i), iterator |-> SmallestOf(members \ Leading(members, i))]

LEMMA FillingGoesOn ==
  ASSUME NEW t, NEW members, Served(t, members), NEW n \in Nat, NEW buffer, NEW i \in 0 .. n,
         i # 0 => buffer[i - 1] = FilledWith(members, i - 1)
  PROVE  Filling(t, i, buffer) = FilledWith(members, i)
<1>1. /\ members \in SUBSET Nodes /\ \A a, b \in members : Key[a] = Key[b] => a = b
      /\ (IF t.root = None THEN None ELSE u80211_rbtree_first(t)) = SmallestOf(members)
      /\ \A a \in members :
           u80211_rbtree_successor(t, a) = SmallestOf({m \in members : Key[m] > Key[a]})
  BY DEF Served
<1>2. CASE i = 0
  <2>1. Leading(members, 0) = {}
    <3>1. Leading(members, 0) = members \/ Cardinality(Leading(members, 0)) = 0
      BY <1>1, LeadingCounts
    <3>2. IsFiniteSet(members) /\ Leading(members, 0) \in SUBSET members
      BY RbTreeAssumption, FS_Subset DEF Served, Leading
    <3>3. IsFiniteSet(Leading(members, 0)) BY <3>2, FS_Subset
    <3>4. CASE Cardinality(Leading(members, 0)) = 0 BY <3>3, <3>4, FS_EmptySet
    <3>5. CASE Leading(members, 0) = members
      <4> SUFFICES ASSUME NEW a \in members PROVE FALSE BY <3>5
      <4>1. Cardinality({b \in members : Key[b] < Key[a]}) < 0 BY <3>5 DEF Leading
      <4>2. Cardinality({b \in members : Key[b] < Key[a]}) \in Nat
        BY <3>2, FS_Subset, FS_CardinalityType
      <4> QED BY <4>1, <4>2
    <3> QED BY <3>1, <3>4, <3>5
  <2>2. members \ Leading(members, 0) = members BY <2>1
  <2> QED BY <1>1, <1>2, <2>1, <2>2 DEF Filling, FilledWith
<1>3. CASE i # 0
  <2> DEFINE j == i - 1
             x == SmallestOf(members \ Leading(members, j))
  <2>1. j \in Nat /\ j + 1 = i BY <1>3
  <2>2. Leading(members, j) = members \/ Cardinality(Leading(members, j)) = j
    <3> HIDE DEF j
    <3> QED BY <1>1, <2>1, LeadingCounts
  <2>3. buffer[j].filled = Leading(members, j) /\ buffer[j].iterator = x
        /\ buffer[j] = FilledWith(members, j)
    BY <1>3 DEF FilledWith
  <2>4. x = SmallestOf(members \ Leading(members, j)) OBVIOUS
  <2>5. Filling(t, i, buffer) = IF x = None THEN buffer[j]
          ELSE [filled |-> Leading(members, j) \cup {x}, iterator |-> u80211_rbtree_successor(t, x)]
    BY <1>3, <2>3 DEF Filling
  <2> HIDE DEF j, x
  <2>6. ComesNext(members, j, x) BY <1>1, <2>1, <2>2, <2>4, LeadingGrows
  <2>7. CASE x = None
    <3>1. FilledWith(members, j) = FilledWith(members, j + 1)
      BY <2>6, <2>7 DEF FilledWith, ComesNext
    <3> QED BY <2>1, <2>3, <2>5, <2>7, <3>1
  <2>8. CASE x # None
    <3>1. u80211_rbtree_successor(t, x) = SmallestOf(members \ Leading(members, j + 1))
      BY <1>1, <2>6, <2>8 DEF ComesNext
    <3>2. Leading(members, j) \cup {x} = Leading(members, j + 1)
      BY <2>6, <2>8 DEF ComesNext
    <3> QED BY <2>1, <2>5, <2>8, <3>1, <3>2 DEF FilledWith
  <2> QED BY <2>7, <2>8
<1> QED BY <1>2, <1>3

LEMMA FillingEnds ==
  ASSUME NEW t, NEW members, Served(t, members), NEW n \in Nat,
         NEW buffer, buffer = CHOOSE f : Fills(t, n, f)
  PROVE  buffer[n].filled = Leading(members, n)
<1> DEFINE g == [i \in 0 .. n |-> FilledWith(members, i)]
           Reached == {i \in 0 .. n : buffer[i] = FilledWith(members, i)}
<1>1. ASSUME NEW i \in 0 .. n PROVE Filling(t, i, g) = FilledWith(members, i)
  <2>1. i # 0 => g[i - 1] = FilledWith(members, i - 1) OBVIOUS
  <2> HIDE DEF g
  <2> QED BY <2>1, FillingGoesOn
<1>2. Fills(t, n, g) BY <1>1 DEF Fills
<1> HIDE DEF g
<1>3. Fills(t, n, buffer) BY <1>2
<1>4. \A i \in 0 .. n : buffer[i] = Filling(t, i, buffer)
  <2> DEFINE body == [i \in 0 .. n |-> Filling(t, i, buffer)]
  <2>1. buffer = body BY <1>3 DEF Fills
  <2>2. \A i \in 0 .. n : body[i] = Filling(t, i, buffer) OBVIOUS
  <2> HIDE DEF body
  <2> QED BY <2>1, <2>2
<1>5. 0 \in Reached
  <2>1. 0 \in 0 .. n OBVIOUS
  <2>2. Filling(t, 0, buffer) = FilledWith(members, 0) BY <2>1, FillingGoesOn
  <2> QED BY <1>4, <2>1, <2>2
<1>6. ASSUME NEW i \in Reached, i # n PROVE i + 1 \in Reached
  <2> DEFINE j == i + 1
  <2>1. j \in 0 .. n /\ j # 0 /\ j - 1 = i /\ buffer[i] = FilledWith(members, i) BY <1>6
  <2> HIDE DEF j
  <2>2. Filling(t, j, buffer) = FilledWith(members, j) BY <2>1, FillingGoesOn
  <2>3. j \in Reached BY <1>4, <2>1, <2>2
  <2> QED BY <2>3 DEF j
<1>7. Reached \in SUBSET (0 .. n) OBVIOUS
<1> HIDE DEF Reached
<1>8. n \in Reached BY <1>5, <1>6, <1>7, UpToLength
<1> QED BY <1>8 DEF Reached, FilledWith
-----------------------------------------------------------------------------
(***************************************************************************)
(* Who uses an access point.                                               *)
(***************************************************************************)

OneIf(p) == IF p THEN 1 ELSE 0

\* The references of one access point: of users, lost, taken by the cleanup, of a
\* link, of an attempt, of an attempt that is over, of a link that was torn down.
UsesFrom(users, gone, list, linked, attempted, over, down) ==
  users + gone + list + OneIf(linked) + OneIf(attempted) + OneIf(over) + OneIf(down)

LEMMA UsesAre ==
  ASSUME NEW a
  PROVE  /\ Uses(a) = UsesFrom(held[a], lost[a], CountIn(taken, a), LinkUp /\ ap = a,
                               association_context = a,
                               association_cleanup_context = a /\ ~waking, disconnected_ap = a)
         /\ Uses(a)' = UsesFrom(held'[a], lost'[a], CountIn(taken', a), LinkUp' /\ ap' = a,
                                association_context' = a,
                                association_cleanup_context' = a /\ ~waking',
                                disconnected_ap' = a)
<1>1. Uses(a) = UsesFrom(held[a], lost[a], CountIn(taken, a), LinkUp /\ ap = a,
                         association_context = a,
                         association_cleanup_context = a /\ ~waking, disconnected_ap = a)
  BY DEF Uses, UsesFrom, OneIf, CountIn
<1>2. Uses(a)' = UsesFrom(held'[a], lost'[a], CountIn(taken', a), LinkUp' /\ ap' = a,
                          association_context' = a,
                          association_cleanup_context' = a /\ ~waking', disconnected_ap' = a)
  BY DEF Uses, UsesFrom, OneIf, CountIn
<1> QED BY <1>1, <1>2

\* An attempt holds the reference of the link to be until it is over; it is over when
\* those who wait have not been woken; the cleanup has references only while it runs.
LinkInvariant ==
  /\ held \in [APs -> 0 .. MaxHeld] /\ lost \in [APs -> 0 .. MaxLost]
  /\ ap \in Pointers /\ association_context \in Pointers
  /\ association_cleanup_context \in Pointers /\ disconnected_ap \in Pointers
  /\ taken \in Seq(APs) /\ waking \in BOOLEAN
  /\ association_context # None =>
       ap = association_context /\ association_cleanup_context = None
  /\ waking => association_cleanup_context # None
  /\ ~Cleaning => taken = <<>> /\ ~waking

\* Of a device that is being unregistered nothing is left to release from the fifth
\* step on, and of the link only what was torn down before.
LinkOfStage ==
  /\ Up \/ (ap = None /\ association_context = None /\ association_cleanup_context = None)
  /\ Up \/ (\E step \in 1 .. 4 : At("unregister", step)) \/ disconnected_ap = None

\* Counts are numbers.
LEMMA UsesType ==
  ASSUME LinkInvariant, NEW a \in APs
  PROVE  /\ Uses(a) \in Nat /\ held[a] \in Nat /\ lost[a] \in Nat /\ CountIn(taken, a) \in Nat
         /\ held[a] > 0 => Uses(a) > 0
<1>1. held[a] \in Nat /\ lost[a] \in Nat
  BY BssCacheAssumption, DeviceAssumption DEF LinkInvariant
<1>2. CountIn(taken, a) \in Nat
  <2>1. CASE taken = <<>>
    <3>1. CountIn(taken, a) = 0 BY <2>1, CountNone
    <3> QED BY <3>1
  <2>2. CASE taken # <<>> BY <2>2, CountHead DEF LinkInvariant
  <2> QED BY <2>1, <2>2
<1>3. /\ OneIf(LinkUp /\ ap = a) \in Nat /\ OneIf(association_context = a) \in Nat
      /\ OneIf(association_cleanup_context = a /\ ~waking) \in Nat
      /\ OneIf(disconnected_ap = a) \in Nat
  BY DEF OneIf
<1>4. Uses(a) = held[a] + lost[a] + CountIn(taken, a) + OneIf(LinkUp /\ ap = a)
                  + OneIf(association_context = a)
                  + OneIf(association_cleanup_context = a /\ ~waking)
                  + OneIf(disconnected_ap = a)
  BY UsesAre DEF UsesFrom
<1> QED BY <1>1, <1>2, <1>3, <1>4

\* A step gives references to some, or takes one back, and counts them.
UsedMore(set) ==
  /\ \A a \in APs : Uses(a)' = IF a \in set THEN Uses(a) + 1 ELSE Uses(a)
  /\ refcount' = [a \in APs |-> IF a \in set THEN refcount[a] + 1 ELSE refcount[a]]
UsedLess(b) ==
  /\ Uses(b) > 0
  /\ \A a \in APs : Uses(a)' = IF a = b THEN Uses(a) - 1 ELSE Uses(a)
  /\ refcount' = [refcount EXCEPT ![b] = @ - 1]

\* Every count is of all who use the access point, and of the cache.
ReferencesCounted ==
  refcount = [a \in APs |-> Uses(a) + OneIf(a \in Members(tree))]

\* A step that changes no use.
LEMMA SameUses ==
  ASSUME LinkInvariant, ReferencesCounted, UNCHANGED <<held, lost, linkVars, refcount>>
  PROVE  UsedMore({})
<1>1. ASSUME NEW a \in APs PROVE Uses(a)' = Uses(a)
  BY UsesAre DEF linkVars, LinkUp
<1>2. refcount' = [a \in APs |-> IF a \in {} THEN refcount[a] + 1 ELSE refcount[a]]
  <2>1. refcount = [a \in APs |-> refcount[a]] BY DEF ReferencesCounted
  <2> QED BY <2>1
<1> QED BY <1>1, <1>2 DEF UsedMore

\* Users take and return references, and nothing else moves.
LEMMA HeldChanges ==
  ASSUME LinkInvariant, held' \in [APs -> 0 .. MaxHeld], UNCHANGED <<lost, linkVars, work>>
  PROVE  /\ LinkInvariant'
         /\ \A a \in APs : Uses(a)' = Uses(a) + held'[a] - held[a]
<1>1. LinkInvariant' BY DEF LinkInvariant, linkVars, Cleaning
<1>2. ASSUME NEW a \in APs PROVE Uses(a)' = Uses(a) + held'[a] - held[a]
  <2> DEFINE rest == UsesFrom(0, lost[a], CountIn(taken, a), LinkUp /\ ap = a,
                              association_context = a,
                              association_cleanup_context = a /\ ~waking, disconnected_ap = a)
  <2>1. held[a] \in Nat /\ held'[a] \in Nat /\ lost[a] \in Nat /\ CountIn(taken, a) \in Nat
    BY <1>2, UsesType, BssCacheAssumption
  <2>2. Uses(a) = UsesFrom(held[a], lost[a], CountIn(taken, a), LinkUp /\ ap = a,
                           association_context = a,
                           association_cleanup_context = a /\ ~waking, disconnected_ap = a)
    BY UsesAre
  <2>3. Uses(a)' = UsesFrom(held'[a], lost[a], CountIn(taken, a), LinkUp /\ ap = a,
                            association_context = a,
                            association_cleanup_context = a /\ ~waking, disconnected_ap = a)
    BY UsesAre DEF linkVars, LinkUp
  <2>4. rest \in Int /\ Uses(a) = held[a] + rest /\ Uses(a)' = held'[a] + rest
    BY <2>1, <2>2, <2>3 DEF UsesFrom, OneIf
  <2> HIDE DEF rest
  <2> QED BY <2>1, <2>4
<1> QED BY <1>1, <1>2

LEMMA UserAllocates ==
  ASSUME LinkInvariant, ReferencesCounted, NEW a \in APs, u80211_ap_allocate(a),
         UNCHANGED <<lost, linkVars, work>>
  PROVE  LinkInvariant' /\ UsedMore({a}) /\ refcount[a] = 0
<1>1. /\ refcount[a] = 0 /\ refcount' = [refcount EXCEPT ![a] = 1]
      /\ held' = [held EXCEPT ![a] = 1]
  BY DEF u80211_ap_allocate
<1>2. /\ held \in [APs -> 0 .. MaxHeld] /\ DOMAIN refcount = APs
      /\ refcount = [b \in APs |-> refcount[b]]
  BY DEF LinkInvariant, ReferencesCounted
<1>3. held' \in [APs -> 0 .. MaxHeld] BY <1>1, <1>2, BssCacheAssumption
<1>4. LinkInvariant' /\ \A b \in APs : Uses(b)' = Uses(b) + held'[b] - held[b]
  BY <1>3, HeldChanges
<1>5. held[a] = 0
  <2>1. Uses(a) \in Nat /\ held[a] \in Nat /\ (held[a] > 0 => Uses(a) > 0) BY UsesType
  <2>3. refcount[a] = Uses(a) + OneIf(a \in Members(tree)) BY DEF ReferencesCounted
  <2>2. OneIf(a \in Members(tree)) \in Nat BY DEF OneIf
  <2> QED BY <1>1, <2>1, <2>2, <2>3
<1>6. ASSUME NEW b \in APs PROVE Uses(b)' = IF b \in {a} THEN Uses(b) + 1 ELSE Uses(b)
  <2>1. Uses(b) \in Nat /\ held[b] \in Nat BY UsesType
  <2> QED BY <1>1, <1>2, <1>4, <1>5, <2>1
<1>7. refcount' = [b \in APs |-> IF b \in {a} THEN refcount[b] + 1 ELSE refcount[b]]
  BY <1>1, <1>2
<1> QED BY <1>1, <1>4, <1>6, <1>7 DEF UsedMore

LEMMA UserHolds ==
  ASSUME LinkInvariant, ReferencesCounted, NEW a \in APs, u80211_ap_hold(a),
         UNCHANGED <<lost, linkVars, work>>
  PROVE  LinkInvariant' /\ UsedMore({a}) /\ Uses(a) > 0
<1>1. /\ held[a] \in 1 .. MaxHeld - 1 /\ refcount' = [refcount EXCEPT ![a] = @ + 1]
      /\ held' = [held EXCEPT ![a] = @ + 1]
  BY DEF u80211_ap_hold, Held
<1>2. /\ held \in [APs -> 0 .. MaxHeld] /\ DOMAIN refcount = APs
      /\ refcount = [b \in APs |-> refcount[b]]
  BY DEF LinkInvariant, ReferencesCounted
<1>3. held' \in [APs -> 0 .. MaxHeld] BY <1>1, <1>2, BssCacheAssumption
<1>4. LinkInvariant' /\ \A b \in APs : Uses(b)' = Uses(b) + held'[b] - held[b]
  BY <1>3, HeldChanges
<1>5. ASSUME NEW b \in APs PROVE Uses(b)' = IF b \in {a} THEN Uses(b) + 1 ELSE Uses(b)
  <2>1. Uses(b) \in Nat /\ held[b] \in Nat BY UsesType
  <2> QED BY <1>1, <1>2, <1>4, <2>1
<1>6. refcount' = [b \in APs |-> IF b \in {a} THEN refcount[b] + 1 ELSE refcount[b]]
  BY <1>1, <1>2
<1>7. Uses(a) > 0 BY <1>1, UsesType
<1> QED BY <1>4, <1>5, <1>6, <1>7 DEF UsedMore

LEMMA UserReleases ==
  ASSUME LinkInvariant, ReferencesCounted, NEW a \in APs, u80211_ap_release(a),
         UNCHANGED <<lost, linkVars, work>>
  PROVE  LinkInvariant' /\ UsedLess(a)
<1>1. /\ held[a] > 0 /\ refcount' = [refcount EXCEPT ![a] = @ - 1]
      /\ held' = [held EXCEPT ![a] = @ - 1]
  BY DEF u80211_ap_release, Released
<1>2. held \in [APs -> 0 .. MaxHeld] BY DEF LinkInvariant
<1>3. held' \in [APs -> 0 .. MaxHeld] BY <1>1, <1>2, BssCacheAssumption
<1>4. LinkInvariant' /\ \A b \in APs : Uses(b)' = Uses(b) + held'[b] - held[b]
  BY <1>3, HeldChanges
<1>5. ASSUME NEW b \in APs PROVE Uses(b)' = IF b = a THEN Uses(b) - 1 ELSE Uses(b)
  <2>1. Uses(b) \in Nat /\ held[b] \in Nat BY UsesType
  <2> QED BY <1>1, <1>2, <1>4, <2>1
<1>6. Uses(a) > 0 BY <1>1, UsesType
<1> QED BY <1>1, <1>4, <1>5, <1>6 DEF UsedLess

LEMMA UsersAreGiven ==
  ASSUME LinkInvariant, ReferencesCounted, NEW set \in SUBSET APs, GivenOut(set),
         UNCHANGED <<lost, linkVars, work>>
  PROVE  LinkInvariant' /\ UsedMore(set)
<1>1. /\ \A b \in set : held[b] < MaxHeld
      /\ refcount' = [b \in APs |-> IF b \in set THEN refcount[b] + 1 ELSE refcount[b]]
      /\ held' = [b \in APs |-> IF b \in set THEN held[b] + 1 ELSE held[b]]
  BY DEF GivenOut
<1>2. held \in [APs -> 0 .. MaxHeld] BY DEF LinkInvariant
<1>3. held' \in [APs -> 0 .. MaxHeld] BY <1>1, <1>2, BssCacheAssumption
<1>4. LinkInvariant' /\ \A b \in APs : Uses(b)' = Uses(b) + held'[b] - held[b]
  BY <1>3, HeldChanges
<1>5. ASSUME NEW b \in APs PROVE Uses(b)' = IF b \in set THEN Uses(b) + 1 ELSE Uses(b)
  <2>1. Uses(b) \in Nat /\ held[b] \in Nat BY UsesType
  <2>2. held'[b] = IF b \in set THEN held[b] + 1 ELSE held[b] BY <1>1
  <2>3. Uses(b)' = Uses(b) + held'[b] - held[b] BY <1>4
  <2> QED BY <2>1, <2>2, <2>3
<1> QED BY <1>1, <1>4, <1>5 DEF UsedMore

\* A request for a work, or the end of one, does not change whether another runs.
LEMMA RunningKept ==
  ASSUME work \in [Works -> [queued : BOOLEAN, running : BOOLEAN]], NEW w \in Works,
         NEW value, work' = [work EXCEPT ![w].queued = value]
  PROVE  Cleaning' <=> Cleaning
<1> DEFINE a == "association_cleanup_work"
<1>1. a \in Works BY DEF Works
<1>2. CASE w = a
  <2> DEFINE old == work[a]
  <2>1. PICK queued \in BOOLEAN, running \in BOOLEAN :
          old = [queued |-> queued, running |-> running]
    BY <1>1
  <2>2. work'[a] = [old EXCEPT !.queued = value] BY <1>1, <1>2
  <2> HIDE DEF old
  <2>3. work'[a] = [queued |-> value, running |-> running] BY <2>1, <2>2, RecordFields
  <2>4. work'[a].running = old.running BY <2>1, <2>3
  <2> QED BY <2>4 DEF Cleaning, old
<1>3. CASE w # a
  <2>1. work'[a] = work[a] BY <1>1, <1>3
  <2> QED BY <2>1 DEF Cleaning
<1> QED BY <1>2, <1>3

LEMMA AttemptBegins ==
  ASSUME LinkInvariant, ReferencesCounted, NEW b \in APs, u80211_associate(b)
  PROVE  LinkInvariant' /\ UsedMore({b}) /\ Uses(b) > 0
<1>1. /\ held[b] > 0 /\ ap = None /\ association_context = None
      /\ association_cleanup_context = None /\ refcount' = [refcount EXCEPT ![b] = @ + 1]
      /\ association_context' = b /\ ap' = b
      /\ UNCHANGED <<held, association_cleanup_context, disconnected_ap, work, taken, waking, lost>>
  BY DEF u80211_associate, Held
<1>2. b \in Pointers /\ b # None /\ None \notin APs BY RbTreeAssumption DEF Pointers, APs
<1>3. LinkInvariant' BY <1>1, <1>2 DEF LinkInvariant, Cleaning
<1>4. ASSUME NEW a \in APs PROVE Uses(a)' = IF a \in {b} THEN Uses(a) + 1 ELSE Uses(a)
  <2>1. held[a] \in Nat /\ lost[a] \in Nat /\ CountIn(taken, a) \in Nat BY UsesType
  <2>2. Uses(a) = UsesFrom(held[a], lost[a], CountIn(taken, a), FALSE, FALSE, FALSE,
                           disconnected_ap = a)
    BY <1>1, <1>2, UsesAre DEF LinkUp, UsesFrom, OneIf
  <2>3. Uses(a)' = UsesFrom(held[a], lost[a], CountIn(taken, a), FALSE, b = a, FALSE,
                            disconnected_ap = a)
    BY <1>1, <1>2, UsesAre DEF LinkUp, UsesFrom, OneIf
  <2> QED BY <2>1, <2>2, <2>3 DEF UsesFrom, OneIf
<1>5. refcount' = [a \in APs |-> IF a \in {b} THEN refcount[a] + 1 ELSE refcount[a]]
  <2>1. DOMAIN refcount = APs /\ refcount = [a \in APs |-> refcount[a]] BY DEF ReferencesCounted
  <2> QED BY <1>1, <2>1
<1>6. Uses(b) > 0 BY <1>1, UsesType
<1> QED BY <1>3, <1>4, <1>5, <1>6 DEF UsedMore

LEMMA AttemptIsOver ==
  ASSUME LinkInvariant, ReferencesCounted, WorksOfStage, NEW success \in BOOLEAN,
         AttemptEnds(success)
  PROVE  /\ LinkInvariant' /\ UsedMore(IF success THEN {ap} ELSE {})
         /\ ap \in APs /\ Uses(ap) > 0
<1> DEFINE b == association_context
<1>1. /\ b # None /\ b \in Pointers /\ ap = b /\ association_cleanup_context = None
      /\ waking = FALSE
      /\ refcount' = IF success THEN [refcount EXCEPT ![b] = @ + 1] ELSE refcount
      /\ ap' = IF success THEN b ELSE None
      /\ association_context' = None /\ association_cleanup_context' = b
      /\ UNCHANGED <<held, disconnected_ap, taken, waking, lost>>
  BY DEF AttemptEnds, LinkInvariant, Held
<1>2. b \in APs /\ None \notin APs BY <1>1, RbTreeAssumption DEF Pointers, APs
<1>3. Cleaning' <=> Cleaning
  <2>1. "association_cleanup_work" \in Works BY DEF Works
  <2>2. work' = [work EXCEPT !["association_cleanup_work"].queued = TRUE]
    BY DEF AttemptEnds, Enqueued
  <2> QED BY <2>1, <2>2, RunningKept DEF WorksOfStage
<1>4. association_context = b /\ None \in Pointers BY DEF Pointers
<1> HIDE DEF b
<1>5. LinkInvariant' BY <1>1, <1>2, <1>3, <1>4 DEF LinkInvariant
<1>6. ASSUME NEW a \in APs
      PROVE  /\ Uses(a)' = IF success /\ a = b THEN Uses(a) + 1 ELSE Uses(a)
             /\ a = b => Uses(a) > 0
  <2>1. held[a] \in Nat /\ lost[a] \in Nat /\ CountIn(taken, a) \in Nat BY UsesType
  <2>2. Uses(a) = UsesFrom(held[a], lost[a], CountIn(taken, a), FALSE, b = a, FALSE,
                           disconnected_ap = a)
    BY <1>1, <1>2, <1>4, UsesAre DEF LinkUp, UsesFrom, OneIf
  <2>3. Uses(a)' = UsesFrom(held[a], lost[a], CountIn(taken, a), success /\ b = a, FALSE, b = a,
                            disconnected_ap = a)
    BY <1>1, <1>2, UsesAre DEF LinkUp, UsesFrom, OneIf
  <2> QED BY <2>1, <2>2, <2>3 DEF UsesFrom, OneIf
<1>7. /\ DOMAIN refcount = APs /\ refcount = [a \in APs |-> refcount[a]] BY DEF ReferencesCounted
<1>8. CASE success
  <2>1. refcount' = [a \in APs |-> IF a \in {ap} THEN refcount[a] + 1 ELSE refcount[a]]
    BY <1>1, <1>2, <1>7, <1>8
  <2>2. \A a \in APs : Uses(a)' = IF a \in {ap} THEN Uses(a) + 1 ELSE Uses(a)
    BY <1>1, <1>6, <1>8
  <2> QED BY <1>1, <1>2, <1>5, <1>6, <1>8, <2>1, <2>2 DEF UsedMore
<1>9. CASE ~success
  <2>1. refcount' = [a \in APs |-> IF a \in {} THEN refcount[a] + 1 ELSE refcount[a]]
    BY <1>1, <1>7, <1>9
  <2>2. \A a \in APs : Uses(a)' = IF a \in {} THEN Uses(a) + 1 ELSE Uses(a)
    BY <1>6, <1>9
  <2> QED BY <1>1, <1>2, <1>5, <1>6, <1>9, <2>1, <2>2 DEF UsedMore
<1> QED BY <1>8, <1>9

\* A loss is counted.
LEMMA LossType ==
  ASSUME LinkInvariant, NEW b \in APs, Lost(b)
  PROVE  /\ lost' \in [APs -> 0 .. MaxLost]
         /\ \A a \in APs : lost'[a] = lost[a] + OneIf(a = b)
<1>1. lost \in [APs -> 0 .. MaxLost] /\ lost[b] < MaxLost /\ lost' = [lost EXCEPT ![b] = @ + 1]
  BY DEF LinkInvariant, Lost
<1>2. lost' \in [APs -> 0 .. MaxLost] BY <1>1, DeviceAssumption
<1>3. \A a \in APs : lost'[a] = lost[a] + OneIf(a = b)
  BY <1>1, DeviceAssumption DEF OneIf
<1> QED BY <1>2, <1>3

LEMMA LinkIsTornDown ==
  ASSUME LinkInvariant, ReferencesCounted, WorksOfStage, association_process_teardown
  PROVE  LinkInvariant' /\ UsedMore({})
<1>1. /\ ap # None /\ ap \in Pointers /\ association_context = None
      /\ disconnected_ap' = ap /\ ap' = None
      /\ UNCHANGED <<held, refcount, association_context, association_cleanup_context, taken,
                     waking>>
  BY DEF association_process_teardown, LinkUp, cacheVars, LinkInvariant
<1>2. ap \in APs /\ None \notin APs /\ None \in Pointers
  BY <1>1, RbTreeAssumption DEF Pointers, APs
<1>3. Cleaning' <=> Cleaning
  <2>1. "association_cleanup_work" \in Works BY DEF Works
  <2>2. work' = [work EXCEPT !["association_cleanup_work"].queued = TRUE]
    BY DEF association_process_teardown, Enqueued
  <2> QED BY <2>1, <2>2, RunningKept DEF WorksOfStage
<1>4. /\ lost' \in [APs -> 0 .. MaxLost]
      /\ \A a \in APs : lost'[a] = lost[a] + OneIf(disconnected_ap = a)
  <2>1. CASE disconnected_ap = None
    <3>1. lost' = lost BY <2>1 DEF association_process_teardown
    <3>2. \A a \in APs : lost[a] \in Nat /\ OneIf(disconnected_ap = a) = 0
      BY <1>2, <2>1, UsesType DEF OneIf
    <3> QED BY <3>1, <3>2 DEF LinkInvariant
  <2>2. CASE disconnected_ap # None
    <3>1. disconnected_ap \in APs /\ Lost(disconnected_ap)
      BY <2>2 DEF association_process_teardown, LinkInvariant, Pointers, APs
    <3>2. /\ lost' \in [APs -> 0 .. MaxLost]
          /\ \A a \in APs : lost'[a] = lost[a] + OneIf(a = disconnected_ap)
      BY <3>1, LossType
    <3> QED BY <3>2 DEF OneIf
  <2> QED BY <2>1, <2>2
<1>5. LinkInvariant' BY <1>1, <1>2, <1>3, <1>4 DEF LinkInvariant
<1>6. ASSUME NEW a \in APs PROVE Uses(a)' = IF a \in {} THEN Uses(a) + 1 ELSE Uses(a)
  <2>1. held[a] \in Nat /\ lost[a] \in Nat /\ CountIn(taken, a) \in Nat BY UsesType
  <2>2. Uses(a) = UsesFrom(held[a], lost[a], CountIn(taken, a), ap = a, FALSE,
                           association_cleanup_context = a /\ ~waking, disconnected_ap = a)
    BY <1>1, <1>2, UsesAre DEF LinkUp, UsesFrom, OneIf
  <2>3. Uses(a)' = UsesFrom(held[a], lost'[a], CountIn(taken, a), FALSE, FALSE,
                            association_cleanup_context = a /\ ~waking, ap = a)
    BY <1>1, <1>2, UsesAre DEF LinkUp, UsesFrom, OneIf
  <2>4. lost'[a] = lost[a] + OneIf(disconnected_ap = a) BY <1>4
  <2> QED BY <2>1, <2>2, <2>3, <2>4 DEF UsesFrom, OneIf
<1>7. refcount' = [a \in APs |-> IF a \in {} THEN refcount[a] + 1 ELSE refcount[a]]
  <2>1. refcount = [a \in APs |-> refcount[a]] BY DEF ReferencesCounted
  <2> QED BY <1>1, <2>1
<1> QED BY <1>5, <1>6, <1>7 DEF UsedMore

LEMMA LinkIsLeft ==
  ASSUME LinkInvariant, ReferencesCounted, u80211_deauthenticate
  PROVE  LinkInvariant' /\ UsedLess(ap) /\ ap \in APs
<1>1. /\ ap # None /\ ap \in Pointers /\ association_context = None /\ ap' = None
      /\ refcount' = [refcount EXCEPT ![ap] = @ - 1]
      /\ UNCHANGED <<held, association_context, association_cleanup_context, disconnected_ap,
                     work, taken, waking, lost>>
  BY DEF u80211_deauthenticate, LinkUp, LinkInvariant, Released
<1>2. ap \in APs /\ None \notin APs /\ None \in Pointers
  BY <1>1, RbTreeAssumption DEF Pointers, APs
<1>3. LinkInvariant' BY <1>1, <1>2 DEF LinkInvariant, Cleaning
<1>4. ASSUME NEW a \in APs
      PROVE  /\ Uses(a)' = IF a = ap THEN Uses(a) - 1 ELSE Uses(a)
             /\ a = ap => Uses(a) > 0
  <2>1. held[a] \in Nat /\ lost[a] \in Nat /\ CountIn(taken, a) \in Nat BY UsesType
  <2>2. Uses(a) = UsesFrom(held[a], lost[a], CountIn(taken, a), ap = a, FALSE,
                           association_cleanup_context = a /\ ~waking, disconnected_ap = a)
    BY <1>1, <1>2, UsesAre DEF LinkUp, UsesFrom, OneIf
  <2>3. Uses(a)' = UsesFrom(held[a], lost[a], CountIn(taken, a), FALSE, FALSE,
                            association_cleanup_context = a /\ ~waking, disconnected_ap = a)
    BY <1>1, <1>2, UsesAre DEF LinkUp, UsesFrom, OneIf
  <2> QED BY <2>1, <2>2, <2>3 DEF UsesFrom, OneIf
<1> QED BY <1>1, <1>2, <1>3, <1>4 DEF UsedLess

LEMMA CleanupTakes ==
  ASSUME LinkInvariant, ReferencesCounted, WorksOfStage, CleanupBegins
  PROVE  LinkInvariant' /\ UsedMore({})
<1>1. /\ waking' = (association_cleanup_context # None) /\ disconnected_ap' = None
      /\ UNCHANGED <<held, refcount, ap, association_context, association_cleanup_context, lost>>
  BY DEF CleanupBegins, cacheVars
<1>2. None \notin APs /\ None \in Pointers /\ Pointers = APs \cup {None}
  BY RbTreeAssumption DEF Pointers, APs
<1>3. /\ taken' \in Seq(APs)
      /\ \A a \in APs : CountIn(taken', a) = (IF association_cleanup_context = a THEN 1 ELSE 0)
                                               + (IF disconnected_ap = a THEN 1 ELSE 0)
  <2>1. taken' = BothOf(association_cleanup_context, disconnected_ap, None)
    BY DEF CleanupBegins, BothOf
  <2>2. association_cleanup_context \in APs \cup {None} /\ disconnected_ap \in APs \cup {None}
    BY <1>2 DEF LinkInvariant
  <2> QED BY <1>2, <2>1, <2>2, CountTwo
<1>4. /\ ~Cleaning /\ Cleaning'
  <2>1. "association_cleanup_work" \in Works BY DEF Works
  <2>2. /\ work["association_cleanup_work"] = [queued |-> TRUE, running |-> FALSE]
        /\ work' = [work EXCEPT !["association_cleanup_work"] = [queued |-> FALSE,
                                                                 running |-> TRUE]]
    BY DEF CleanupBegins
  <2> QED BY <2>1, <2>2 DEF Cleaning, WorksOfStage
<1>5. taken = <<>> /\ waking = FALSE BY <1>4 DEF LinkInvariant
<1>6. LinkInvariant' BY <1>1, <1>2, <1>3, <1>4 DEF LinkInvariant
<1>7. ASSUME NEW a \in APs PROVE Uses(a)' = IF a \in {} THEN Uses(a) + 1 ELSE Uses(a)
  <2>1. held[a] \in Nat /\ lost[a] \in Nat /\ CountIn(taken, a) = 0
    BY <1>5, UsesType, CountNone
  <2>2. LinkUp' <=> LinkUp BY <1>1 DEF LinkUp
  <2>3. Uses(a) = UsesFrom(held[a], lost[a], 0, LinkUp /\ ap = a, association_context = a,
                           association_cleanup_context = a, disconnected_ap = a)
    BY <1>5, <2>1, UsesAre DEF UsesFrom, OneIf
  <2>4. Uses(a)' = UsesFrom(held[a], lost[a], CountIn(taken', a), LinkUp /\ ap = a,
                            association_context = a, FALSE, FALSE)
    <3>1. Uses(a)' = UsesFrom(held[a], lost[a], CountIn(taken', a), LinkUp' /\ ap' = a,
                              association_context = a,
                              association_cleanup_context' = a /\ ~waking', disconnected_ap' = a)
      BY <1>1, UsesAre
    <3>2. ~(association_cleanup_context' = a /\ ~waking') /\ disconnected_ap' # a BY <1>1, <1>2
    <3> QED BY <1>1, <2>2, <3>1, <3>2 DEF UsesFrom, OneIf
  <2>5. CountIn(taken', a) = OneIf(association_cleanup_context = a) + OneIf(disconnected_ap = a)
    BY <1>3 DEF OneIf
  <2> QED BY <2>1, <2>3, <2>4, <2>5 DEF UsesFrom, OneIf
<1>8. refcount' = [a \in APs |-> IF a \in {} THEN refcount[a] + 1 ELSE refcount[a]]
  <2>1. refcount = [a \in APs |-> refcount[a]] BY DEF ReferencesCounted
  <2> QED BY <1>1, <2>1
<1> QED BY <1>6, <1>7, <1>8 DEF UsedMore

LEMMA CleanupReleasesOne ==
  ASSUME LinkInvariant, ReferencesCounted, CleanupReleases
  PROVE  LinkInvariant' /\ UsedLess(Head(taken)) /\ Head(taken) \in APs
<1> DEFINE b == Head(taken)
           rest == Tail(taken)
<1>1. /\ Cleaning /\ taken # <<>> /\ taken' = rest
      /\ refcount' = [refcount EXCEPT ![b] = @ - 1]
      /\ UNCHANGED <<held, ap, association_context, association_cleanup_context,
                     disconnected_ap, work, waking, lost>>
  BY DEF CleanupReleases, Released
<1>2. taken \in Seq(APs) BY DEF LinkInvariant
<1>3. b \in APs /\ rest \in Seq(APs) BY <1>1, <1>2
<1>4. \A a \in APs : /\ CountIn(rest, a) \in Nat
                     /\ CountIn(taken, a) = CountIn(rest, a) + IF b = a THEN 1 ELSE 0
  BY <1>1, <1>2, CountHead
<1> HIDE DEF b, rest
<1>5. LinkInvariant' BY <1>1, <1>3 DEF LinkInvariant, Cleaning
<1>6. ASSUME NEW a \in APs
      PROVE  /\ Uses(a)' = IF a = b THEN Uses(a) - 1 ELSE Uses(a)
             /\ a = b => Uses(a) > 0
  <2>1. /\ held[a] \in Nat /\ lost[a] \in Nat /\ CountIn(rest, a) \in Nat
        /\ CountIn(taken, a) = CountIn(rest, a) + IF b = a THEN 1 ELSE 0
    BY <1>4, UsesType
  <2> DEFINE others == UsesFrom(held[a], lost[a], 0, LinkUp /\ ap = a, association_context = a,
                                association_cleanup_context = a /\ ~waking, disconnected_ap = a)
  <2>2. LinkUp' <=> LinkUp BY <1>1 DEF LinkUp
  <2>3. others \in Nat /\ Uses(a) = others + CountIn(taken, a) BY <2>1, UsesAre DEF UsesFrom, OneIf
  <2>4. Uses(a)' = UsesFrom(held[a], lost[a], CountIn(rest, a), LinkUp /\ ap = a,
                            association_context = a,
                            association_cleanup_context = a /\ ~waking, disconnected_ap = a)
    BY <1>1, <2>2, UsesAre
  <2>5. Uses(a)' = others + CountIn(rest, a) BY <2>1, <2>4 DEF UsesFrom, OneIf
  <2> HIDE DEF others
  <2> QED BY <2>1, <2>3, <2>5
<1> QED BY <1>1, <1>3, <1>5, <1>6 DEF UsedLess, b

LEMMA CleanupWakesThem ==
  ASSUME LinkInvariant, ReferencesCounted, CleanupWakes
  PROVE  LinkInvariant' /\ UsedMore({})
<1>1. /\ Cleaning /\ waking = TRUE /\ waking' = FALSE /\ association_cleanup_context' = None
      /\ UNCHANGED <<held, refcount, ap, association_context, disconnected_ap, work, taken, lost>>
  BY DEF CleanupWakes, cacheVars, LinkInvariant
<1>2. None \notin APs /\ None \in Pointers BY RbTreeAssumption DEF Pointers, APs
<1>3. LinkInvariant' BY <1>1, <1>2 DEF LinkInvariant, Cleaning
<1>4. ASSUME NEW a \in APs PROVE Uses(a)' = IF a \in {} THEN Uses(a) + 1 ELSE Uses(a)
  <2>1. LinkUp' <=> LinkUp BY <1>1 DEF LinkUp
  <2>2. Uses(a) = UsesFrom(held[a], lost[a], CountIn(taken, a), LinkUp /\ ap = a,
                           association_context = a, FALSE, disconnected_ap = a)
    BY <1>1, UsesAre DEF UsesFrom, OneIf
  <2>3. Uses(a)' = UsesFrom(held[a], lost[a], CountIn(taken, a), LinkUp /\ ap = a,
                            association_context = a, FALSE, disconnected_ap = a)
    BY <1>1, <1>2, <2>1, UsesAre DEF UsesFrom, OneIf
  <2> QED BY <2>2, <2>3
<1>5. refcount' = [a \in APs |-> IF a \in {} THEN refcount[a] + 1 ELSE refcount[a]]
  <2>1. refcount = [a \in APs |-> refcount[a]] BY DEF ReferencesCounted
  <2> QED BY <1>1, <2>1
<1> QED BY <1>3, <1>4, <1>5 DEF UsedMore

\* The reference to the access point of an earlier link is dropped.
LEMMA DisconnectedIsDropped ==
  ASSUME LinkInvariant, ReferencesCounted, DropDisconnected,
         UNCHANGED <<ap, association_context, association_cleanup_context, taken, waking, work,
                     lost>>
  PROVE  LinkInvariant' /\ UsedLess(disconnected_ap) /\ disconnected_ap \in APs
<1>1. /\ disconnected_ap # None /\ disconnected_ap \in Pointers /\ disconnected_ap' = None
      /\ refcount' = [refcount EXCEPT ![disconnected_ap] = @ - 1] /\ UNCHANGED held
  BY DEF DropDisconnected, LinkInvariant, Released
<1>2. disconnected_ap \in APs /\ None \notin APs /\ None \in Pointers
  BY <1>1, RbTreeAssumption DEF Pointers, APs
<1>3. LinkInvariant' BY <1>1, <1>2 DEF LinkInvariant, Cleaning
<1>4. ASSUME NEW a \in APs
      PROVE  /\ Uses(a)' = IF a = disconnected_ap THEN Uses(a) - 1 ELSE Uses(a)
             /\ a = disconnected_ap => Uses(a) > 0
  <2>1. held[a] \in Nat /\ lost[a] \in Nat /\ CountIn(taken, a) \in Nat BY UsesType
  <2>2. LinkUp' <=> LinkUp BY DEF LinkUp
  <2>3. Uses(a) = UsesFrom(held[a], lost[a], CountIn(taken, a), LinkUp /\ ap = a,
                           association_context = a,
                           association_cleanup_context = a /\ ~waking, disconnected_ap = a)
    BY UsesAre
  <2>4. Uses(a)' = UsesFrom(held[a], lost[a], CountIn(taken, a), LinkUp /\ ap = a,
                            association_context = a,
                            association_cleanup_context = a /\ ~waking, FALSE)
    BY <1>1, <1>2, <2>2, UsesAre DEF UsesFrom, OneIf
  <2> QED BY <2>1, <2>3, <2>4 DEF UsesFrom, OneIf
<1> QED BY <1>1, <1>2, <1>3, <1>4 DEF UsedLess

\* The reference of a link that is up is lost with the device.
LEMMA LinkIsLost ==
  ASSUME LinkInvariant, ReferencesCounted, u80211_unregister_device
  PROVE  LinkInvariant' /\ UsedMore({})
<1>1. /\ association_context = None /\ ap \in Pointers /\ ap' = None
      /\ UNCHANGED <<held, refcount, association_context, association_cleanup_context,
                     disconnected_ap, work, taken, waking>>
  BY DEF u80211_unregister_device, Idle, cacheVars, LinkInvariant
<1>2. None \notin APs /\ None \in Pointers BY RbTreeAssumption DEF Pointers, APs
<1>3. /\ lost' \in [APs -> 0 .. MaxLost]
      /\ \A a \in APs : lost'[a] = lost[a] + OneIf(ap = a)
  <2>1. CASE ap = None
    <3>1. lost' = lost BY <2>1 DEF u80211_unregister_device
    <3>2. \A a \in APs : lost[a] \in Nat /\ OneIf(ap = a) = 0
      BY <1>2, <2>1, UsesType DEF OneIf
    <3> QED BY <3>1, <3>2 DEF LinkInvariant
  <2>2. CASE ap # None
    <3>1. ap \in APs /\ Lost(ap)
      BY <1>1, <2>2 DEF u80211_unregister_device, Pointers, APs
    <3>2. /\ lost' \in [APs -> 0 .. MaxLost]
          /\ \A a \in APs : lost'[a] = lost[a] + OneIf(a = ap)
      BY <3>1, LossType
    <3> QED BY <3>2 DEF OneIf
  <2> QED BY <2>1, <2>2
<1>4. LinkInvariant' BY <1>1, <1>2, <1>3 DEF LinkInvariant, Cleaning
<1>5. ASSUME NEW a \in APs PROVE Uses(a)' = IF a \in {} THEN Uses(a) + 1 ELSE Uses(a)
  <2>1. held[a] \in Nat /\ lost[a] \in Nat /\ CountIn(taken, a) \in Nat BY UsesType
  <2>2. Uses(a) = UsesFrom(held[a], lost[a], CountIn(taken, a), ap = a, association_context = a,
                           association_cleanup_context = a /\ ~waking, disconnected_ap = a)
    BY <1>1, <1>2, UsesAre DEF LinkUp, UsesFrom, OneIf
  <2>3. Uses(a)' = UsesFrom(held[a], lost'[a], CountIn(taken, a), FALSE, association_context = a,
                            association_cleanup_context = a /\ ~waking, disconnected_ap = a)
    BY <1>1, <1>2, UsesAre DEF LinkUp, UsesFrom, OneIf
  <2>4. lost'[a] = lost[a] + OneIf(ap = a) BY <1>3
  <2> QED BY <2>1, <2>2, <2>3, <2>4 DEF UsesFrom, OneIf
<1>6. refcount' = [a \in APs |-> IF a \in {} THEN refcount[a] + 1 ELSE refcount[a]]
  <2>1. refcount = [a \in APs |-> refcount[a]] BY DEF ReferencesCounted
  <2> QED BY <1>1, <2>1
<1> QED BY <1>4, <1>5, <1>6 DEF UsedMore
-----------------------------------------------------------------------------
(***************************************************************************)
(* The cache.                                                              *)
(***************************************************************************)

\* The tree is a sound one of the entries, and what is counted is what there is.
CacheInvariant ==
  /\ Sound(tree, Members(tree)) /\ entry_count = Cardinality(Members(tree))
  /\ ReferencesCounted

\* A sweep has the entries from the iterator on before it; one found unused is in
\* nobody's hands until it is dropped; and the last sweep leaves none.
SweepInvariant ==
  /\ sweep \in Sweeps
  /\ Unlocked => sweep = NoSweep
  /\ sweep.left \subseteq Members(tree) /\ sweep.iterator = SmallestOf(sweep.left)
  /\ \A m \in Members(tree) \ sweep.left, n \in sweep.left : Key[m] < Key[n]
  /\ sweep.unused => /\ sweep.by = "purge" /\ sweep.iterator # None
                     /\ Uses(sweep.iterator) = 0
  /\ sweep.by = "deinit" => sweep.left = Members(tree)

\* There are entries only while the device is up or its end has not come to the cache.
CacheOfStage ==
  /\ Up \/ (\E step \in 1 .. 6 : At("unregister", step)) \/ Members(tree) = {}
  /\ At("unregister", 6) => sweep.by = "deinit"

\* What lives is what is in the cache or in use.
AliveIsUsed ==
  /\ Members(tree) \in SUBSET APs
  /\ {a \in APs : refcount[a] > 0}
       = Members(tree) \cup {a \in APs : [b \in APs |-> Uses(b)][a] > 0}

LEMMA AliveAre == LinkInvariant /\ CacheInvariant => AliveIsUsed
<1> SUFFICES ASSUME LinkInvariant, CacheInvariant PROVE AliveIsUsed OBVIOUS
<1>1. Members(tree) \in SUBSET APs
  <2> DEFINE members == Members(tree)
  <2>1. Sound(tree, members) BY DEF CacheInvariant
  <2> HIDE DEF members
  <2>2. Served(tree, members) BY <2>1, SoundIsServed
  <2> QED BY <2>2 DEF Served, members, APs
<1>2. ASSUME NEW a \in APs PROVE refcount[a] > 0 <=> a \in Members(tree) \/ Uses(a) > 0
  <2>1. Uses(a) \in Nat BY UsesType
  <2>2. refcount[a] = Uses(a) + OneIf(a \in Members(tree))
    BY DEF CacheInvariant, ReferencesCounted
  <2>3. CASE a \in Members(tree) BY <2>1, <2>2, <2>3 DEF OneIf
  <2>4. CASE a \notin Members(tree)
    <3>1. OneIf(a \in Members(tree)) = 0 BY <2>4 DEF OneIf
    <3> QED BY <2>1, <2>2, <2>4, <3>1
  <2> QED BY <2>3, <2>4
<1> QED BY <1>1, <1>2 DEF AliveIsUsed

\* The counts follow the uses, whatever the step, if the entries stay.
LEMMA CountsFollow ==
  ASSUME LinkInvariant, CacheInvariant, UNCHANGED <<tree, entry_count>>,
         (\E set \in SUBSET APs : UsedMore(set)) \/ (\E b \in APs : UsedLess(b))
  PROVE  CacheInvariant'
<1>1. ASSUME NEW a \in APs
      PROVE  /\ Uses(a) \in Nat /\ OneIf(a \in Members(tree)) \in Nat
             /\ refcount[a] = Uses(a) + OneIf(a \in Members(tree))
  BY UsesType DEF CacheInvariant, ReferencesCounted, OneIf
<1>2. DOMAIN refcount = APs BY DEF CacheInvariant, ReferencesCounted
<1>3. /\ refcount' = [a \in APs |-> refcount'[a]]
      /\ \A a \in APs : refcount'[a] = Uses(a)' + OneIf(a \in Members(tree))
  <2>1. CASE \E set \in SUBSET APs : UsedMore(set)
    <3>1. PICK set \in SUBSET APs : UsedMore(set) BY <2>1
    <3>2. refcount' = [a \in APs |-> refcount'[a]] BY <3>1 DEF UsedMore
    <3>3. ASSUME NEW a \in APs PROVE refcount'[a] = Uses(a)' + OneIf(a \in Members(tree))
      <4>1. /\ refcount'[a] = IF a \in set THEN refcount[a] + 1 ELSE refcount[a]
            /\ Uses(a)' = IF a \in set THEN Uses(a) + 1 ELSE Uses(a)
        BY <3>1 DEF UsedMore
      <4> QED BY <1>1, <4>1
    <3> QED BY <3>2, <3>3
  <2>2. CASE \E b \in APs : UsedLess(b)
    <3>1. PICK b \in APs : UsedLess(b) BY <2>2
    <3>2. refcount' = [a \in APs |-> refcount'[a]] BY <1>2, <3>1 DEF UsedLess
    <3>3. ASSUME NEW a \in APs PROVE refcount'[a] = Uses(a)' + OneIf(a \in Members(tree))
      <4>1. /\ refcount'[a] = IF a = b THEN refcount[a] - 1 ELSE refcount[a]
            /\ Uses(a)' = IF a = b THEN Uses(a) - 1 ELSE Uses(a)
        BY <1>2, <3>1 DEF UsedLess
      <4> QED BY <1>1, <4>1
    <3> QED BY <3>2, <3>3
  <2> QED BY <2>1, <2>2
<1>4. ReferencesCounted'
  <2>1. tree' = tree OBVIOUS
  <2>2. \A a \in APs : refcount'[a] = Uses(a)' + OneIf(a \in Members(tree')) BY <1>3, <2>1
  <2>3. refcount' = [a \in APs |-> Uses(a)' + OneIf(a \in Members(tree'))] BY <1>3, <2>2
  <2> QED BY <2>3 DEF ReferencesCounted
<1>5. Sound(tree, Members(tree))' /\ (entry_count = Cardinality(Members(tree)))'
  <2>1. tree' = tree /\ entry_count' = entry_count OBVIOUS
  <2> QED BY <2>1 DEF CacheInvariant
<1> QED BY <1>4, <1>5 DEF CacheInvariant

\* ... and a sweep stays where it is, if nobody takes the entry it found unused.
LEMMA SweepStays ==
  ASSUME LinkInvariant, SweepInvariant, UNCHANGED <<tree, sweep>>,
         \/ \E set \in SUBSET APs :
              UsedMore(set) /\ \A a \in set : sweep.unused => a # sweep.iterator
         \/ \E b \in APs : UsedLess(b)
  PROVE  SweepInvariant'
<1>1. ASSUME sweep.unused PROVE Uses(sweep.iterator)' = 0
  <2>1. PICK i \in APs : i = sweep.iterator /\ Uses(i) = 0
    <3>1. /\ sweep.iterator # None /\ sweep.iterator \in Pointers /\ Uses(sweep.iterator) = 0
      BY <1>1 DEF SweepInvariant, Sweeps
    <3> QED BY <3>1 DEF Pointers, APs
  <2>2. Uses(i)' = 0
    <3>1. CASE \E set \in SUBSET APs :
                 UsedMore(set) /\ \A a \in set : sweep.unused => a # sweep.iterator
      <4>1. PICK set \in SUBSET APs : UsedMore(set) /\ i \notin set BY <1>1, <2>1, <3>1
      <4> QED BY <2>1, <4>1 DEF UsedMore
    <3>2. CASE \E b \in APs : UsedLess(b)
      <4>1. PICK b \in APs : UsedLess(b) BY <3>2
      <4>2. Uses(b) > 0 /\ Uses(i)' = IF i = b THEN Uses(i) - 1 ELSE Uses(i)
        BY <2>1, <4>1 DEF UsedLess
      <4>3. i # b BY <2>1, <4>2
      <4> QED BY <2>1, <4>2, <4>3
    <3> QED BY <3>1, <3>2
  <2>3. sweep'.iterator = i BY <2>1
  <2> QED BY <2>2, <2>3
<1>2. sweep' = sweep /\ tree' = tree OBVIOUS
<1>3. (sweep.unused => Uses(sweep.iterator) = 0)' BY <1>1, <1>2
<1>4. /\ (sweep \in Sweeps)' /\ (Unlocked => sweep = NoSweep)'
      /\ (sweep.left \subseteq Members(tree))' /\ (sweep.iterator = SmallestOf(sweep.left))'
      /\ (\A m \in Members(tree) \ sweep.left, n \in sweep.left : Key[m] < Key[n])'
      /\ (sweep.unused => sweep.by = "purge" /\ sweep.iterator # None)'
      /\ (sweep.by = "deinit" => sweep.left = Members(tree))'
  BY <1>2 DEF SweepInvariant, Unlocked, NoSweep
<1> QED BY <1>3, <1>4 DEF SweepInvariant
-----------------------------------------------------------------------------
(***************************************************************************)
(* Steps that leave the entries: what the directory calls them.            *)
(***************************************************************************)

\* The parts of the invariant that such a step may touch.
CountInvariant == LinkInvariant /\ CacheInvariant /\ SweepInvariant

\* A step of the directory, or none.
DirectoryStep == [BssDirectory!Next]_BssDirectory!vars

\* References that are given to some.
LEMMA GivingIsUse ==
  ASSUME CountInvariant, LinkInvariant', NEW set \in SUBSET APs, UsedMore(set),
         \A a \in set : Unlocked \/ Uses(a) > 0 \/ refcount[a] = 0,
         UNCHANGED <<tree, entry_count, sweep>>
  PROVE  CountInvariant' /\ BssDirectory!Use(set)
<1>1. AliveIsUsed BY AliveAre DEF CountInvariant
<1>2. CacheInvariant' BY CountsFollow DEF CountInvariant
<1>3. AliveIsUsed'
  <2>1. LinkInvariant' /\ CacheInvariant' BY <1>2
  <2> QED BY <2>1, AliveAre, PTL
<1>4. SweepInvariant'
  <2>1. ASSUME NEW a \in set, sweep.unused PROVE a # sweep.iterator
    <3> SUFFICES ASSUME a = sweep.iterator PROVE FALSE OBVIOUS
    <3>1. ~Unlocked /\ Uses(a) = 0 BY <2>1 DEF CountInvariant, SweepInvariant, Unlocked
    <3>2. a \in Members(tree)
      <4>1. sweep.left \subseteq Members(tree) /\ Members(tree) \in SUBSET Nodes
            /\ a = SmallestOf(sweep.left) /\ a # None
        BY <1>1, <2>1 DEF CountInvariant, SweepInvariant, AliveIsUsed, APs
      <4> DEFINE left == sweep.left
      <4>2. left \in SUBSET Nodes BY <4>1
      <4> HIDE DEF left
      <4>3. SmallestOf(left) = None \/ SmallestOf(left) \in left BY <4>2, SmallestIs
      <4> QED BY <4>1, <4>3 DEF left
    <3>3. refcount[a] > 0 BY <1>1, <3>2 DEF AliveIsUsed
    <3> QED BY <3>1, <3>3
  <2> QED BY <2>1, SweepStays DEF CountInvariant
<1>5. BssDirectory!Use(set)
  <2>1. [a \in APs |-> Uses(a)]'
          = [a \in APs |-> IF a \in set THEN [b \in APs |-> Uses(b)][a] + 1
                                         ELSE [b \in APs |-> Uses(b)][a]]
    BY DEF UsedMore
  <2>2. {a \in APs : refcount[a] > 0}'
          = Members(tree)' \cup {a \in APs : [b \in APs |-> Uses(b)]'[a] > 0}
    BY <1>3 DEF AliveIsUsed
  <2>3. Members(tree)' = Members(tree) /\ u80211_bss_cache_get_count' = u80211_bss_cache_get_count
    BY DEF u80211_bss_cache_get_count
  <2> QED BY <2>1, <2>2, <2>3 DEF BssDirectory!Use, BssDirectory!Live
<1> QED BY <1>2, <1>4, <1>5 DEF CountInvariant

\* A reference that is returned.
LEMMA ReturnIsRelease ==
  ASSUME CountInvariant, LinkInvariant', NEW b \in APs, UsedLess(b),
         UNCHANGED <<tree, entry_count, sweep>>
  PROVE  CountInvariant' /\ DirectoryStep
<1>1. CacheInvariant' BY CountsFollow DEF CountInvariant
<1>2. AliveIsUsed'
  <2>1. LinkInvariant' /\ CacheInvariant' BY <1>1
  <2> QED BY <2>1, AliveAre, PTL
<1>3. SweepInvariant' BY SweepStays DEF CountInvariant
<1>4. BssDirectory!Release(b)
  <2>1. [a \in APs |-> Uses(a)]' = [[a \in APs |-> Uses(a)] EXCEPT ![b] = @ - 1]
    BY DEF UsedLess
  <2>2. {a \in APs : refcount[a] > 0}'
          = Members(tree)' \cup {a \in APs : [c \in APs |-> Uses(c)]'[a] > 0}
    BY <1>2 DEF AliveIsUsed
  <2>3. Members(tree)' = Members(tree) /\ u80211_bss_cache_get_count' = u80211_bss_cache_get_count
        /\ sweep' = sweep
    BY DEF u80211_bss_cache_get_count
  <2>4. [a \in APs |-> Uses(a)][b] > 0 BY DEF UsedLess
  <2> QED BY <2>1, <2>2, <2>3, <2>4 DEF BssDirectory!Release, BssDirectory!Live
<1> QED BY <1>1, <1>3, <1>4 DEF CountInvariant, DirectoryStep, BssDirectory!Next

\* No use that changes.
LEMMA KeepingIsNothing ==
  ASSUME CountInvariant, LinkInvariant', UsedMore({}), UNCHANGED <<tree, entry_count, sweep>>
  PROVE  CountInvariant' /\ DirectoryStep
<1>1. CountInvariant' BY GivingIsUse
<1>2. UNCHANGED refcount /\ \A a \in APs : Uses(a)' = Uses(a)
  <2>1. refcount = [a \in APs |-> refcount[a]]
    BY DEF CountInvariant, CacheInvariant, ReferencesCounted
  <2>2. refcount' = [a \in APs |-> IF a \in {} THEN refcount[a] + 1 ELSE refcount[a]]
    BY DEF UsedMore
  <2> QED BY <2>1, <2>2 DEF UsedMore
<1>3. [a \in APs |-> Uses(a)]' = [a \in APs |-> Uses(a)] BY <1>2
<1>4. {a \in APs : refcount[a] > 0}' = {a \in APs : refcount[a] > 0} BY <1>2
<1>5. Members(tree)' = Members(tree) /\ u80211_bss_cache_get_count' = u80211_bss_cache_get_count
      /\ sweep' = sweep
  BY DEF u80211_bss_cache_get_count
<1>6. UNCHANGED BssDirectory!vars BY <1>3, <1>4, <1>5 DEF BssDirectory!vars
<1> QED BY <1>1, <1>6 DEF DirectoryStep

\* A step that changes nothing the counts depend on.
LEMMA LeavingIsNothing ==
  ASSUME CountInvariant, UNCHANGED <<cacheVars, lost, linkVars>>, Cleaning' <=> Cleaning
  PROVE  CountInvariant' /\ DirectoryStep
<1>1. UsedMore({})
  <2>1. UNCHANGED <<held, lost, linkVars, refcount>> BY DEF cacheVars
  <2> QED BY <2>1, SameUses DEF CountInvariant, CacheInvariant
<1>2. LinkInvariant' BY DEF CountInvariant, LinkInvariant, linkVars, cacheVars
<1>3. UNCHANGED <<tree, entry_count, sweep>> BY DEF cacheVars
<1> QED BY <1>1, <1>2, <1>3, KeepingIsNothing

\* Somebody who lives is held once more.
LEMMA HoldingIsHold ==
  ASSUME CountInvariant, LinkInvariant', NEW b \in APs, UsedMore({b}), Uses(b) > 0,
         UNCHANGED <<tree, entry_count, sweep>>
  PROVE  CountInvariant' /\ DirectoryStep
<1>1. CountInvariant' /\ BssDirectory!Use({b}) BY GivingIsUse
<1>2. BssDirectory!Hold(b)
  <2>1. [a \in APs |-> Uses(a)][b] > 0 OBVIOUS
  <2>2. UNCHANGED <<sweep.by, sweep.left>> OBVIOUS
  <2> QED BY <1>1, <2>1, <2>2 DEF BssDirectory!Hold
<1> QED BY <1>1, <1>2 DEF DirectoryStep, BssDirectory!Next

\* The sizes the directory speaks of.
LEMMA SameSizes == \A S : BssDirectory!Cardinality(S) = Cardinality(S)
BY Zenon DEF BssDirectory!Cardinality, Cardinality, BssDirectory!IsFiniteSet, IsFiniteSet
-----------------------------------------------------------------------------
(***************************************************************************)
(* Users and the link.                                                     *)
(***************************************************************************)

LEMMA UserSteps ==
  ASSUME CountInvariant, UserCall
  PROVE  CountInvariant' /\ DirectoryStep
<1>1. UNCHANGED <<lost, linkVars, work>> BY DEF UserCall, deviceVars
<1>2. LinkInvariant /\ ReferencesCounted BY DEF CountInvariant, CacheInvariant
<1>3. ASSUME NEW a \in APs, u80211_ap_hold(a) PROVE CountInvariant' /\ DirectoryStep
  <2>1. LinkInvariant' /\ UsedMore({a}) /\ Uses(a) > 0 BY <1>1, <1>2, <1>3, UserHolds
  <2>2. UNCHANGED <<tree, entry_count, sweep>> BY <1>3 DEF u80211_ap_hold
  <2> QED BY <2>1, <2>2, HoldingIsHold
<1>4. ASSUME NEW a \in APs, u80211_ap_release(a) PROVE CountInvariant' /\ DirectoryStep
  <2>1. LinkInvariant' /\ UsedLess(a) BY <1>1, <1>2, <1>4, UserReleases
  <2>2. UNCHANGED <<tree, entry_count, sweep>> BY <1>4 DEF u80211_ap_release
  <2> QED BY <2>1, <2>2, ReturnIsRelease
<1> QED BY <1>3, <1>4 DEF UserCall

LEMMA AllocationIsAllocate ==
  ASSUME CountInvariant, NEW a \in APs, u80211_ap_allocate(a), UNCHANGED <<lost, linkVars, work>>
  PROVE  CountInvariant' /\ DirectoryStep
<1>1. LinkInvariant' /\ UsedMore({a}) /\ refcount[a] = 0
  BY UserAllocates DEF CountInvariant, CacheInvariant
<1>2. UNCHANGED <<tree, entry_count, sweep>> BY DEF u80211_ap_allocate
<1>3. CountInvariant' /\ BssDirectory!Use({a}) BY <1>1, <1>2, GivingIsUse
<1>4. BssDirectory!Allocate(a)
  <2>1. a \notin {b \in APs : refcount[b] > 0} BY <1>1
  <2>2. UNCHANGED <<sweep.by, sweep.left>> BY <1>2
  <2> QED BY <1>3, <2>1, <2>2 DEF BssDirectory!Allocate
<1> QED BY <1>3, <1>4 DEF DirectoryStep, BssDirectory!Next

\* What lookups find is given to the caller.
LEMMA FindingIsFind ==
  ASSUME CountInvariant, NEW address \in Addresses, u80211_bss_cache_find(address),
         UNCHANGED <<lost, linkVars, work>>
  PROVE  CountInvariant' /\ DirectoryStep
<1> DEFINE members == Members(tree)
           node == u80211_rbtree_lookup(tree, address)
<1>1. Unlocked /\ node # None /\ GivenOut({node}) BY DEF u80211_bss_cache_find
<1>2. UNCHANGED <<tree, entry_count, sweep>> BY <1>1 DEF GivenOut
<1>3. Served(tree, members)
  <2>1. Sound(tree, members) BY DEF CountInvariant, CacheInvariant
  <2> HIDE DEF members
  <2> QED BY <2>1, SoundIsServed
<1> HIDE DEF members
<1>4. /\ node = SmallestOf({m \in members : Key[m] = address}) /\ members \in SUBSET APs
  BY <1>3 DEF Served, APs
<1>5. node \in members
  <2> DEFINE found == {m \in members : Key[m] = address}
  <2>1. found \in SUBSET Nodes BY <1>4 DEF APs
  <2>2. node = SmallestOf(found) BY <1>4
  <2> HIDE DEF found, node
  <2>3. node \in found BY <1>1, <2>1, <2>2, SmallestIs
  <2> QED BY <2>3 DEF found
<1>6. node \in APs BY <1>4, <1>5
<1> HIDE DEF node
<1>7. LinkInvariant' /\ UsedMore({node})
  <2>1. LinkInvariant /\ ReferencesCounted BY DEF CountInvariant, CacheInvariant
  <2>2. {node} \in SUBSET APs BY <1>6
  <2> QED BY <1>1, <2>1, <2>2, UsersAreGiven
<1>8. CountInvariant' /\ BssDirectory!Use({node}) BY <1>1, <1>2, <1>6, <1>7, GivingIsUse
<1>9. BssDirectory!Find(node)
  <2>1. sweep.by = "nobody" /\ UNCHANGED <<sweep.by, sweep.left>> BY <1>1, <1>2 DEF Unlocked
  <2> QED BY <1>5, <1>8, <2>1 DEF BssDirectory!Find, BssDirectory!Idle, members
<1> QED BY <1>6, <1>8, <1>9 DEF DirectoryStep, BssDirectory!Next

LEMMA ListingIsList ==
  ASSUME CountInvariant, NEW capacity \in 1 .. Cardinality(APs),
         u80211_bss_cache_get_aps(capacity), UNCHANGED <<lost, linkVars, work>>
  PROVE  CountInvariant' /\ DirectoryStep
<1> DEFINE members == Members(tree)
           buffer == CHOOSE f : Fills(tree, capacity, f)
           set == Leading(members, capacity)
<1>1. Served(tree, members)
  <2>1. Sound(tree, members) BY DEF CountInvariant, CacheInvariant
  <2> HIDE DEF members
  <2> QED BY <2>1, SoundIsServed
<1>2. capacity \in Nat OBVIOUS
<1>3. Unlocked /\ GivenOut(buffer[capacity].filled)
  BY DEF u80211_bss_cache_get_aps, Fills, Filling, First
<1>4. buffer[capacity].filled = set
  <2>1. buffer = CHOOSE f : Fills(tree, capacity, f) OBVIOUS
  <2> HIDE DEF buffer, members
  <2> QED BY <1>1, <1>2, <2>1, FillingEnds
<1>5. GivenOut(set) BY <1>3, <1>4
<1> HIDE DEF buffer
<1>6. UNCHANGED <<tree, entry_count, sweep>> BY <1>5 DEF GivenOut
<1>7. set \in SUBSET APs BY <1>1 DEF Served, Leading, APs
<1> HIDE DEF members, set
<1>8. LinkInvariant' /\ UsedMore(set)
  <2>1. LinkInvariant /\ ReferencesCounted BY DEF CountInvariant, CacheInvariant
  <2> QED BY <1>5, <1>7, <2>1, UsersAreGiven
<1>9. CountInvariant' /\ BssDirectory!Use(set) BY <1>3, <1>6, <1>7, <1>8, GivingIsUse
<1>10. BssDirectory!List(capacity)
  <2>1. sweep.by = "nobody" /\ UNCHANGED <<sweep.by, sweep.left>> BY <1>3, <1>6 DEF Unlocked
  <2>2. set = {a \in Members(tree) :
                 Cardinality({b \in Members(tree) : Key[b] < Key[a]}) < capacity}
    BY DEF set, members, Leading
  <2>3. BssDirectory!Use({a \in Members(tree) :
                           Cardinality({b \in Members(tree) : Key[b] < Key[a]}) < capacity})
    BY <1>9, <2>2
  <2>4. BssDirectory!Use({a \in Members(tree) :
            BssDirectory!Cardinality({b \in Members(tree) : Key[b] < Key[a]}) < capacity})
    BY <2>3, SameSizes
  <2> QED BY <2>1, <2>4 DEF BssDirectory!List, BssDirectory!Idle
<1>11. capacity \in 0 .. Cardinality(APs)
  <2>1. IsFiniteSet(APs) BY RbTreeAssumption DEF APs
  <2> DEFINE most == Cardinality(APs)
  <2>2. most \in Nat BY <2>1, FS_CardinalityType
  <2> HIDE DEF most
  <2>3. capacity \in 1 .. most BY DEF most
  <2>4. capacity \in 0 .. most BY <2>2, <2>3
  <2> QED BY <2>4 DEF most
<1>12. \E c \in 0 .. BssDirectory!Cardinality(APs) : BssDirectory!List(c)
  BY <1>10, <1>11, SameSizes
<1>13. BssDirectory!Next BY <1>12 DEF BssDirectory!Next
<1> QED BY <1>9, <1>13 DEF DirectoryStep

\* The link takes and returns references as users do.
LEMMA LinkIsUser ==
  ASSUME CountInvariant, WorksOfStage, LinkStep
  PROVE  CountInvariant' /\ DirectoryStep
<1>1. LinkInvariant /\ ReferencesCounted BY DEF CountInvariant, CacheInvariant
<1>2. UNCHANGED <<tree, entry_count, sweep>>
  BY DEF LinkStep, release_disconnected_ap, DropDisconnected, u80211_associate, AttemptEnds,
         association_process_teardown, u80211_deauthenticate, CleanupBegins, CleanupReleases,
         CleanupWakes, CleanupReturns, cacheVars
<1>3. CASE release_disconnected_ap
  <2>1. /\ DropDisconnected
        /\ UNCHANGED <<ap, association_context, association_cleanup_context, work, taken, waking,
                       lost>>
    BY <1>3 DEF release_disconnected_ap
  <2>2. LinkInvariant' /\ UsedLess(disconnected_ap) /\ disconnected_ap \in APs
    BY <1>1, <2>1, DisconnectedIsDropped
  <2> QED BY <1>2, <2>2, ReturnIsRelease
<1>4. ASSUME NEW a \in APs, u80211_associate(a) PROVE CountInvariant' /\ DirectoryStep
  BY <1>1, <1>2, <1>4, AttemptBegins, HoldingIsHold
<1>5. ASSUME NEW success \in BOOLEAN, AttemptEnds(success) PROVE CountInvariant' /\ DirectoryStep
  <2>1. /\ LinkInvariant' /\ UsedMore(IF success THEN {ap} ELSE {})
        /\ ap \in APs /\ Uses(ap) > 0
    BY <1>1, <1>5, AttemptIsOver
  <2>2. CASE success BY <1>2, <2>1, <2>2, HoldingIsHold
  <2>3. CASE ~success BY <1>2, <2>1, <2>3, KeepingIsNothing
  <2> QED BY <2>2, <2>3
<1>6. CASE association_process_teardown
  BY <1>1, <1>2, <1>6, LinkIsTornDown, KeepingIsNothing
<1>7. CASE u80211_deauthenticate BY <1>1, <1>2, <1>7, LinkIsLeft, ReturnIsRelease
<1>8. CASE CleanupBegins BY <1>1, <1>2, <1>8, CleanupTakes, KeepingIsNothing
<1>9. CASE CleanupReleases BY <1>1, <1>2, <1>9, CleanupReleasesOne, ReturnIsRelease
<1>10. CASE CleanupWakes BY <1>1, <1>2, <1>10, CleanupWakesThem, KeepingIsNothing
<1>11. CASE CleanupReturns
  <2>1. /\ taken = <<>> /\ ~waking /\ UNCHANGED <<held, lost, linkVars, refcount>>
    BY <1>11 DEF CleanupReturns, cacheVars
  <2>2. UsedMore({}) BY <1>1, <2>1, SameUses
  <2>3. LinkInvariant' BY <1>1, <2>1 DEF LinkInvariant, linkVars
  <2> QED BY <1>2, <2>2, <2>3, KeepingIsNothing
<1> QED BY <1>3, <1>4, <1>5, <1>6, <1>7, <1>8, <1>9, <1>10, <1>11 DEF LinkStep
-----------------------------------------------------------------------------
(***************************************************************************)
(* Steps of the tree, and of the sweeps.                                   *)
(***************************************************************************)

\* Nobody's references move.
LEMMA UsesStay ==
  ASSUME LinkInvariant, UNCHANGED <<held, lost, linkVars>>, Cleaning' <=> Cleaning
  PROVE  /\ LinkInvariant' /\ \A a \in APs : Uses(a)' = Uses(a)
         /\ [a \in APs |-> Uses(a)]' = [a \in APs |-> Uses(a)]
<1>1. LinkInvariant' BY DEF LinkInvariant, linkVars
<1>2. ASSUME NEW a \in APs PROVE Uses(a)' = Uses(a) BY UsesAre DEF linkVars, LinkUp
<1>3. [a \in APs |-> Uses(a)]' = [a \in APs |-> Uses(a)] BY <1>2
<1> QED BY <1>1, <1>2, <1>3

\* What the tree of the cache does for it.
LEMMA CacheIsServed ==
  ASSUME CountInvariant
  PROVE  Served(tree, Members(tree)) /\ Members(tree) \in SUBSET APs
<1> DEFINE members == Members(tree)
<1>1. Sound(tree, members) BY DEF CountInvariant, CacheInvariant
<1> HIDE DEF members
<1>2. Served(tree, members) BY <1>1, SoundIsServed
<1> QED BY <1>2 DEF Served, APs, members

\* An entry joins, and the cache refers to it ...
Joins(a) ==
  /\ a \notin Members(tree) /\ Sound(tree', Members(tree) \cup {a})
  /\ entry_count' = entry_count + 1 /\ Held(a)
\* ... or leaves.
Leaves(a) ==
  /\ a \in Members(tree) /\ Sound(tree', Members(tree) \ {a})
  /\ entry_count' = entry_count - 1 /\ Released(a)

LEMMA JoiningCounts ==
  ASSUME LinkInvariant, CacheInvariant, NEW a \in APs, Joins(a),
         UNCHANGED <<held, lost, linkVars>>, Cleaning' <=> Cleaning
  PROVE  /\ CacheInvariant' /\ AliveIsUsed' /\ Members(tree)' = Members(tree) \cup {a}
<1> DEFINE before == Members(tree)
           after == before \cup {a}
<1>1. Served(tree, before)
  <2>1. Sound(tree, before) BY DEF CacheInvariant
  <2> HIDE DEF before
  <2> QED BY <2>1, SoundIsServed
<1>2. Served(tree', after)
  <2>1. Sound(tree', after) BY DEF Joins
  <2> HIDE DEF after
  <2> QED BY <2>1, SoundIsServed
<1>3. Members(tree') = after BY <1>2 DEF Served
<1>4. Cardinality(after) = Cardinality(before) + 1
  <2>1. IsFiniteSet(before) /\ a \notin before BY <1>1 DEF Served, Joins
  <2> QED BY <2>1, FS_AddElement
<1>5. LinkInvariant' /\ \A b \in APs : Uses(b)' = Uses(b) BY UsesStay
<1>6. ReferencesCounted'
  <2>1. refcount = [b \in APs |-> Uses(b) + OneIf(b \in before)]
        /\ refcount' = [refcount EXCEPT ![a] = @ + 1] /\ a \notin before
    BY DEF CacheInvariant, ReferencesCounted, Joins, Held
  <2> HIDE DEF before
  <2>2. refcount' = [b \in APs |-> refcount'[b]] BY <2>1
  <2>3. ASSUME NEW b \in APs PROVE refcount'[b] = Uses(b)' + OneIf(b \in after)
    <3>1. Uses(b)' = Uses(b) /\ Uses(b) \in Nat BY <1>5, UsesType
    <3>2. refcount'[b] = IF b = a THEN refcount[b] + 1 ELSE refcount[b] BY <2>1
    <3>3. refcount[b] = Uses(b) + OneIf(b \in before) BY <2>1
    <3>4. CASE b = a
      <4>1. OneIf(b \in before) = 0 /\ OneIf(b \in after) = 1 BY <2>1, <3>4 DEF OneIf
      <4> QED BY <3>1, <3>2, <3>3, <3>4, <4>1
    <3>5. CASE b # a
      <4>1. OneIf(b \in before) = OneIf(b \in after) BY <3>5 DEF OneIf
      <4> QED BY <3>1, <3>2, <3>3, <3>5, <4>1
    <3> QED BY <3>4, <3>5
  <2>4. refcount' = [b \in APs |-> Uses(b)' + OneIf(b \in Members(tree'))]
    BY <1>3, <2>2, <2>3
  <2> QED BY <2>4 DEF ReferencesCounted
<1>7. CacheInvariant'
  <2>1. Sound(tree', Members(tree')) BY <1>3 DEF Joins
  <2>2. entry_count' = Cardinality(Members(tree')) BY <1>3, <1>4 DEF Joins, CacheInvariant
  <2> QED BY <1>6, <2>1, <2>2 DEF CacheInvariant
<1>8. LinkInvariant' /\ CacheInvariant' BY <1>5, <1>7
<1>9. AliveIsUsed' BY <1>8, AliveAre, PTL
<1> QED BY <1>3, <1>7, <1>9

LEMMA LeavingCounts ==
  ASSUME LinkInvariant, CacheInvariant, NEW a \in APs, Leaves(a),
         UNCHANGED <<held, lost, linkVars>>, Cleaning' <=> Cleaning
  PROVE  /\ CacheInvariant' /\ AliveIsUsed' /\ Members(tree)' = Members(tree) \ {a}
<1> DEFINE before == Members(tree)
           after == before \ {a}
<1>1. Served(tree, before)
  <2>1. Sound(tree, before) BY DEF CacheInvariant
  <2> HIDE DEF before
  <2> QED BY <2>1, SoundIsServed
<1>2. Served(tree', after)
  <2>1. Sound(tree', after) BY DEF Leaves
  <2> HIDE DEF after
  <2> QED BY <2>1, SoundIsServed
<1>3. Members(tree') = after BY <1>2 DEF Served
<1>4. Cardinality(after) = Cardinality(before) - 1
  <2>1. IsFiniteSet(before) /\ a \in before BY <1>1 DEF Served, Leaves
  <2> QED BY <2>1, FS_RemoveElement
<1>5. LinkInvariant' /\ \A b \in APs : Uses(b)' = Uses(b) BY UsesStay
<1>6. ReferencesCounted'
  <2>1. refcount = [b \in APs |-> Uses(b) + OneIf(b \in before)]
        /\ refcount' = [refcount EXCEPT ![a] = @ - 1] /\ a \in before
    BY DEF CacheInvariant, ReferencesCounted, Leaves, Released
  <2> HIDE DEF before
  <2>2. refcount' = [b \in APs |-> refcount'[b]] BY <2>1
  <2>3. ASSUME NEW b \in APs PROVE refcount'[b] = Uses(b)' + OneIf(b \in after)
    <3>1. Uses(b)' = Uses(b) /\ Uses(b) \in Nat BY <1>5, UsesType
    <3>2. refcount'[b] = IF b = a THEN refcount[b] - 1 ELSE refcount[b] BY <2>1
    <3>3. refcount[b] = Uses(b) + OneIf(b \in before) BY <2>1
    <3>4. CASE b = a
      <4>1. OneIf(b \in before) = 1 /\ OneIf(b \in after) = 0 BY <2>1, <3>4 DEF OneIf
      <4> QED BY <3>1, <3>2, <3>3, <3>4, <4>1
    <3>5. CASE b # a
      <4>1. OneIf(b \in before) = OneIf(b \in after) BY <3>5 DEF OneIf
      <4> QED BY <3>1, <3>2, <3>3, <3>5, <4>1
    <3> QED BY <3>4, <3>5
  <2>4. refcount' = [b \in APs |-> Uses(b)' + OneIf(b \in Members(tree'))]
    BY <1>3, <2>2, <2>3
  <2> QED BY <2>4 DEF ReferencesCounted
<1>7. CacheInvariant'
  <2>1. Sound(tree', Members(tree')) BY <1>3 DEF Leaves
  <2>2. entry_count' = Cardinality(Members(tree')) BY <1>3, <1>4 DEF Leaves, CacheInvariant
  <2> QED BY <1>6, <2>1, <2>2 DEF CacheInvariant
<1>8. LinkInvariant' /\ CacheInvariant' BY <1>5, <1>7
<1>9. AliveIsUsed' BY <1>8, AliveAre, PTL
<1> QED BY <1>3, <1>7, <1>9

\* While nobody has the lock there is no sweep.
LEMMA NoSweepStays ==
  ASSUME SweepInvariant, Unlocked, UNCHANGED sweep
  PROVE  SweepInvariant' /\ sweep.by = "nobody" /\ UNCHANGED <<sweep.by, sweep.left>>
<1>1. sweep = NoSweep /\ sweep' = NoSweep BY DEF SweepInvariant
<1>2. SmallestOf({}) = None BY DEF SmallestOf
<1> QED BY <1>1, <1>2 DEF SweepInvariant, NoSweep, Unlocked

LEMMA InsertionIsInsert ==
  ASSUME CountInvariant, NEW a \in APs, u80211_bss_cache_insert(a),
         UNCHANGED <<lost, linkVars, work>>
  PROVE  CountInvariant' /\ DirectoryStep
<1> DEFINE members == Members(tree)
<1>1. /\ Unlocked /\ held[a] > 0 /\ u80211_rbtree_lookup(tree, Key[a]) = None
      /\ tree' = u80211_rbtree_insert(tree, a) /\ Held(a) /\ entry_count' = entry_count + 1
      /\ UNCHANGED <<held, sweep>>
  BY DEF u80211_bss_cache_insert
<1>2. Served(tree, members) BY CacheIsServed
<1>3. Sound(tree, members) BY DEF CountInvariant, CacheInvariant
<1> HIDE DEF members
<1>4. \A m \in members : Key[m] # Key[a]
  <2> DEFINE same == {m \in members : Key[m] = Key[a]}
  <2>1. Key[a] \in Addresses BY DEF Addresses
  <2>2. SmallestOf(same) = None BY <1>1, <1>2, <2>1 DEF Served
  <2>3. same \in SUBSET Nodes BY <1>2 DEF Served
  <2> HIDE DEF same
  <2>4. same = {} BY <2>2, <2>3, SmallestIs
  <2> QED BY <2>4 DEF same
<1>5. a \in Nodes /\ a \notin members BY <1>4 DEF APs
<1>6. Sound(u80211_rbtree_insert(tree, a), members \cup {a}) BY <1>3, <1>4, <1>5, InsertIsSound
<1>7. Joins(a) BY <1>1, <1>5, <1>6 DEF Joins, members
<1>8. Cleaning' <=> Cleaning BY DEF Cleaning
<1>9. /\ CacheInvariant' /\ AliveIsUsed' /\ Members(tree)' = Members(tree) \cup {a}
  BY <1>1, <1>7, <1>8, JoiningCounts DEF CountInvariant
<1>10. LinkInvariant' /\ [b \in APs |-> Uses(b)]' = [b \in APs |-> Uses(b)]
  BY <1>1, <1>8, UsesStay DEF CountInvariant
<1>11. SweepInvariant' /\ sweep.by = "nobody" /\ UNCHANGED <<sweep.by, sweep.left>>
  BY <1>1, NoSweepStays DEF CountInvariant
<1>12. BssDirectory!Insert(a)
  <2>1. [b \in APs |-> Uses(b)][a] > 0 BY <1>1, UsesType DEF CountInvariant
  <2>2. BssDirectory!Live BY <1>9 DEF BssDirectory!Live, AliveIsUsed
  <2>3. \A b \in Members(tree) : Key[a] # Key[b] BY <1>4 DEF members
  <2> QED BY <1>1, <1>5, <1>9, <1>10, <1>11, <2>1, <2>2, <2>3
      DEF BssDirectory!Insert, BssDirectory!Idle, u80211_bss_cache_get_count, members
<1> QED BY <1>9, <1>10, <1>11, <1>12 DEF CountInvariant, DirectoryStep, BssDirectory!Next

\* What u80211_bss_cache_remove finds is gone.
LEMMA DroppedLeaves ==
  ASSUME CountInvariant, NEW a \in Members(tree), Dropped(a)
  PROVE  Leaves(a)
<1> DEFINE members == Members(tree)
<1>1. Sound(tree, members) /\ a \in members BY DEF CountInvariant, CacheInvariant
<1> HIDE DEF members
<1>2. Sound(u80211_rbtree_remove(tree, a), members \ {a}) BY <1>1, RemoveIsSound
<1> QED BY <1>1, <1>2 DEF Leaves, Dropped, members

LEMMA RemovalIsRemove ==
  ASSUME CountInvariant, NEW address \in Addresses, u80211_bss_cache_remove(address),
         UNCHANGED <<lost, linkVars, work>>
  PROVE  CountInvariant' /\ DirectoryStep
<1> DEFINE members == Members(tree)
           found == {m \in members : Key[m] = address}
<1>1. Served(tree, members) /\ members \in SUBSET APs BY CacheIsServed
<1> HIDE DEF members
<1>2. PICK a : /\ a = u80211_rbtree_lookup(tree, address) /\ a # None /\ Dropped(a)
  BY DEF u80211_bss_cache_remove
<1>3. Unlocked /\ UNCHANGED <<held, sweep>> BY DEF u80211_bss_cache_remove
<1>4. a = SmallestOf(found) /\ found \in SUBSET Nodes BY <1>1, <1>2 DEF Served
<1> HIDE DEF found
<1>5. a \in found BY <1>2, <1>4, SmallestIs
<1>6. a \in members /\ a \in APs BY <1>1, <1>5 DEF found
<1>7. Leaves(a) BY <1>2, <1>6, DroppedLeaves DEF members
<1>8. Cleaning' <=> Cleaning BY DEF Cleaning
<1>9. /\ CacheInvariant' /\ AliveIsUsed' /\ Members(tree)' = Members(tree) \ {a}
  BY <1>3, <1>6, <1>7, <1>8, LeavingCounts DEF CountInvariant
<1>10. LinkInvariant' /\ [b \in APs |-> Uses(b)]' = [b \in APs |-> Uses(b)]
  BY <1>3, <1>8, UsesStay DEF CountInvariant
<1>11. SweepInvariant' /\ sweep.by = "nobody" /\ UNCHANGED <<sweep.by, sweep.left>>
  BY <1>3, NoSweepStays DEF CountInvariant
<1>12. BssDirectory!Remove(a)
  <2>1. BssDirectory!Live BY <1>9 DEF BssDirectory!Live, AliveIsUsed
  <2>2. entry_count' = entry_count - 1 BY <1>7 DEF Leaves
  <2> QED BY <1>6, <1>9, <1>10, <1>11, <2>1, <2>2
      DEF BssDirectory!Remove, BssDirectory!Leave, BssDirectory!Idle,
          u80211_bss_cache_get_count, members
<1> QED BY <1>6, <1>9, <1>10, <1>11, <1>12 DEF CountInvariant, DirectoryStep, BssDirectory!Next

\* A sweep that has come to an entry and goes on to the next.
GoesFrom(it, next) ==
  /\ it \in sweep.left /\ it = sweep.iterator /\ next = SmallestOf(sweep.left \ {it})
  /\ \A m \in Members(tree) \ (sweep.left \ {it}), n \in sweep.left \ {it} : Key[m] < Key[n]

LEMMA SweepGoesOn ==
  ASSUME CountInvariant, sweep.iterator # None
  PROVE  /\ GoesFrom(sweep.iterator, u80211_rbtree_successor(tree, sweep.iterator))
         /\ sweep.iterator \in Members(tree) /\ sweep.iterator \in APs
<1> DEFINE members == Members(tree)
           left == sweep.left
           it == sweep.iterator
           above == {m \in members : Key[m] > Key[it]}
<1>1. Served(tree, members) /\ members \in SUBSET APs BY CacheIsServed
<1>2. /\ left \subseteq members /\ it = SmallestOf(left)
      /\ \A m \in members \ left, n \in left : Key[m] < Key[n]
  BY DEF CountInvariant, SweepInvariant
<1>3. it # None OBVIOUS
<1> HIDE DEF members, left, it
<1>4. it \in left /\ \A m \in left : Key[it] <= Key[m]
  <2>1. left \in SUBSET Nodes BY <1>1, <1>2 DEF APs
  <2> QED BY <1>2, <1>3, <2>1, SmallestIs
<1>5. it \in members /\ it \in APs BY <1>1, <1>2, <1>4
<1>6. \A m \in members : Key[m] \in Int BY <1>1, RbTreeAssumption DEF APs
<1>7. \A m, n \in members : Key[m] = Key[n] => m = n BY <1>1 DEF Served
<1>8. ASSUME NEW m \in above PROVE m \in left \ {it}
  <2>1. m \in members /\ Key[m] > Key[it] OBVIOUS
  <2>2. m # it BY <1>5, <1>6, <2>1
  <2>3. m \in left
    <3> SUFFICES ASSUME m \notin left PROVE FALSE OBVIOUS
    <3>1. Key[m] < Key[it] BY <1>2, <1>4, <2>1
    <3> QED BY <1>5, <1>6, <2>1, <3>1
  <2> QED BY <2>2, <2>3
<1>9. ASSUME NEW m \in left \ {it} PROVE m \in above
  <2>1. m \in members /\ Key[it] <= Key[m] /\ Key[m] # Key[it] BY <1>2, <1>4, <1>5, <1>7
  <2> QED BY <1>5, <1>6, <2>1
<1>10. above = left \ {it} BY <1>8, <1>9
<1>11. u80211_rbtree_successor(tree, it) = SmallestOf(left \ {it})
  <2>1. u80211_rbtree_successor(tree, it) = SmallestOf(above) BY <1>1, <1>5 DEF Served
  <2> QED BY <1>10, <2>1
<1> HIDE DEF above
<1>12. ASSUME NEW m \in members \ (left \ {it}), NEW n \in left \ {it} PROVE Key[m] < Key[n]
  <2>1. CASE m = it
    <3>1. n \in members /\ Key[it] <= Key[n] /\ Key[n] # Key[it] BY <1>2, <1>4, <1>5, <1>7
    <3> QED BY <1>5, <1>6, <2>1, <3>1
  <2>2. CASE m # it BY <1>2, <2>2
  <2> QED BY <2>1, <2>2
<1> QED BY <1>4, <1>5, <1>11, <1>12 DEF GoesFrom, members, left, it

\* The fields of the sweep then.
LEMMA GoesOnFields ==
  ASSUME SweepInvariant, NEW next \in Pointers, GoesOn(next)
  PROVE  /\ sweep' \in Sweeps /\ sweep'.by = sweep.by /\ sweep'.iterator = next
         /\ sweep'.unused = FALSE /\ sweep'.left = sweep.left \ {sweep.iterator}
<1> DEFINE rest == sweep.left \ {sweep.iterator}
<1>1. sweep \in Sweeps BY DEF SweepInvariant
<1>2. sweep' = [sweep EXCEPT !.iterator = next, !.unused = FALSE, !.left = rest]
  BY DEF GoesOn
<1>3. rest \in SUBSET APs BY <1>1 DEF Sweeps
<1> HIDE DEF rest
<1>4. sweep' \in Sweeps BY <1>1, <1>2, <1>3 DEF Sweeps
<1>5. /\ sweep'.by = sweep.by /\ sweep'.iterator = next
      /\ sweep'.unused = FALSE /\ sweep'.left = rest
  BY <1>1, <1>2 DEF Sweeps
<1> QED BY <1>4, <1>5 DEF rest

\* A step of a sweep that spares the entries.
LEMMA SparedStays ==
  ASSUME CountInvariant, UNCHANGED <<tree, entry_count, refcount, held, lost, linkVars, work>>
  PROVE  /\ LinkInvariant' /\ CacheInvariant' /\ \A a \in APs : Uses(a)' = Uses(a)
         /\ UNCHANGED <<Members(tree), u80211_bss_cache_get_count, [a \in APs |-> Uses(a)],
                        {a \in APs : refcount[a] > 0}>>
<1>1. Cleaning' <=> Cleaning BY DEF Cleaning
<1>2. /\ LinkInvariant' /\ \A a \in APs : Uses(a)' = Uses(a)
      /\ [a \in APs |-> Uses(a)]' = [a \in APs |-> Uses(a)]
  BY <1>1, UsesStay DEF CountInvariant
<1>3. UsedMore({}) BY SameUses DEF CountInvariant, CacheInvariant
<1>4. CacheInvariant' BY <1>3, CountsFollow DEF CountInvariant
<1>5. {a \in APs : refcount[a] > 0}' = {a \in APs : refcount[a] > 0} OBVIOUS
<1> QED BY <1>2, <1>4, <1>5 DEF u80211_bss_cache_get_count

LEMMA SweepIsBegun ==
  ASSUME CountInvariant, NEW by \in {"purge", "deinit"}, SweepBegins(by),
         UNCHANGED <<lost, linkVars, work>>
  PROVE  CountInvariant' /\ DirectoryStep
<1> DEFINE members == Members(tree)
<1>1. /\ Unlocked /\ UNCHANGED <<tree, entry_count, refcount, held>>
      /\ sweep' = [by |-> by, iterator |-> First, unused |-> FALSE, left |-> members]
  BY DEF SweepBegins
<1>2. Served(tree, members) /\ members \in SUBSET APs BY CacheIsServed
<1> HIDE DEF members
<1>3. First = SmallestOf(members) /\ members \in SUBSET Nodes /\ SmallestOf(members) \in Pointers
  <2>1. First = SmallestOf(members) BY <1>2 DEF Served, First
  <2>2. members \in SUBSET Nodes BY <1>2 DEF APs
  <2> QED BY <2>1, <2>2, SmallestIs DEF Pointers
<1>4. /\ LinkInvariant' /\ CacheInvariant'
      /\ UNCHANGED <<Members(tree), u80211_bss_cache_get_count, [a \in APs |-> Uses(a)],
                     {a \in APs : refcount[a] > 0}>>
  BY <1>1, SparedStays
<1>5. SweepInvariant'
  <2>1. sweep' \in Sweeps BY <1>1, <1>2, <1>3 DEF Sweeps
  <2>2. /\ sweep'.by = by /\ sweep'.unused = FALSE /\ sweep'.left = members
        /\ sweep'.iterator = SmallestOf(members) /\ ~Unlocked'
    BY <1>1, <1>3 DEF Unlocked
  <2>3. Members(tree)' = members BY <1>4 DEF members
  <2> QED BY <2>1, <2>2, <2>3 DEF SweepInvariant
<1>6. BssDirectory!Sweep(by)
  <2>1. sweep.by = "nobody" /\ sweep'.by = by /\ sweep'.left = Members(tree)
    BY <1>1 DEF Unlocked, members
  <2> QED BY <1>4, <2>1 DEF BssDirectory!Sweep
<1> QED BY <1>4, <1>5, <1>6 DEF CountInvariant, DirectoryStep, BssDirectory!Next

LEMMA SweepIsOver ==
  ASSUME CountInvariant, SweepEnds, UNCHANGED <<lost, linkVars, work>>
  PROVE  CountInvariant' /\ DirectoryStep
<1>1. /\ sweep.by # "nobody" /\ sweep.iterator = None /\ sweep' = NoSweep
      /\ UNCHANGED <<tree, entry_count, refcount, held>>
  BY DEF SweepEnds
<1>2. sweep.left = {}
  <2> DEFINE left == sweep.left
  <2>1. SmallestOf(left) = None /\ left \subseteq Members(tree) /\ Members(tree) \in SUBSET APs
    BY <1>1, CacheIsServed DEF CountInvariant, SweepInvariant
  <2>2. left \in SUBSET Nodes BY <2>1 DEF APs
  <2> HIDE DEF left
  <2>3. left = {} BY <2>1, <2>2, SmallestIs
  <2> QED BY <2>3 DEF left
<1>3. /\ LinkInvariant' /\ CacheInvariant'
      /\ UNCHANGED <<Members(tree), u80211_bss_cache_get_count, [a \in APs |-> Uses(a)],
                     {a \in APs : refcount[a] > 0}>>
  BY <1>1, SparedStays
<1>4. SweepInvariant'
  <2>1. SmallestOf({}) = None BY DEF SmallestOf
  <2>2. sweep' \in Sweeps BY <1>1 DEF Sweeps, NoSweep, Pointers
  <2> QED BY <1>1, <2>1, <2>2 DEF SweepInvariant, NoSweep, Unlocked
<1>5. BssDirectory!Finish
  <2>1. sweep'.by = "nobody" /\ sweep'.left = sweep.left BY <1>1, <1>2 DEF NoSweep
  <2> QED BY <1>1, <1>2, <1>3, <2>1 DEF BssDirectory!Finish
<1> QED BY <1>3, <1>4, <1>5 DEF CountInvariant, DirectoryStep, BssDirectory!Next

LEMMA LookingIsSpare ==
  ASSUME CountInvariant, PurgeLooks, UNCHANGED <<lost, linkVars, work>>
  PROVE  CountInvariant' /\ DirectoryStep
<1>1. /\ sweep.by = "purge" /\ sweep.iterator # None
      /\ UNCHANGED <<tree, entry_count, refcount, held>>
  BY DEF PurgeLooks
<1>2. PICK it, next : /\ it = sweep.iterator /\ next = u80211_rbtree_successor(tree, it) OBVIOUS
<1>3. GoesFrom(it, next) /\ it \in Members(tree) /\ it \in APs BY <1>1, <1>2, SweepGoesOn
<1>4. /\ LinkInvariant' /\ CacheInvariant' /\ \A a \in APs : Uses(a)' = Uses(a)
      /\ UNCHANGED <<Members(tree), u80211_bss_cache_get_count, [a \in APs |-> Uses(a)],
                     {a \in APs : refcount[a] > 0}>>
  BY <1>1, SparedStays
<1>5. Uses(it) \in Nat /\ refcount[it] = Uses(it) + 1
  <2>1. Uses(it) \in Nat BY <1>3, UsesType DEF CountInvariant
  <2>2. refcount[it] = Uses(it) + OneIf(it \in Members(tree))
    BY <1>3 DEF CountInvariant, CacheInvariant, ReferencesCounted
  <2>3. OneIf(it \in Members(tree)) = 1 BY <1>3 DEF OneIf
  <2> QED BY <2>1, <2>2, <2>3
<1>6. sweep \in Sweeps BY DEF CountInvariant, SweepInvariant
<1>7. CASE refcount[it] = 1
  <2>1. sweep' = [sweep EXCEPT !.unused = TRUE] BY <1>2, <1>7 DEF PurgeLooks
  <2>2. /\ sweep' \in Sweeps /\ sweep'.by = sweep.by /\ sweep'.iterator = it
        /\ sweep'.left = sweep.left
    BY <1>2, <1>6, <2>1 DEF Sweeps
  <2>3. Uses(it) = 0 BY <1>5, <1>7
  <2>4. Uses(sweep.iterator)' = 0
    <3>1. Uses(it)' = 0 BY <1>3, <1>4, <2>3
    <3> QED BY <2>2, <3>1
  <2>5. SweepInvariant'
    <3>1. /\ sweep.by = "purge" /\ sweep.left \subseteq Members(tree)
          /\ it = SmallestOf(sweep.left) /\ it # None
          /\ \A m \in Members(tree) \ sweep.left, n \in sweep.left : Key[m] < Key[n]
      BY <1>1, <1>2 DEF CountInvariant, SweepInvariant
    <3>2. Members(tree)' = Members(tree) BY <1>4
    <3> QED BY <2>2, <2>4, <3>1, <3>2 DEF SweepInvariant, Unlocked
  <2>6. UNCHANGED BssDirectory!vars BY <1>4, <2>2 DEF BssDirectory!vars
  <2> QED BY <1>4, <2>5, <2>6 DEF CountInvariant, DirectoryStep
<1>8. CASE refcount[it] # 1
  <2>1. GoesOn(next) BY <1>2, <1>8 DEF PurgeLooks
  <2>2. next \in Pointers
    <3> DEFINE rest == sweep.left \ {it}
    <3>1. rest \in SUBSET Nodes BY <1>6 DEF Sweeps, APs
    <3>2. next = SmallestOf(rest) BY <1>3 DEF GoesFrom
    <3> HIDE DEF rest
    <3> QED BY <3>1, <3>2, SmallestIs DEF Pointers
  <2>3. /\ sweep' \in Sweeps /\ sweep'.by = sweep.by /\ sweep'.iterator = next
        /\ sweep'.unused = FALSE /\ sweep'.left = sweep.left \ {it}
    BY <1>2, <2>1, <2>2, GoesOnFields DEF CountInvariant
  <2>4. SweepInvariant'
    <3>1. sweep.left \subseteq Members(tree) BY DEF CountInvariant, SweepInvariant
    <3>2. /\ next = SmallestOf(sweep.left \ {it})
          /\ \A m \in Members(tree) \ (sweep.left \ {it}), n \in sweep.left \ {it} :
               Key[m] < Key[n]
      BY <1>3 DEF GoesFrom
    <3>3. Members(tree)' = Members(tree) BY <1>4
    <3> QED BY <1>1, <2>3, <3>1, <3>2, <3>3 DEF SweepInvariant, Unlocked
  <2>5. BssDirectory!Spare(it)
    <3>1. [a \in APs |-> Uses(a)][it] > 0 BY <1>3, <1>5, <1>8
    <3>2. it \in sweep.left BY <1>3 DEF GoesFrom
    <3> QED BY <1>1, <1>4, <2>3, <3>1, <3>2 DEF BssDirectory!Spare, BssDirectory!See
  <2> QED BY <1>3, <1>4, <2>4, <2>5 DEF CountInvariant, DirectoryStep, BssDirectory!Next
<1> QED BY <1>7, <1>8

LEMMA DroppingIsDrop ==
  ASSUME CountInvariant, SweepDrops, UNCHANGED <<lost, linkVars, work>>
  PROVE  CountInvariant' /\ DirectoryStep
<1>1. /\ sweep.by # "nobody" /\ sweep.iterator # None /\ UNCHANGED held
      /\ sweep.by = "deinit" \/ sweep.unused
  BY DEF SweepDrops
<1>2. PICK it, next : /\ it = sweep.iterator /\ next = u80211_rbtree_successor(tree, it)
                      /\ Dropped(it) /\ GoesOn(next)
  BY DEF SweepDrops
<1>3. GoesFrom(it, next) /\ it \in Members(tree) /\ it \in APs BY <1>1, <1>2, SweepGoesOn
<1>4. Leaves(it) BY <1>2, <1>3, DroppedLeaves
<1>5. Cleaning' <=> Cleaning BY DEF Cleaning
<1>6. /\ CacheInvariant' /\ AliveIsUsed' /\ Members(tree)' = Members(tree) \ {it}
  BY <1>1, <1>3, <1>4, <1>5, LeavingCounts DEF CountInvariant
<1>7. LinkInvariant' /\ [b \in APs |-> Uses(b)]' = [b \in APs |-> Uses(b)]
  BY <1>1, <1>5, UsesStay DEF CountInvariant
<1>8. next \in Pointers
  <2> DEFINE rest == sweep.left \ {it}
  <2>1. rest \in SUBSET Nodes BY DEF CountInvariant, SweepInvariant, Sweeps, APs
  <2>2. next = SmallestOf(rest) BY <1>3 DEF GoesFrom
  <2> HIDE DEF rest
  <2> QED BY <2>1, <2>2, SmallestIs DEF Pointers
<1>9. /\ sweep' \in Sweeps /\ sweep'.by = sweep.by /\ sweep'.iterator = next
      /\ sweep'.unused = FALSE /\ sweep'.left = sweep.left \ {it}
  BY <1>2, <1>8, GoesOnFields DEF CountInvariant
<1>10. SweepInvariant'
  <2>1. /\ sweep.left \subseteq Members(tree)
        /\ sweep.by = "deinit" => sweep.left = Members(tree)
    BY DEF CountInvariant, SweepInvariant
  <2>2. /\ next = SmallestOf(sweep.left \ {it})
        /\ \A m \in Members(tree) \ (sweep.left \ {it}), n \in sweep.left \ {it} : Key[m] < Key[n]
    BY <1>3 DEF GoesFrom
  <2> QED BY <1>1, <1>6, <1>9, <2>1, <2>2 DEF SweepInvariant, Unlocked
<1>11. BssDirectory!Drop(it)
  <2>1. sweep.by = "deinit" \/ [a \in APs |-> Uses(a)][it] = 0
    BY <1>1, <1>2, <1>3 DEF CountInvariant, SweepInvariant
  <2>2. it \in sweep.left BY <1>3 DEF GoesFrom
  <2>3. BssDirectory!Live BY <1>6 DEF BssDirectory!Live, AliveIsUsed
  <2>4. BssDirectory!Leave(it)
    BY <1>3, <1>4, <1>6, <1>7, <2>3 DEF BssDirectory!Leave, Leaves, u80211_bss_cache_get_count
  <2>5. BssDirectory!See(it) BY <1>9, <2>2 DEF BssDirectory!See
  <2> QED BY <2>1, <2>4, <2>5 DEF BssDirectory!Drop
<1> QED BY <1>3, <1>6, <1>7, <1>10, <1>11 DEF CountInvariant, DirectoryStep, BssDirectory!Next
-----------------------------------------------------------------------------
(***************************************************************************)
(* Every step of the device.                                               *)
(***************************************************************************)

LEMMA CacheStepsCount ==
  ASSUME CountInvariant, CacheCall \/ SweepTurn \/ PurgeEnds
  PROVE  CountInvariant' /\ DirectoryStep
<1>1. UNCHANGED <<lost, linkVars, work>>
  BY DEF CacheCall, SweepTurn, PurgeEnds, deviceVars
<1>2. CASE CacheCall
  <2>1. CASE \E a \in APs : u80211_ap_allocate(a) BY <1>1, <2>1, AllocationIsAllocate
  <2>2. CASE \E a \in APs : u80211_bss_cache_insert(a) BY <1>1, <2>2, InsertionIsInsert
  <2>3. CASE \E address \in Addresses : u80211_bss_cache_remove(address)
    BY <1>1, <2>3, RemovalIsRemove
  <2>4. CASE \E address \in Addresses : u80211_bss_cache_find(address)
    BY <1>1, <2>4, FindingIsFind
  <2>5. CASE \E capacity \in 1 .. Cardinality(APs) : u80211_bss_cache_get_aps(capacity)
    BY <1>1, <2>5, ListingIsList
  <2>6. CASE u80211_bss_cache_purge
    BY <1>1, <2>6, SweepIsBegun DEF u80211_bss_cache_purge
  <2> QED BY <1>2, <2>1, <2>2, <2>3, <2>4, <2>5, <2>6 DEF CacheCall
<1>3. CASE SweepTurn BY <1>1, <1>3, LookingIsSpare, DroppingIsDrop DEF SweepTurn
<1>4. CASE PurgeEnds BY <1>1, <1>4, SweepIsOver DEF PurgeEnds
<1> QED BY <1>2, <1>3, <1>4

LEMMA ScanKeepsCleaning ==
  ASSUME WorksOfStage, ScanCleanupRuns \/ ScanCleanupEnds
  PROVE  Cleaning' <=> Cleaning
<1> DEFINE a == "association_cleanup_work"
           w == "scan_cleanup_work"
<1>1. a \in Works /\ w \in Works /\ a # w BY DEF Works
<1>2. work \in [Works -> [queued : BOOLEAN, running : BOOLEAN]] BY DEF WorksOfStage
<1>3. \E value : work' = [work EXCEPT ![w] = value]
  <2>1. \/ work' = [work EXCEPT ![w] = [work[w] EXCEPT !.running = TRUE]]
        \/ work' = [work EXCEPT ![w] = [work[w] EXCEPT !.running = FALSE]]
    BY DEF ScanCleanupRuns, ScanCleanupEnds
  <2> HIDE DEF w
  <2> QED BY <2>1
<1>4. work'[a] = work[a] BY <1>1, <1>2, <1>3
<1> QED BY <1>4 DEF Cleaning

LEMMA UnregisterCounts ==
  ASSUME CountInvariant, WorksOfStage, UnregisterStep
  PROVE  CountInvariant' /\ DirectoryStep
<1>1. LinkInvariant /\ ReferencesCounted BY DEF CountInvariant, CacheInvariant
<1>2. CASE u80211_unregister_device
  <2>1. UNCHANGED <<tree, entry_count, sweep>> BY <1>2 DEF u80211_unregister_device, cacheVars
  <2> QED BY <1>1, <1>2, <2>1, LinkIsLost, KeepingIsNothing
<1>3. CASE u80211_key_state_deinit \/ FreesDevice
  <2>1. UNCHANGED <<cacheVars, lost, linkVars>> /\ (Cleaning' <=> Cleaning)
    BY <1>3 DEF u80211_key_state_deinit, FreesDevice, Cleaning
  <2> QED BY <2>1, LeavingIsNothing
<1>4. ASSUME NEW w \in Works, NEW step, FreesWork(w, step) PROVE CountInvariant' /\ DirectoryStep
  <2>1. work' = [work EXCEPT ![w].queued = FALSE] /\ UNCHANGED <<cacheVars, lost, linkVars>>
    BY <1>4 DEF FreesWork
  <2>2. Cleaning' <=> Cleaning BY <2>1, RunningKept DEF WorksOfStage
  <2> QED BY <2>1, <2>2, LeavingIsNothing
<1>5. CASE ReleasesDisconnected
  <2>1. UNCHANGED <<ap, association_context, association_cleanup_context, taken, waking, work,
                    lost>>
    BY <1>5 DEF ReleasesDisconnected
  <2>2. CASE DropDisconnected
    <3>1. LinkInvariant' /\ UsedLess(disconnected_ap) /\ disconnected_ap \in APs
      BY <1>1, <2>1, <2>2, DisconnectedIsDropped
    <3>2. UNCHANGED <<tree, entry_count, sweep>> BY <2>2 DEF DropDisconnected
    <3> QED BY <3>1, <3>2, ReturnIsRelease
  <2>3. CASE UNCHANGED <<cacheVars, disconnected_ap>>
    <3>1. UNCHANGED <<cacheVars, lost, linkVars>> /\ (Cleaning' <=> Cleaning)
      BY <2>1, <2>3 DEF linkVars, Cleaning
    <3> QED BY <3>1, LeavingIsNothing
  <2> QED BY <1>5, <2>2, <2>3 DEF ReleasesDisconnected
<1>6. CASE EmptiesCache
  BY <1>6, SweepIsBegun DEF EmptiesCache, u80211_bss_cache_deinit
<1>7. CASE CacheEmptied BY <1>7, SweepIsOver DEF CacheEmptied
<1>8. "scan_cleanup_work" \in Works /\ "association_cleanup_work" \in Works BY DEF Works
<1> QED BY <1>2, <1>3, <1>4, <1>5, <1>6, <1>7, <1>8 DEF UnregisterStep

LEMMA CountsNext ==
  ASSUME CountInvariant, WorksOfStage, [Next]_vars
  PROVE  CountInvariant' /\ DirectoryStep
<1>1. CASE u80211_register_device \/ Allocates \/ AllocationFails \/ u80211_set_key
           \/ UNCHANGED vars
  <2>1. UNCHANGED <<cacheVars, lost, linkVars, work>>
    BY <1>1 DEF u80211_register_device, Allocates, AllocationFails, u80211_set_key, vars,
                deviceVars
  <2>2. Cleaning' <=> Cleaning BY <2>1 DEF Cleaning
  <2> QED BY <2>1, <2>2, LeavingIsNothing
<1>2. CASE CacheCall \/ SweepTurn \/ PurgeEnds BY <1>2, CacheStepsCount
<1>3. CASE UserCall BY <1>3, UserSteps
<1>4. CASE ScanCleanupRuns \/ ScanCleanupEnds
  <2>1. UNCHANGED <<cacheVars, lost, linkVars>> BY <1>4 DEF ScanCleanupRuns, ScanCleanupEnds
  <2>2. Cleaning' <=> Cleaning BY <1>4, ScanKeepsCleaning
  <2> QED BY <2>1, <2>2, LeavingIsNothing
<1>5. CASE LinkStep BY <1>5, LinkIsUser
<1>6. CASE UnregisterStep BY <1>6, UnregisterCounts
<1> QED BY <1>1, <1>2, <1>3, <1>4, <1>5, <1>6 DEF Next

\* At first.
LEMMA CountsAtFirst == Init => CountInvariant /\ Members(tree) = {}
<1> SUFFICES ASSUME Init PROVE CountInvariant /\ Members(tree) = {} OBVIOUS
<1>1. /\ tree = EmptyTree /\ entry_count = 0 /\ refcount = [a \in APs |-> 0]
      /\ held = [a \in APs |-> 0] /\ sweep = NoSweep
      /\ ap = None /\ association_context = None /\ association_cleanup_context = None
      /\ disconnected_ap = None /\ taken = <<>> /\ waking = FALSE
      /\ work = [w \in Works |-> [queued |-> FALSE, running |-> FALSE]]
      /\ lost = [a \in APs |-> 0]
  BY DEF Init, CacheInit
<1>2. None \in Pointers /\ None \notin APs BY RbTreeAssumption DEF Pointers, APs
<1>3. LinkInvariant
  <2>1. /\ held \in [APs -> 0 .. MaxHeld] /\ lost \in [APs -> 0 .. MaxLost]
    BY <1>1, BssCacheAssumption, DeviceAssumption
  <2>2. taken \in Seq(APs) BY <1>1
  <2> QED BY <1>1, <1>2, <2>1, <2>2 DEF LinkInvariant
<1>4. Sound(tree, {}) BY <1>1, EmptyIsSound
<1>5. Members(tree) = {} BY <1>4, SoundIsServed DEF Served
<1>6. ASSUME NEW a \in APs PROVE Uses(a) = 0
  <2>1. CountIn(taken, a) = 0 BY <1>1, CountNone
  <2>2. Uses(a) = UsesFrom(0, 0, 0, FALSE, FALSE, FALSE, FALSE)
    <3>1. Uses(a) = UsesFrom(held[a], lost[a], CountIn(taken, a), LinkUp /\ ap = a,
                             association_context = a,
                             association_cleanup_context = a /\ ~waking, disconnected_ap = a)
      BY UsesAre
    <3> QED BY <1>1, <1>2, <2>1, <3>1 DEF UsesFrom, OneIf, LinkUp
  <2> QED BY <2>2 DEF UsesFrom, OneIf
<1>7. CacheInvariant
  <2>1. \A a \in APs : Uses(a) + OneIf(a \in Members(tree)) = 0 BY <1>5, <1>6 DEF OneIf
  <2>2. ReferencesCounted BY <1>1, <2>1 DEF ReferencesCounted
  <2>3. entry_count = Cardinality(Members(tree)) BY <1>1, <1>5, FS_EmptySet
  <2> QED BY <1>4, <1>5, <2>2, <2>3 DEF CacheInvariant
<1>8. SweepInvariant
  <2>1. SmallestOf({}) = None BY DEF SmallestOf
  <2>2. NoSweep \in Sweeps BY <1>2 DEF Sweeps, NoSweep
  <2> QED BY <1>1, <1>5, <2>1, <2>2 DEF SweepInvariant, NoSweep
<1> QED BY <1>3, <1>5, <1>7, <1>8 DEF CountInvariant

-----------------------------------------------------------------------------
(***************************************************************************)
(* What a stage leaves behind.                                             *)
(***************************************************************************)

EndsInvariant == LinkOfStage /\ CacheOfStage

LEMMA StageStepsEnd ==
  ASSUME EndsInvariant, UNCHANGED stage, UNCHANGED <<tree, sweep, linkVars>>
  PROVE  EndsInvariant'
<1>1. \A call, step : At(call, step)' <=> At(call, step) BY DEF At
<1>2. Up' <=> Up BY DEF Up, At
<1>3. LinkOfStage' BY <1>1, <1>2 DEF EndsInvariant, LinkOfStage, linkVars
<1>4. CacheOfStage'
  <2>1. Members(tree)' = Members(tree) OBVIOUS
  <2> QED BY <1>1, <1>2, <2>1 DEF EndsInvariant, CacheOfStage
<1> QED BY <1>3, <1>4 DEF EndsInvariant

LEMMA CacheStepsEnd ==
  ASSUME EndsInvariant, StageInvariant, SweepInvariant,
         CacheCall \/ UserCall \/ SweepTurn \/ PurgeEnds
  PROVE  EndsInvariant'
<1>1. UNCHANGED <<stage, linkVars>>
  BY DEF CacheCall, UserCall, SweepTurn, PurgeEnds, deviceVars
<1>2. \A call, step : At(call, step)' <=> At(call, step) BY <1>1 DEF At
<1>3. Up' <=> Up BY <1>1 DEF Up, At
<1>4. LinkOfStage' BY <1>1, <1>2, <1>3 DEF EndsInvariant, LinkOfStage, linkVars
<1>5. CacheOfStage'
  <2>1. CASE Up
    <3>1. ~At("unregister", 6) BY <2>1 DEF Up, At
    <3> QED BY <1>2, <1>3, <2>1, <3>1 DEF CacheOfStage
  <2>2. CASE UserCall
    <3>1. UNCHANGED <<tree, sweep>> BY <2>2 DEF UserCall, u80211_ap_hold, u80211_ap_release
    <3>2. Members(tree)' = Members(tree) BY <3>1
    <3> QED BY <1>2, <1>3, <3>1, <3>2 DEF EndsInvariant, CacheOfStage
  <2>3. CASE SweepTurn /\ ~Up
    <3>1. ~Unlocked BY <2>3 DEF SweepTurn, PurgeLooks, SweepDrops, Unlocked
    <3>2. At("unregister", 6) BY <2>3, <3>1 DEF StageInvariant, LockOfStage, Up
    <3>3. sweep.by = "deinit" BY <3>2 DEF EndsInvariant, CacheOfStage
    <3>4. sweep \in Sweeps BY DEF SweepInvariant
    <3>5. sweep'.by = sweep.by
      <4>1. PICK next, left : sweep' = [sweep EXCEPT !.iterator = next, !.unused = FALSE,
                                                     !.left = left]
        BY <2>3, <3>3 DEF SweepTurn, PurgeLooks, SweepDrops, GoesOn
      <4> QED BY <3>4, <4>1 DEF Sweeps
    <3> QED BY <1>2, <3>2, <3>3, <3>5 DEF CacheOfStage
  <2> QED BY <2>1, <2>2, <2>3 DEF CacheCall, PurgeEnds
<1> QED BY <1>4, <1>5 DEF EndsInvariant

LEMMA LinkStepsEnd ==
  ASSUME EndsInvariant, LinkStep
  PROVE  EndsInvariant'
<1>1. UNCHANGED <<stage, tree, sweep>>
  BY DEF LinkStep, release_disconnected_ap, DropDisconnected, u80211_associate, AttemptEnds,
         association_process_teardown, u80211_deauthenticate, CleanupBegins, CleanupReleases,
         CleanupWakes, CleanupReturns, cacheVars
<1>2. \A call, step : At(call, step)' <=> At(call, step) BY <1>1 DEF At
<1>3. Up' <=> Up BY <1>1 DEF Up, At
<1>4. \/ Up
      \/ /\ UNCHANGED <<ap, association_context>>
         /\ association_cleanup_context' \in {association_cleanup_context, None}
         /\ disconnected_ap' \in {disconnected_ap, None}
  BY DEF LinkStep, release_disconnected_ap, u80211_associate, AttemptEnds,
         association_process_teardown, u80211_deauthenticate, CleanupBegins, CleanupReleases,
         CleanupWakes, CleanupReturns, linkVars
<1>5. LinkOfStage'
  <2>1. CASE Up
    <3>1. Up' BY <1>3, <2>1
    <3>2. (Up \/ (ap = None /\ association_context = None /\ association_cleanup_context = None))'
      BY <3>1
    <3>3. (Up \/ (\E step \in 1 .. 4 : At("unregister", step)) \/ disconnected_ap = None)'
      BY <3>1
    <3> QED BY ONLY <3>2, <3>3 DEF LinkOfStage
  <2>2. CASE ~Up
    <3>1. /\ ap' = None /\ association_context' = None /\ association_cleanup_context' = None
          /\ disconnected_ap' \in {disconnected_ap, None}
      BY <1>4, <2>2 DEF EndsInvariant, LinkOfStage
    <3>2. (\E step \in 1 .. 4 : At("unregister", step)) \/ disconnected_ap = None
      BY <2>2 DEF EndsInvariant, LinkOfStage
    <3>3. (\E step \in 1 .. 4 : At("unregister", step)') \/ disconnected_ap' = None
      BY <1>2, <3>1, <3>2
    <3> QED BY <3>1, <3>3 DEF LinkOfStage
  <2> QED BY <2>1, <2>2
<1>6. CacheOfStage'
  <2>1. Members(tree)' = Members(tree) BY <1>1
  <2> QED BY <1>1, <1>2, <1>3, <2>1 DEF EndsInvariant, CacheOfStage
<1> QED BY <1>5, <1>6 DEF EndsInvariant

\* Of the end, from one step to the next.
LEMMA UnregisterGoesOn ==
  ASSUME EndsInvariant, NEW step \in 1 .. 6, NEW freed, Unregistering(step, freed),
         UNCHANGED <<ap, association_context, association_cleanup_context>>,
         disconnected_ap' = IF step = 4 THEN None ELSE disconnected_ap,
         step < 6 => UNCHANGED tree,
         step = 5 => sweep'.by = "deinit",
         step = 6 => Members(tree)' = {}
  PROVE  EndsInvariant'
<1> DEFINE next == step + 1
<1>1. At("unregister", step) /\ At("unregister", next)' /\ next \in 2 .. 7
  BY DEF Unregistering, Proceed, At
<1>2. ~Up BY <1>1 DEF Up, At
<1>3. LinkOfStage'
  <2>1. /\ ap' = None /\ association_context' = None /\ association_cleanup_context' = None
    BY <1>2 DEF EndsInvariant, LinkOfStage
  <2>2. (\E at \in 1 .. 4 : At("unregister", at)') \/ disconnected_ap' = None
    <3>1. CASE step < 4
      <4>1. next \in 1 .. 4 BY <3>1
      <4> HIDE DEF next
      <4> QED BY <1>1, <4>1
    <3>2. CASE step = 4 BY <3>2
    <3>3. CASE step > 4
      <4>1. \A at \in 1 .. 4 : ~At("unregister", at) BY <1>1, <3>3 DEF At
      <4>2. disconnected_ap = None BY <1>2, <4>1 DEF EndsInvariant, LinkOfStage
      <4> QED BY <3>3, <4>2
    <3> QED BY <3>1, <3>2, <3>3
  <2> QED BY <2>1, <2>2 DEF LinkOfStage
<1>4. CacheOfStage'
  <2>1. (\E at \in 1 .. 6 : At("unregister", at)') \/ Members(tree)' = {}
    <3>1. CASE step < 6
      <4>1. next \in 1 .. 6 BY <3>1
      <4> HIDE DEF next
      <4> QED BY <1>1, <4>1
    <3>2. CASE step = 6 BY <3>2
    <3> QED BY <3>1, <3>2
  <2>2. At("unregister", 6)' => sweep'.by = "deinit"
    <3>1. At("unregister", 6)' => next = 6 BY <1>1 DEF At
    <3> QED BY <3>1
  <2> QED BY <2>1, <2>2 DEF CacheOfStage
<1> QED BY <1>3, <1>4 DEF EndsInvariant

LEMMA UnregisterEnds ==
  ASSUME EndsInvariant, CountInvariant, UnregisterStep
  PROVE  EndsInvariant'
<1>1. CASE u80211_unregister_device
  <2>1. /\ At("unregister", 1)' /\ ap' = None /\ association_context' = None
        /\ association_cleanup_context' = None
    BY <1>1 DEF u80211_unregister_device, Proceed, At, Idle
  <2>2. 1 \in 1 .. 4 /\ 1 \in 1 .. 6 OBVIOUS
  <2>3. LinkOfStage' BY <2>1, <2>2 DEF LinkOfStage
  <2>4. ~At("unregister", 6)' BY <2>1 DEF At
  <2>5. CacheOfStage' BY <2>1, <2>2, <2>4 DEF CacheOfStage
  <2> QED BY <2>3, <2>5 DEF EndsInvariant
<1>2. CASE u80211_key_state_deinit
  <2>1. Unregistering(1, {"key", "key_spinlock"}) /\ UNCHANGED <<tree, linkVars>>
    BY <1>2 DEF u80211_key_state_deinit, cacheVars
  <2> QED BY <2>1, UnregisterGoesOn DEF linkVars
<1>3. ASSUME NEW w, NEW step \in 2 .. 3, FreesWork(w, step) PROVE EndsInvariant'
  <2>1. Unregistering(step, {w}) /\ UNCHANGED <<tree, linkVars>>
    BY <1>3 DEF FreesWork, cacheVars
  <2> QED BY <2>1, UnregisterGoesOn DEF linkVars
<1>4. CASE ReleasesDisconnected
  <2>1. /\ Unregistering(4, {}) /\ disconnected_ap' = None /\ UNCHANGED tree
        /\ UNCHANGED <<ap, association_context, association_cleanup_context>>
    BY <1>4 DEF ReleasesDisconnected, DropDisconnected, cacheVars
  <2> QED BY <2>1, UnregisterGoesOn
<1>5. CASE EmptiesCache
  <2>1. /\ Unregistering(5, {}) /\ UNCHANGED <<tree, linkVars>> /\ sweep'.by = "deinit"
    BY <1>5 DEF EmptiesCache, u80211_bss_cache_deinit, SweepBegins
  <2> QED BY <2>1, UnregisterGoesOn DEF linkVars
<1>6. CASE CacheEmptied
  <2>1. /\ Unregistering(6, {"rwlock"}) /\ UNCHANGED <<tree, linkVars>> /\ sweep.iterator = None
    BY <1>6 DEF CacheEmptied, SweepEnds
  <2>2. At("unregister", 6) BY <2>1 DEF Unregistering
  <2>3. sweep.by = "deinit" BY <2>2 DEF EndsInvariant, CacheOfStage
  <2>4. Members(tree) = {}
    <3> DEFINE members == Members(tree)
    <3>1. SmallestOf(members) = None BY <2>1, <2>3 DEF CountInvariant, SweepInvariant
    <3>2. members \in SUBSET Nodes BY CacheIsServed DEF APs
    <3> HIDE DEF members
    <3>3. members = {} BY <3>1, <3>2, SmallestIs
    <3> QED BY <3>3 DEF members
  <2>5. Members(tree)' = {} BY <2>1, <2>4
  <2> QED BY <2>1, <2>5, UnregisterGoesOn DEF linkVars
<1>7. CASE FreesDevice
  <2>1. /\ At("unregister", 7) /\ At("none", 1)' /\ UNCHANGED <<tree, linkVars>>
    BY <1>7 DEF FreesDevice, Proceed, At, cacheVars
  <2>2. ~Up /\ \A step \in 1 .. 6 : ~At("unregister", step) BY <2>1 DEF Up, At
  <2>3. \A step \in 1 .. 4 : ~At("unregister", step) BY <2>2
  <2>4. LinkOfStage' BY <2>1, <2>2, <2>3 DEF EndsInvariant, LinkOfStage, linkVars
  <2>5. ~At("unregister", 6)' BY <2>1 DEF At
  <2>6. Members(tree)' = {}
    <3>1. Members(tree) = {} BY <2>2 DEF EndsInvariant, CacheOfStage
    <3> QED BY <2>1, <3>1
  <2> QED BY <2>4, <2>5, <2>6 DEF EndsInvariant, CacheOfStage
<1> QED BY <1>1, <1>2, <1>3, <1>4, <1>5, <1>6, <1>7 DEF UnregisterStep

\* Of registration, which has nothing to leave.
LEMMA RegisterEnds ==
  ASSUME EndsInvariant, u80211_register_device \/ Allocates \/ AllocationFails
  PROVE  EndsInvariant'
<1>1. /\ At("none", 1) \/ \E step \in 1 .. 7 : At("register", step)
      /\ UNCHANGED <<tree, linkVars>>
  BY ObjectsInOrder DEF u80211_register_device, Allocates, AllocationFails, cacheVars
<1>2. ~Up /\ \A step : ~At("unregister", step) BY <1>1 DEF Up, At
<1>3. ~At("unregister", 6)'
  BY DEF u80211_register_device, Allocates, AllocationFails, Proceed, At
<1>4. LinkOfStage' BY <1>1, <1>2 DEF EndsInvariant, LinkOfStage, linkVars
<1>5. Members(tree)' = {}
  <2>1. Members(tree) = {} BY <1>2 DEF EndsInvariant, CacheOfStage
  <2> QED BY <1>1, <2>1
<1> QED BY <1>3, <1>4, <1>5 DEF EndsInvariant, CacheOfStage

LEMMA EndsNext ==
  ASSUME EndsInvariant, StageInvariant, CountInvariant, [Next]_vars
  PROVE  EndsInvariant'
<1>1. CASE u80211_register_device \/ Allocates \/ AllocationFails BY <1>1, RegisterEnds
<1>2. CASE CacheCall \/ UserCall \/ SweepTurn \/ PurgeEnds
  BY <1>2, CacheStepsEnd DEF CountInvariant
<1>3. CASE u80211_set_key \/ ScanCleanupRuns \/ ScanCleanupEnds \/ UNCHANGED vars
  <2>1. UNCHANGED stage /\ UNCHANGED <<tree, sweep, linkVars>>
    BY <1>3 DEF u80211_set_key, ScanCleanupRuns, ScanCleanupEnds, vars, deviceVars, cacheVars
  <2> QED BY <2>1, StageStepsEnd
<1>4. CASE LinkStep BY <1>4, LinkStepsEnd
<1>5. CASE UnregisterStep BY <1>5, UnregisterEnds
<1> QED BY <1>1, <1>2, <1>3, <1>4, <1>5 DEF Next
-----------------------------------------------------------------------------
(***************************************************************************)
(* What holds of a device.                                                 *)
(***************************************************************************)

\* Who holds an access point, what the cache has in its tree, and where a sweep is, as
\* the stage of the device allows.
DeviceInvariant == StageInvariant /\ CountInvariant /\ EndsInvariant

\* Through every call, every interleaving of users, link, works and sweeps, and every
\* stage of a device: the tree of the cache is a sound one of its entries and as large
\* as is counted, each count is of those who hold the access point, and a sweep has
\* before it what it has not decided on.
THEOREM DeviceIsConsistent == Spec => []DeviceInvariant
<1>1. Init => DeviceInvariant
  <2> SUFFICES ASSUME Init PROVE DeviceInvariant OBVIOUS
  <2>1. StageInvariant BY StageAtFirst
  <2>2. CountInvariant /\ Members(tree) = {} BY CountsAtFirst
  <2>3. At("none", 1) /\ ap = None /\ association_context = None
        /\ association_cleanup_context = None /\ disconnected_ap = None
    BY DEF Init, At
  <2>4. ~At("unregister", 6) BY <2>3 DEF At
  <2>5. EndsInvariant BY <2>2, <2>3, <2>4 DEF EndsInvariant, LinkOfStage, CacheOfStage
  <2> QED BY <2>1, <2>2, <2>5 DEF DeviceInvariant
<1>2. DeviceInvariant /\ [Next]_vars => DeviceInvariant'
  <2> SUFFICES ASSUME DeviceInvariant, [Next]_vars PROVE DeviceInvariant' OBVIOUS
  <2>1. StageInvariant' BY StageNext DEF DeviceInvariant
  <2>2. CountInvariant' BY CountsNext DEF DeviceInvariant, StageInvariant
  <2>3. EndsInvariant' BY EndsNext DEF DeviceInvariant
  <2> QED BY <2>1, <2>2, <2>3 DEF DeviceInvariant
<1> QED BY <1>1, <1>2, PTL DEF Spec

\* Every variable of the device and of its cache stays in its set; so do the fields of
\* the nodes, whatever the tree goes through.
THEOREM DeviceTypes == Spec => []TypeOK
<1>1. Spec => []DeviceInvariant BY DeviceIsConsistent
<1>2. DeviceInvariant => TypeOK
  <2> SUFFICES ASSUME DeviceInvariant PROVE TypeOK OBVIOUS
  <2>1. CacheTypeOK
    <3>1. Served(tree, Members(tree)) /\ Members(tree) \in SUBSET APs
      BY CacheIsServed DEF DeviceInvariant
    <3>2. tree \in Trees BY <3>1 DEF Served
    <3>3. entry_count \in 0 .. Cardinality(APs)
      <4> DEFINE many == Cardinality(Members(tree))
                 most == Cardinality(APs)
      <4>1. many \in Nat /\ most \in Nat /\ many <= most
        BY <3>1, RbTreeAssumption, FS_Subset, FS_CardinalityType DEF APs
      <4>2. entry_count = many BY DEF DeviceInvariant, CountInvariant, CacheInvariant
      <4> HIDE DEF many, most
      <4>3. entry_count \in 0 .. most BY <4>1, <4>2
      <4> QED BY <4>3 DEF most
    <3>4. refcount \in [APs -> Nat]
      <4>1. ASSUME NEW a \in APs PROVE Uses(a) + OneIf(a \in Members(tree)) \in Nat
        <5>1. Uses(a) \in Nat BY UsesType DEF DeviceInvariant, CountInvariant
        <5>2. OneIf(a \in Members(tree)) \in Nat BY DEF OneIf
        <5> QED BY <5>1, <5>2
      <4>2. ReferencesCounted BY DEF DeviceInvariant, CountInvariant, CacheInvariant
      <4> QED BY <4>1, <4>2 DEF ReferencesCounted
    <3>5. held \in [APs -> 0 .. MaxHeld] BY DEF DeviceInvariant, CountInvariant, LinkInvariant
    <3>6. sweep \in Sweeps BY DEF DeviceInvariant, CountInvariant, SweepInvariant
    <3> QED BY <3>2, <3>3, <3>4, <3>5, <3>6 DEF CacheTypeOK
  <2>2. ObjectsOfStage BY DEF DeviceInvariant, StageInvariant
  <2>3. stage \in Stages
    <3>1. \E call \in {"none", "register", "up", "unregister"}, step \in 1 .. 7 :
            At(call, step)
      BY <2>2 DEF ObjectsOfStage
    <3> QED BY <3>1, ObjectsInOrder DEF Stages, At
  <2>4. objects \subseteq Everything \cup {"key"}
    <3>1. \A step \in 1 .. 7 : Undone(Allocations[step]) \subseteq Everything
      <4> TAKE step \in 1 .. 7
      <4>1. \/ step = 1 \/ step = 2 \/ step = 3 \/ step = 4 \/ step = 5 \/ step = 6
            \/ step = 7
        OBVIOUS
      <4>2. /\ Allocations[1] = "device" /\ Allocations[2] = "key_spinlock"
            /\ Allocations[3] = "scan_spinlock" /\ Allocations[4] = "scan_cleanup_work"
            /\ Allocations[5] = "association_spinlock"
            /\ Allocations[6] = "association_cleanup_work" /\ Allocations[7] = "rwlock"
        BY DEF Allocations
      <4>3. \A object \in Everything : Undone(object) \subseteq Everything
        BY DEF Undone, Everything
      <4>4. Allocations[step] \in Everything BY <4>1, <4>2 DEF Everything
      <4> QED BY <4>3, <4>4
    <3>2. \A step : Remaining(step) \subseteq Everything BY DEF Remaining
    <3> QED BY <2>2, <3>1, <3>2 DEF ObjectsOfStage
  <2>5. objects \subseteq {Allocations[i] : i \in DOMAIN Allocations} \cup {"key"}
    BY <2>4, ObjectsInOrder
  <2>6. work \in [Works -> [queued : BOOLEAN, running : BOOLEAN]]
    BY DEF DeviceInvariant, StageInvariant, WorksOfStage
  <2>7. /\ {ap, association_context, association_cleanup_context, disconnected_ap}
             \subseteq Pointers
        /\ taken \in Seq(APs) /\ waking \in BOOLEAN /\ lost \in [APs -> 0 .. MaxLost]
    BY DEF DeviceInvariant, CountInvariant, LinkInvariant
  <2> QED BY <2>1, <2>3, <2>5, <2>6, <2>7 DEF TypeOK
<1> QED BY <1>1, <1>2, PTL

\* When a device is not registered, because it never was, because its registration
\* failed or because it was unregistered, there is no object of it, no entry in the
\* tree, and no reference but those users have not returned and those that the code
\* loses with a link.
THEOREM NothingIsLeft == Spec => []NothingLeft
<1>1. Spec => []DeviceInvariant BY DeviceIsConsistent
<1>2. DeviceInvariant => NothingLeft
  <2> SUFFICES ASSUME DeviceInvariant, At("none", 1)
               PROVE  /\ objects = {} /\ Members(tree) = {} /\ entry_count = 0
                      /\ \A a \in APs : refcount[a] = held[a] + lost[a]
    BY DEF NothingLeft
  <2>1. ~Up /\ \A step : ~At("unregister", step) BY DEF Up, At
  <2>2. objects = {} BY DEF DeviceInvariant, StageInvariant, ObjectsOfStage, At
  <2>3. Members(tree) = {} BY <2>1 DEF DeviceInvariant, EndsInvariant, CacheOfStage
  <2>4. entry_count = 0
    BY <2>3, FS_EmptySet DEF DeviceInvariant, CountInvariant, CacheInvariant
  <2>5. ASSUME NEW a \in APs PROVE refcount[a] = held[a] + lost[a]
    <3>1. /\ ap = None /\ association_context = None /\ association_cleanup_context = None
          /\ disconnected_ap = None
      BY <2>1 DEF DeviceInvariant, EndsInvariant, LinkOfStage
    <3>2. ~Cleaning BY Quiet DEF DeviceInvariant, Cleaning, Works
    <3>3. taken = <<>> /\ ~waking BY <3>2 DEF DeviceInvariant, CountInvariant, LinkInvariant
    <3>4. CountIn(taken, a) = 0 BY <3>3, CountNone
    <3>5. a # None BY RbTreeAssumption DEF APs
    <3>6. held[a] \in Nat /\ lost[a] \in Nat BY UsesType DEF DeviceInvariant, CountInvariant
    <3>7. Uses(a) = UsesFrom(held[a], lost[a], 0, FALSE, FALSE, FALSE, FALSE)
      <4>1. Uses(a) = UsesFrom(held[a], lost[a], CountIn(taken, a), LinkUp /\ ap = a,
                               association_context = a,
                               association_cleanup_context = a /\ ~waking, disconnected_ap = a)
        BY UsesAre
      <4> QED BY <3>1, <3>4, <3>5, <4>1 DEF UsesFrom, OneIf, LinkUp
    <3>8. refcount[a] = Uses(a) + OneIf(a \in Members(tree))
      BY DEF DeviceInvariant, CountInvariant, CacheInvariant, ReferencesCounted
    <3> QED BY <2>3, <3>6, <3>7, <3>8 DEF UsesFrom, OneIf
  <2> QED BY <2>2, <2>3, <2>4, <2>5
<1> QED BY <1>1, <1>2, PTL

\* The cache of a device, with whatever else holds references while it is registered,
\* used and unregistered, is the directory that src/bss_cache.c and src/ap.h promise:
\* one entry for an address, lookups and lists of what there is, nothing freed while it
\* is in the cache or in use and nothing kept that is neither, and sweeps that decide
\* on every entry once.
THEOREM DeviceImplementsDirectory == Spec => ImplementsDirectory
<1>1. Spec => []DeviceInvariant BY DeviceIsConsistent
<1>2. Init => BssDirectory!Init
  <2> SUFFICES ASSUME Init PROVE BssDirectory!Init OBVIOUS
  <2>1. CountInvariant /\ Members(tree) = {} BY CountsAtFirst
  <2>2. /\ entry_count = 0 /\ refcount = [a \in APs |-> 0] /\ sweep = NoSweep
    BY DEF Init, CacheInit
  <2>3. ASSUME NEW a \in APs PROVE Uses(a) = 0
    <3>1. refcount[a] = Uses(a) + OneIf(a \in Members(tree)) /\ Uses(a) \in Nat
      BY <2>1, UsesType DEF CountInvariant, CacheInvariant, ReferencesCounted
    <3>2. OneIf(a \in Members(tree)) = 0 BY <2>1 DEF OneIf
    <3> QED BY <2>2, <3>1, <3>2
  <2>4. {a \in APs : refcount[a] > 0} = {} BY <2>2
  <2>5. [a \in APs |-> Uses(a)] = [a \in APs |-> 0] BY <2>3
  <2> QED BY <2>1, <2>2, <2>4, <2>5
      DEF BssDirectory!Init, u80211_bss_cache_get_count, NoSweep
<1>3. DeviceInvariant /\ [Next]_vars => [BssDirectory!Next]_BssDirectory!vars
  <2> SUFFICES ASSUME DeviceInvariant, [Next]_vars
               PROVE  [BssDirectory!Next]_BssDirectory!vars
    OBVIOUS
  <2>1. DirectoryStep BY CountsNext DEF DeviceInvariant, StageInvariant
  <2> QED BY <2>1 DEF DirectoryStep
<1> QED BY <1>1, <1>2, <1>3, PTL DEF Spec, ImplementsDirectory, BssDirectory!Spec

=============================================================================
