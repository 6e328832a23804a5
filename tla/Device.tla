------------------------------- MODULE Device -------------------------------
(***************************************************************************)
(* src/device.c: a device is registered, used and unregistered.  Composes  *)
(* the BSS cache with what else holds references to access points: the     *)
(* link, which Association models in full and which is reduced here to the *)
(* critical sections that move a reference.                                *)
(*                                                                         *)
(* The device is unregistered as the programs of src/tests do it: by the   *)
(* user of all calls, when no scan is in progress and the wait for the last*)
(* attempt to associate has returned; frames have ceased to come.  A link  *)
(* may be up, and works may still be queued or run.                        *)
(*                                                                         *)
(* A definition named X_Y, with a capital Y, is X with a defect; no action *)
(* uses it.                                                                *)
(***************************************************************************)
EXTENDS BssCache, Sequences

CONSTANT MaxLost   \* links that are up when a device is unregistered: a bound

ASSUME DeviceAssumption == MaxLost \in Nat

VARIABLES
  stage,     \* the call that has the device for itself, and where it is in it
  objects,   \* what is allocated
  ap,        \* of the link; owns a reference once there is no attempt
  association_context,           \* the access point an attempt holds
  association_cleanup_context,   \* the same, when the attempt is over
  disconnected_ap,               \* of a link that was torn down
  work,      \* whether each of the works is queued and whether it runs
  taken,     \* references the cleanup of the association has to drop, in order
  waking,    \* whether it will wake those who wait for the attempt
  lost       \* of each access point: references that nobody will drop

linkVars == <<ap, association_context, association_cleanup_context, disconnected_ap, taken,
              waking>>
deviceVars == <<stage, objects, linkVars, work, lost>>
vars == <<cacheVars, deviceVars>>

-----------------------------------------------------------------------------
(***************************************************************************)
(* Registration.                                                           *)
(***************************************************************************)

Works == {"scan_cleanup_work", "association_cleanup_work"}

\* What u80211_register_device allocates, in order.
Allocations == <<"device", "key_spinlock", "scan_spinlock", "scan_cleanup_work",
                 "association_spinlock", "association_cleanup_work", "rwlock">>

\* What is freed when there is no memory for an object.
Undone(object) ==
  CASE object = "device" -> {}
    [] object = "key_spinlock" -> {"device"}
    [] object = "scan_spinlock" -> {"key_spinlock", "device"}
    [] object = "scan_cleanup_work" -> {"scan_spinlock", "key_spinlock", "device"}
    [] object = "association_spinlock" ->
         {"scan_cleanup_work", "scan_spinlock", "key_spinlock", "device"}
    [] object = "association_cleanup_work" ->
         {"association_spinlock", "scan_cleanup_work", "scan_spinlock", "key_spinlock", "device"}
    [] object = "rwlock" -> {"association_cleanup_work", "association_spinlock",
                             "scan_cleanup_work", "scan_spinlock", "key_spinlock", "device"}

Stages == [call : {"none", "register", "up", "unregister"}, step : 1 .. Len(Allocations)]
At(call, step) == stage = [call |-> call, step |-> step]
Proceed(call, step) == stage' = [call |-> call, step |-> step]

Init ==
  /\ CacheInit
  /\ stage = [call |-> "none", step |-> 1] /\ objects = {}
  /\ ap = None /\ association_context = None /\ association_cleanup_context = None
  /\ disconnected_ap = None /\ taken = <<>> /\ waking = FALSE
  /\ work = [w \in Works |-> [queued |-> FALSE, running |-> FALSE]]
  /\ lost = [a \in APs |-> 0]

u80211_register_device ==
  /\ At("none", 1) /\ Proceed("register", 1)
  /\ UNCHANGED <<cacheVars, objects, linkVars, work, lost>>

Allocates ==
  \E step \in DOMAIN Allocations :
    /\ At("register", step)
    /\ objects' = objects \cup {Allocations[step]}
    /\ IF step = Len(Allocations) THEN Proceed("up", 1) ELSE Proceed("register", step + 1)
    /\ UNCHANGED <<cacheVars, linkVars, work, lost>>

AllocationFails ==
  \E step \in DOMAIN Allocations :
    /\ At("register", step)
    /\ objects' = objects \ Undone(Allocations[step])
    /\ Proceed("none", 1)
    /\ UNCHANGED <<cacheVars, linkVars, work, lost>>

-----------------------------------------------------------------------------
(***************************************************************************)
(* While the device is up.                                                 *)
(***************************************************************************)

Up == At("up", 1)

\* Calls to the cache, and what users do with the references they have, which
\* they may do at any time.
CacheCall ==
  /\ Up
  /\ \/ \E a \in APs : u80211_ap_allocate(a) \/ u80211_bss_cache_insert(a)
     \/ \E address \in Addresses :
          u80211_bss_cache_remove(address) \/ u80211_bss_cache_find(address)
     \/ \E capacity \in 1 .. Cardinality(APs) : u80211_bss_cache_get_aps(capacity)
     \/ u80211_bss_cache_purge
  /\ UNCHANGED deviceVars

UserCall == (\E a \in APs : u80211_ap_hold(a) \/ u80211_ap_release(a)) /\ UNCHANGED deviceVars

SweepTurn == (PurgeLooks \/ SweepDrops) /\ UNCHANGED deviceVars

PurgeEnds == Up /\ SweepEnds /\ UNCHANGED deviceVars

\* The key store allocates a key; what becomes of it then is in Keys.
u80211_set_key ==
  /\ Up /\ "key" \notin objects
  /\ objects' = objects \cup {"key"}
  /\ UNCHANGED <<cacheVars, stage, linkVars, work, lost>>

\* A request for a work that is queued already is ignored.
Enqueued(w) == work' = [work EXCEPT ![w].queued = TRUE]

\* The last cleanup of a scan: it has woken those who waited, and goes on.
ScanCleanupRuns ==
  /\ Up /\ ~work["scan_cleanup_work"].running
  /\ work' = [work EXCEPT !["scan_cleanup_work"].running = TRUE]
  /\ UNCHANGED <<cacheVars, stage, objects, linkVars, lost>>
ScanCleanupEnds ==
  /\ work["scan_cleanup_work"].running
  /\ work' = [work EXCEPT !["scan_cleanup_work"].running = FALSE]
  /\ UNCHANGED <<cacheVars, stage, objects, linkVars, lost>>

-----------------------------------------------------------------------------
(***************************************************************************)
(* The link.                                                               *)
(***************************************************************************)

DropDisconnected ==
  /\ disconnected_ap # None
  /\ Released(disconnected_ap)
  /\ disconnected_ap' = None
  /\ UNCHANGED <<tree, entry_count, held, sweep>>

\* First thing of every attempt, of those also that find the device busy.
release_disconnected_ap ==
  /\ Up /\ DropDisconnected
  /\ UNCHANGED <<stage, objects, ap, association_context, association_cleanup_context, work, taken,
                 waking, lost>>

\* An attempt begins: its context takes the reference.
u80211_associate(a) ==
  /\ Up /\ held[a] > 0
  /\ ap = None /\ association_context = None /\ association_cleanup_context = None
  /\ Held(a)
  /\ association_context' = a /\ ap' = a
  /\ UNCHANGED <<tree, entry_count, held, sweep, stage, objects, association_cleanup_context,
                 disconnected_ap, work, taken, waking, lost>>

\* It ends, with a link, which takes a reference of its own, or without.
AttemptEnds(success) ==
  /\ Up /\ association_context # None
  /\ IF success THEN Held(ap) ELSE UNCHANGED refcount
  /\ ap' = IF success THEN ap ELSE None
  /\ association_context' = None /\ association_cleanup_context' = association_context
  /\ Enqueued("association_cleanup_work")
  /\ UNCHANGED <<tree, entry_count, held, sweep, stage, objects, disconnected_ap, taken,
                 waking, lost>>

LinkUp == ap # None /\ association_context = None

\* References that are lost, of whom at most so many.
Lost(a) == lost[a] < MaxLost /\ lost' = [lost EXCEPT ![a] = @ + 1]

\* By the access point.  If the reference of an earlier link has not been dropped
\* yet, it never is.
association_process_teardown ==
  /\ Up /\ LinkUp
  /\ IF disconnected_ap # None THEN Lost(disconnected_ap) ELSE UNCHANGED lost
  /\ disconnected_ap' = ap /\ ap' = None
  /\ Enqueued("association_cleanup_work")
  /\ UNCHANGED <<cacheVars, stage, objects, association_context, association_cleanup_context, taken,
                 waking>>

\* By the user.
u80211_deauthenticate ==
  /\ Up /\ LinkUp
  /\ Released(ap)
  /\ ap' = None
  /\ UNCHANGED <<tree, entry_count, held, sweep, stage, objects, association_context,
                 association_cleanup_context, disconnected_ap, work, taken, waking, lost>>

Cleaning == work["association_cleanup_work"].running

CleanupBegins ==
  /\ work["association_cleanup_work"] = [queued |-> TRUE, running |-> FALSE]
  /\ work' = [work EXCEPT !["association_cleanup_work"] = [queued |-> FALSE, running |-> TRUE]]
  /\ LET reference(a) == IF a = None THEN <<>> ELSE <<a>>
     IN  taken' = reference(association_cleanup_context) \o reference(disconnected_ap)
  /\ waking' = (association_cleanup_context # None)
  /\ disconnected_ap' = None
  /\ UNCHANGED <<cacheVars, stage, objects, ap, association_context, association_cleanup_context,
                 lost>>

CleanupReleases ==
  /\ Cleaning /\ taken # <<>>
  /\ Released(Head(taken))
  /\ taken' = Tail(taken)
  /\ UNCHANGED <<tree, entry_count, held, sweep, stage, objects, ap, association_context,
                 association_cleanup_context, disconnected_ap, work, waking, lost>>

\* Those who wait for the attempt may go on ...
CleanupWakes ==
  /\ Cleaning /\ taken = <<>> /\ waking
  /\ waking' = FALSE /\ association_cleanup_context' = None
  /\ UNCHANGED <<cacheVars, stage, objects, ap, association_context, disconnected_ap, work, taken,
                 lost>>

\* ... before the work is over.
CleanupReturns ==
  /\ Cleaning /\ taken = <<>> /\ ~waking
  /\ work' = [work EXCEPT !["association_cleanup_work"].running = FALSE]
  /\ UNCHANGED <<cacheVars, stage, objects, linkVars, lost>>

-----------------------------------------------------------------------------
(***************************************************************************)
(* Unregistering.                                                          *)
(***************************************************************************)

Idle == Unlocked /\ association_context = None /\ association_cleanup_context = None

\* The reference of a link that is up is never dropped.
u80211_unregister_device ==
  /\ Up /\ Idle
  /\ Proceed("unregister", 1)
  /\ IF ap # None THEN Lost(ap) ELSE UNCHANGED lost
  /\ ap' = None
  /\ UNCHANGED <<cacheVars, objects, association_context, association_cleanup_context,
                 disconnected_ap, work, taken, waking>>

Unregistering(step, freed) ==
  /\ At("unregister", step) /\ Proceed("unregister", step + 1)
  /\ objects' = objects \ freed

u80211_key_state_deinit ==
  /\ Unregistering(1, {"key", "key_spinlock"})
  /\ UNCHANGED <<cacheVars, linkVars, work, lost>>

\* What is queued is cancelled; what runs is waited for.
FreesWork_NotJoined(w, step) ==
  /\ Unregistering(step, {w})
  /\ work' = [work EXCEPT ![w].queued = FALSE]
  /\ UNCHANGED <<cacheVars, linkVars, lost>>
FreesWork(w, step) ==
  /\ ~work[w].running
  /\ Unregistering(step, {w})
  /\ work' = [work EXCEPT ![w].queued = FALSE]
  /\ UNCHANGED <<cacheVars, linkVars, lost>>

\* A cleanup that was cancelled has left its reference.
ReleasesDisconnected_Never ==
  /\ Unregistering(4, {})
  /\ UNCHANGED <<cacheVars, linkVars, work, lost>>
ReleasesDisconnected ==
  /\ Unregistering(4, {})
  /\ \/ DropDisconnected
     \/ disconnected_ap = None /\ UNCHANGED <<cacheVars, disconnected_ap>>
  /\ UNCHANGED <<ap, association_context, association_cleanup_context, taken, waking, work, lost>>

EmptiesCache ==
  /\ Unregistering(5, {}) /\ u80211_bss_cache_deinit
  /\ UNCHANGED <<linkVars, work, lost>>

CacheEmptied ==
  /\ Unregistering(6, {"rwlock"}) /\ SweepEnds
  /\ UNCHANGED <<linkVars, work, lost>>

FreesDevice ==
  /\ At("unregister", 7) /\ Proceed("none", 1)
  /\ objects' = objects \ {"association_spinlock", "scan_spinlock", "device"}
  /\ UNCHANGED <<cacheVars, linkVars, work, lost>>

-----------------------------------------------------------------------------
LinkStep ==
  \/ release_disconnected_ap
  \/ \E a \in APs : u80211_associate(a)
  \/ \E success \in BOOLEAN : AttemptEnds(success)
  \/ association_process_teardown \/ u80211_deauthenticate
  \/ CleanupBegins \/ CleanupReleases \/ CleanupWakes \/ CleanupReturns

UnregisterStep ==
  \/ u80211_unregister_device \/ u80211_key_state_deinit
  \/ FreesWork("scan_cleanup_work", 2) \/ FreesWork("association_cleanup_work", 3)
  \/ ReleasesDisconnected \/ EmptiesCache \/ CacheEmptied \/ FreesDevice

Next ==
  \/ u80211_register_device \/ Allocates \/ AllocationFails
  \/ CacheCall \/ UserCall \/ SweepTurn \/ PurgeEnds
  \/ u80211_set_key \/ ScanCleanupRuns \/ ScanCleanupEnds
  \/ LinkStep \/ UnregisterStep

Spec == Init /\ [][Next]_vars

-----------------------------------------------------------------------------
(***************************************************************************)
(* Properties.                                                             *)
(***************************************************************************)

\* Every variable stays in its set.
TypeOK ==
  /\ CacheTypeOK
  /\ stage \in Stages
  /\ objects \subseteq {Allocations[i] : i \in DOMAIN Allocations} \cup {"key"}
  /\ {ap, association_context, association_cleanup_context, disconnected_ap} \subseteq Pointers
  /\ work \in [Works -> [queued : BOOLEAN, running : BOOLEAN]]
  /\ taken \in Seq(APs) /\ waking \in BOOLEAN
  /\ lost \in [APs -> 0 .. MaxLost]

\* Who holds references to an access point, besides the cache.
Uses(a) ==
  held[a] + lost[a]
    + Cardinality({i \in DOMAIN taken : taken[i] = a})
    + (IF LinkUp /\ ap = a THEN 1 ELSE 0)
    + (IF association_context = a THEN 1 ELSE 0)
    + (IF association_cleanup_context = a /\ ~waking THEN 1 ELSE 0)
    + (IF disconnected_ap = a THEN 1 ELSE 0)

BssDirectory ==
  INSTANCE Directory WITH
    AccessPoints <- APs, Address <- Key,
    entries <- Members(tree), count <- u80211_bss_cache_get_count,
    uses <- [a \in APs |-> Uses(a)], alive <- {a \in APs : refcount[a] > 0},
    sweeping <- sweep.by, unseen <- sweep.left

\* The cache and the reference counts do what the directory promises: one entry
\* for an address; nothing freed that is in the cache or in use, and nothing kept
\* that is neither; a purge that drops what it finds unused, though lookups,
\* links and users take and return references, and passes over no entry though
\* it cuts the tree under its iterator; and the same for the end of the device.
ImplementsDirectory == BssDirectory!Spec

\* Whoever runs finds what it uses: the works their device, their lock and
\* themselves while it is unregistered, the sweeps their lock, the calls of a
\* device all of it; and a registration that fails frees what it allocated.
ObjectsLive ==
  /\ \A w \in Works :
       work[w].running \/ work[w].queued =>
         {"device", w, IF w = "scan_cleanup_work" THEN "scan_spinlock" ELSE "association_spinlock"}
           \subseteq objects
  /\ ~Unlocked => {"device", "rwlock"} \subseteq objects
  /\ Up => {Allocations[i] : i \in DOMAIN Allocations} \subseteq objects
  /\ \A i \in DOMAIN Allocations : At("register", i) => Undone(Allocations[i]) \subseteq objects

\* A device that failed to register or was unregistered leaves no object, no
\* entry, and no reference but those of users and, with a link that was up, its.
NothingLeft ==
  At("none", 1) =>
    /\ objects = {} /\ Members(tree) = {} /\ entry_count = 0
    /\ \A a \in APs : refcount[a] = held[a] + lost[a]

=============================================================================
