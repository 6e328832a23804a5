-------------------------------- MODULE Scan --------------------------------
(***************************************************************************)
(* The active scan of src/scan.c: the callers that start and await it, the *)
(* timed work that goes from channel to channel, the receivers that fill   *)
(* its ring buffer, and the work that cleans up after it.                  *)
(*                                                                         *)
(* One action is one critical section of scan_spinlock, one call to the    *)
(* driver or the kernel outside of it, or one turn of the loop that empties*)
(* the buffer.  The buffer is a queue of whole records here.               *)
(*                                                                         *)
(* A definition named X_Y, with a capital Y, is X with a defect; no action *)
(* uses it.                                                                *)
(***************************************************************************)
EXTENDS Integers, Sequences, FiniteSets

CONSTANTS
  Callers,          \* threads that call the public API
  Scans,            \* heap blocks a u80211_scan_state_t can occupy
  AccessPoints,     \* what probe responses come from, by BSSID
  ValidAddresses,   \* those of them that have a valid BSSID
  AllowedChannels,  \* channels the regulatory table neither disables nor makes passive
  LastChannel,      \* 14: the end of the 2.4 GHz band
  BufferSize,       \* the capacity of the ring buffer
  RecordSize,       \* the size of each access point's record, RSN element included
  None              \* the NULL pointer; also "no channel"

ASSUME ScanAssumption ==
  /\ LastChannel \in Nat /\ AllowedChannels \subseteq 1 .. LastChannel
  /\ ValidAddresses \subseteq AccessPoints
  /\ BufferSize \in Nat
  /\ RecordSize \in [AccessPoints -> Nat \ {0}]
  /\ None \notin Scans \cup (0 .. LastChannel)

VARIABLES
  state,              \* u80211_device_t.state; "ATTEMPT" is any state of the association
  scan_context,       \* what receivers find
  scan_waiters,
  scan,               \* u80211_scan_state_t by block
  work,               \* where the timed work of each block is
  scan_cleanup_work,  \* its argument while it is pending, and while its callback runs
  caller,
  cache, held,        \* access points in the BSS cache, and held by the user as well
  radio,              \* the channel the device listens on
  stray,              \* an association that was over has set the channel since the scan did
  visited             \* channels on which responses were let in since the scan began

vars == <<state, scan_context, scan_waiters, scan, work, scan_cleanup_work, caller,
          cache, held, radio, stray, visited>>
cacheVars == <<cache, held>>
radioVars == <<radio, stray, visited>>

Channels == 1 .. LastChannel
Records == [from : AccessPoints, channel : Channels]
ScanOrNone == Scans \cup {None}

FreeScan == [live |-> FALSE, receiving |-> FALSE, current_channel |-> None, buffer |-> <<>>]
IdleCaller == [at |-> "idle", scan |-> None]

StartPlaces == {"publish", "purge", "tune", "open", "probe"}
WorkPlaces == {"drain", "next", "tune", "open", "probe", "complete"}

\* U80211_RINGBUFFER_DATA_COUNT.
DataCount(buffer) ==
  LET size[n \in 0 .. Len(buffer)] ==
        IF n = 0 THEN 0 ELSE size[n - 1] + RecordSize[buffer[n].from]
  IN  size[Len(buffer)]

TypeOK ==
  /\ state \in {"DOWN", "SCANNING", "ATTEMPT"}
  /\ scan_context \in ScanOrNone
  /\ scan_waiters \subseteq Callers
  /\ DOMAIN scan = Scans
  /\ \A s \in Scans :
       /\ scan[s].live \in BOOLEAN /\ scan[s].receiving \in BOOLEAN
       /\ scan[s].current_channel \in AllowedChannels \cup {None}
       /\ scan[s].buffer \in Seq(Records) /\ DataCount(scan[s].buffer) <= BufferSize
  /\ work \in [Scans -> WorkPlaces \cup {"idle", "armed", "queued"}]
  /\ scan_cleanup_work \in [pending : ScanOrNone, running : ScanOrNone]
  /\ caller \in [Callers -> [at : StartPlaces \cup {"idle", "waiting", "woken", "associate"},
                             scan : ScanOrNone]]
  /\ cache \subseteq AccessPoints /\ held \subseteq AccessPoints
  /\ radio \in Channels \cup {None}
  /\ stray \in BOOLEAN
  /\ visited \subseteq AllowedChannels

Init ==
  /\ state = "DOWN"
  /\ scan_context = None
  /\ scan_waiters = {}
  /\ scan = [s \in Scans |-> FreeScan]
  /\ work = [s \in Scans |-> "idle"]
  /\ scan_cleanup_work = [pending |-> None, running |-> None]
  /\ caller = [t \in Callers |-> IdleCaller]
  /\ cache = {} /\ held = {}
  /\ radio = None /\ stray = FALSE
  /\ visited = {}

-----------------------------------------------------------------------------
(***************************************************************************)
(* Shared steps.                                                           *)
(***************************************************************************)

next_channel_StopsShort(current) ==
  LET later == {channel \in AllowedChannels : current < channel /\ channel < LastChannel}
  IN  IF later = {} THEN None ELSE CHOOSE channel \in later : \A k \in later : channel <= k

next_channel_OffByOne(current) ==
  LET later == {channel \in AllowedChannels : current <= channel}
  IN  IF later = {} THEN None ELSE CHOOSE channel \in later : \A k \in later : channel <= k

\* The next channel that may be scanned actively, if there is one.
next_channel(current) ==
  LET later == {channel \in AllowedChannels : current < channel}
  IN  IF later = {} THEN None ELSE CHOOSE channel \in later : \A k \in later : channel <= k

\* The driver tunes to a channel before the call returns.
set_channel_Forgotten(channel) == UNCHANGED radio /\ stray' = FALSE
set_channel(channel) == radio' = channel /\ stray' = FALSE

\* Responses are let in, on the channel that has just been set.
OpenReceiving(s) ==
  /\ scan' = [scan EXCEPT ![s].receiving = TRUE]
  /\ visited' = visited \cup {scan[s].current_channel}

ReceivingWhileDraining_StillOpen == TRUE
ReceivingWhileDraining == FALSE

-----------------------------------------------------------------------------
(***************************************************************************)
(* u80211_scan and u80211_wait_for_scan_completion.  A call that fails, or *)
(* that finds no scan to wait for, changes nothing and is no action.       *)
(***************************************************************************)

MayScan_Always == TRUE
MayScan == state = "DOWN"

\* The allocations, and the compare-and-exchange that claims the device.
ScanBegin(t) ==
  /\ caller[t].at = "idle"
  /\ next_channel(0) # None
  /\ MayScan
  /\ state' = "SCANNING"
  /\ \E s \in Scans :
       /\ ~scan[s].live
       /\ scan' = [scan EXCEPT ![s] = [FreeScan EXCEPT !.live = TRUE,
                                                       !.current_channel = next_channel(0)]]
       /\ caller' = [caller EXCEPT ![t] = [at |-> "publish", scan |-> s]]
  /\ visited' = {}
  /\ UNCHANGED <<scan_context, scan_waiters, work, scan_cleanup_work, cacheVars, radio, stray>>

ScanPublishes(t) ==
  /\ caller[t].at = "publish"
  /\ scan_context' = caller[t].scan
  /\ caller' = [caller EXCEPT ![t].at = "purge"]
  /\ UNCHANGED <<state, scan_waiters, scan, work, scan_cleanup_work, cacheVars, radioVars>>

\* u80211_bss_cache_purge: only the cache has a reference to what it drops.
ScanPurges(t) ==
  /\ caller[t].at = "purge"
  /\ cache' = cache \cap held
  /\ caller' = [caller EXCEPT ![t].at = "tune"]
  /\ UNCHANGED <<state, scan_context, scan_waiters, scan, work, scan_cleanup_work, held,
                 radioVars>>

ScanTunes(t) ==
  /\ caller[t].at = "tune"
  /\ set_channel(scan[caller[t].scan].current_channel)
  /\ caller' = [caller EXCEPT ![t].at = "open"]
  /\ UNCHANGED <<state, scan_context, scan_waiters, scan, work, scan_cleanup_work, cacheVars,
                 visited>>

ScanOpens(t) ==
  /\ caller[t].at = "open"
  /\ OpenReceiving(caller[t].scan)
  /\ caller' = [caller EXCEPT ![t].at = "probe"]
  /\ UNCHANGED <<state, scan_context, scan_waiters, work, scan_cleanup_work, cacheVars, radio,
                 stray>>

\* The probe request, then the timer, with which the work takes over.
ScanReturns(t) ==
  /\ caller[t].at = "probe"
  /\ work' = [work EXCEPT ![caller[t].scan] = "armed"]
  /\ caller' = [caller EXCEPT ![t] = IdleCaller]
  /\ UNCHANGED <<state, scan_context, scan_waiters, scan, scan_cleanup_work, cacheVars,
                 radioVars>>

WaitBegin(t) ==
  /\ caller[t].at = "idle"
  /\ state = "SCANNING"
  /\ scan_waiters' = scan_waiters \cup {t}
  /\ caller' = [caller EXCEPT ![t].at = "waiting"]
  /\ UNCHANGED <<state, scan_context, scan, work, scan_cleanup_work, cacheVars, radioVars>>

WaitEnd(t) ==
  /\ caller[t].at = "woken"
  /\ caller' = [caller EXCEPT ![t] = IdleCaller]
  /\ UNCHANGED <<state, scan_context, scan_waiters, scan, work, scan_cleanup_work, cacheVars,
                 radioVars>>

-----------------------------------------------------------------------------
(***************************************************************************)
(* u80211_scan_process_response.                                           *)
(***************************************************************************)

HasRoom_Ignored(buffer, from) == TRUE
HasRoom(buffer, from) == DataCount(buffer) + RecordSize[from] <= BufferSize

\* A response that does not name its channel (0) is put down to the channel
\* being scanned.  One that comes at another time, or is too large, is dropped.
u80211_scan_process_response(from, channel) ==
  /\ scan_context # None
  /\ LET s == scan_context
     IN  /\ scan[s].receiving
         /\ HasRoom(scan[s].buffer, from)
         /\ scan' = [scan EXCEPT ![s].buffer = Append(@,
              [from |-> from,
               channel |-> IF channel = 0 THEN scan[s].current_channel ELSE channel])]
  /\ UNCHANGED <<state, scan_context, scan_waiters, work, scan_cleanup_work, caller, cacheVars,
                 radioVars>>

-----------------------------------------------------------------------------
(***************************************************************************)
(* scan_work.                                                              *)
(***************************************************************************)

\* The work of a scan goes from one place to the next.
WorkGoes(s, from, to) == work[s] = from /\ work' = [work EXCEPT ![s] = to]

TimerFires(s) ==
  /\ WorkGoes(s, "armed", "queued")
  /\ UNCHANGED <<state, scan_context, scan_waiters, scan, scan_cleanup_work, caller, cacheVars,
                 radioVars>>

WorkCloses(s) ==
  /\ WorkGoes(s, "queued", "drain")
  /\ scan' = [scan EXCEPT ![s].receiving = ReceivingWhileDraining]
  /\ UNCHANGED <<state, scan_context, scan_waiters, scan_cleanup_work, caller, cacheVars,
                 radioVars>>

\* One record is read, and inserted if it is of this channel, has a valid
\* address, is not in the cache, and memory is found for it.
WorkReads(s) ==
  /\ work[s] = "drain"
  /\ scan[s].buffer # <<>>
  /\ scan' = [scan EXCEPT ![s].buffer = Tail(@)]
  /\ LET record == Head(scan[s].buffer)
     IN  \/ UNCHANGED cache
         \/ /\ record.channel = scan[s].current_channel
            /\ record.from \in ValidAddresses
            /\ cache' = cache \cup {record.from}
  /\ UNCHANGED <<state, scan_context, scan_waiters, work, scan_cleanup_work, caller, held,
                 radioVars>>

WorkHasRead(s) ==
  /\ scan[s].buffer = <<>>
  /\ WorkGoes(s, "drain", "next")
  /\ UNCHANGED <<state, scan_context, scan_waiters, scan, scan_cleanup_work, caller, cacheVars,
                 radioVars>>

WorkSwitches(s) ==
  /\ WorkGoes(s, "next", "tune")
  /\ next_channel(scan[s].current_channel) # None
  /\ scan' = [scan EXCEPT ![s].current_channel = next_channel(@)]
  /\ UNCHANGED <<state, scan_context, scan_waiters, scan_cleanup_work, caller, cacheVars,
                 radioVars>>

WorkTunes(s) ==
  /\ WorkGoes(s, "tune", "open")
  /\ set_channel(scan[s].current_channel)
  /\ UNCHANGED <<state, scan_context, scan_waiters, scan, scan_cleanup_work, caller, cacheVars,
                 visited>>

WorkOpens(s) ==
  /\ WorkGoes(s, "open", "probe")
  /\ OpenReceiving(s)
  /\ UNCHANGED <<state, scan_context, scan_waiters, scan_cleanup_work, caller, cacheVars, radio,
                 stray>>

WorkReturns(s) ==
  /\ WorkGoes(s, "probe", "armed")
  /\ UNCHANGED <<state, scan_context, scan_waiters, scan, scan_cleanup_work, caller, cacheVars,
                 radioVars>>

ContextLeft_NotCleared == scan_context
ContextLeft == None

\* complete_scan: receivers no longer find the scan state ...
WorkCompletes(s) ==
  /\ WorkGoes(s, "next", "complete")
  /\ next_channel(scan[s].current_channel) = None
  /\ scan_context' = ContextLeft
  /\ UNCHANGED <<state, scan_waiters, scan, scan_cleanup_work, caller, cacheVars, radioVars>>

\* ... and it is left to the cleanup.  A request while one is pending would be
\* ignored.
WorkEnqueuesCleanup(s) ==
  /\ WorkGoes(s, "complete", "idle")
  /\ scan_cleanup_work' = [scan_cleanup_work EXCEPT !.pending = IF @ = None THEN s ELSE @]
  /\ UNCHANGED <<state, scan_context, scan_waiters, scan, caller, cacheVars, radioVars>>

-----------------------------------------------------------------------------
(***************************************************************************)
(* cleanup_scan.                                                           *)
(***************************************************************************)

\* destroy_scan_state cancels the timer and what is queued, and waits for a
\* callback that runs.
CleanupDestroys ==
  /\ scan_cleanup_work.running = None
  /\ LET s == scan_cleanup_work.pending
     IN  /\ s # None
         /\ work[s] \notin WorkPlaces
         /\ scan_cleanup_work' = [pending |-> None, running |-> s]
         /\ scan' = [scan EXCEPT ![s] = FreeScan]
         /\ work' = [work EXCEPT ![s] = "idle"]
  /\ UNCHANGED <<state, scan_context, scan_waiters, caller, cacheVars, radioVars>>

WokenWaiters_OnlyFirst ==
  IF scan_waiters = {} THEN {} ELSE {CHOOSE t \in scan_waiters : TRUE}
WokenWaiters == scan_waiters

CleanupFinishes ==
  /\ scan_cleanup_work.running # None
  /\ scan_cleanup_work' = [scan_cleanup_work EXCEPT !.running = None]
  /\ state' = IF state = "SCANNING" THEN "DOWN" ELSE state
  /\ scan_waiters' = scan_waiters \ WokenWaiters
  /\ caller' = [t \in Callers |->
       IF t \in WokenWaiters THEN [IdleCaller EXCEPT !.at = "woken"] ELSE caller[t]]
  /\ UNCHANGED <<scan_context, scan, work, cacheVars, radioVars>>

-----------------------------------------------------------------------------
(***************************************************************************)
(* The rest of the program.  The user takes references out of the cache and*)
(* gives them back.  An attempt to associate claims the device; it may end *)
(* before u80211_associate, which set it going, sets the channel.          *)
(***************************************************************************)

UserFinds(a) ==
  /\ a \in cache
  /\ held' = held \cup {a}
  /\ UNCHANGED <<state, scan_context, scan_waiters, scan, work, scan_cleanup_work, caller, cache,
                 radioVars>>

UserReleases(a) ==
  /\ a \in held
  /\ held' = held \ {a}
  /\ UNCHANGED <<state, scan_context, scan_waiters, scan, work, scan_cleanup_work, caller, cache,
                 radioVars>>

AttemptBegin(t) ==
  /\ caller[t].at = "idle"
  /\ state = "DOWN"
  /\ state' = "ATTEMPT"
  /\ caller' = [caller EXCEPT ![t].at = "associate"]
  /\ UNCHANGED <<scan_context, scan_waiters, scan, work, scan_cleanup_work, cacheVars, radioVars>>

AttemptEnd ==
  /\ state = "ATTEMPT"
  /\ state' = "DOWN"
  /\ UNCHANGED <<scan_context, scan_waiters, scan, work, scan_cleanup_work, caller, cacheVars,
                 radioVars>>

AssociationTunes(t, channel) ==
  /\ caller[t].at = "associate"
  /\ radio' = channel
  /\ stray' = TRUE
  /\ caller' = [caller EXCEPT ![t] = IdleCaller]
  /\ UNCHANGED <<state, scan_context, scan_waiters, scan, work, scan_cleanup_work, cacheVars,
                 visited>>

-----------------------------------------------------------------------------
CallerProceeds(t) ==
  \/ ScanPublishes(t) \/ ScanPurges(t) \/ ScanTunes(t) \/ ScanOpens(t) \/ ScanReturns(t)
  \/ WaitEnd(t)

CallerStep(t) == ScanBegin(t) \/ WaitBegin(t) \/ CallerProceeds(t)

WorkStep(s) ==
  \/ TimerFires(s) \/ WorkCloses(s) \/ WorkReads(s) \/ WorkHasRead(s)
  \/ WorkSwitches(s) \/ WorkTunes(s) \/ WorkOpens(s) \/ WorkReturns(s)
  \/ WorkCompletes(s) \/ WorkEnqueuesCleanup(s)

CleanupStep == CleanupDestroys \/ CleanupFinishes

EnvironmentStep ==
  \/ \E a \in AccessPoints : UserFinds(a) \/ UserReleases(a)
  \/ \E t \in Callers : AttemptBegin(t) \/ \E c \in Channels : AssociationTunes(t, c)
  \/ AttemptEnd

Next ==
  \/ \E t \in Callers : CallerStep(t)
  \/ \E a \in AccessPoints, channel \in 0 .. LastChannel :
       u80211_scan_process_response(a, channel)
  \/ \E s \in Scans : WorkStep(s)
  \/ CleanupStep
  \/ EnvironmentStep

Spec == Init /\ [][Next]_vars

\* A call that runs goes on, the timer fires, works that are queued are run.
\* No frame need arrive, nobody need call, and a set_channel may be late for ever.
FairSpec ==
  /\ Spec
  /\ \A t \in Callers : WF_vars(CallerProceeds(t))
  /\ \A s \in Scans : WF_vars(WorkStep(s))
  /\ WF_vars(CleanupStep)

-----------------------------------------------------------------------------
(***************************************************************************)
(* Safety.                                                                 *)
(***************************************************************************)

\* The threads and works that have a scan in hand, each with its scan state
\* (None once the cleanup has freed it).
Drivers ==
  {<<"caller", caller[t].scan>> : t \in {u \in Callers : caller[u].at \in StartPlaces}}
    \cup {<<"work", s>> : s \in {v \in Scans : work[v] # "idle"}}
    \cup {<<"cleanup", s>> : s \in {scan_cleanup_work.pending} \ {None}}
    \cup {<<"finish", s>> : s \in {scan_cleanup_work.running} \ {None}}

\* While the device scans, the scan is in the hands of the caller, then of the
\* work, then of the cleanup: never of two at a time, and never of nobody, for
\* the device would scan for ever.  When it does not scan, nobody has one.
SingleDriver ==
  /\ state = "SCANNING" => \E d \in Drivers : Drivers = {d}
  /\ state # "SCANNING" => Drivers = {}

\* Nobody follows a pointer to a scan state that was freed, receivers included,
\* and every state that is not freed has somebody to free it.
PointersLive ==
  /\ scan_context # None => scan[scan_context].live
  /\ \A s \in Scans :
       scan[s].live <=> \E hand \in {"caller", "work", "cleanup"} : <<hand, s>> \in Drivers

\* A thread that waits sees the end of a scan that is under way.
WaitersServed ==
  /\ scan_waiters = {t \in Callers : caller[t].at = "waiting"}
  /\ scan_waiters # {} => state = "SCANNING"

\* While responses are let in, the device listens on the channel to which those
\* that name none are put down, unless an association that came late has set
\* another.
RadioOnChannel ==
  \A s \in Scans : scan[s].receiving => radio = scan[s].current_channel \/ stray

\* A scan ends only after it has let in responses on every allowed channel.
EveryChannelScanned ==
  \A s \in Scans : work[s] = "complete" => visited = AllowedChannels

\* A step by which a scan s that leaves its channel leaves nothing unread, and
\* by which nothing is added while its work reads.
ReadsFirst(s) ==
  /\ scan[s].live /\ scan'[s].current_channel # scan[s].current_channel
       => scan[s].buffer = <<>>
  /\ work[s] \in WorkPlaces \ {"probe"}
       => Len(scan'[s].buffer) <= Len(scan[s].buffer)

\* What was received on a channel has been read when the scan leaves it, and
\* meanwhile nothing is added: the loop that reads ends, and what it copies out
\* is not being written.
ReadBeforeLeaving == [][\A s \in Scans : ReadsFirst(s)]_vars

-----------------------------------------------------------------------------
(***************************************************************************)
(* Liveness.                                                               *)
(***************************************************************************)

\* Every scan ends, however many responses come.
ScanEnds == state = "SCANNING" ~> state # "SCANNING"

\* u80211_wait_for_scan_completion returns.
ScanWaitReturns == \A t \in Callers : caller[t].at = "waiting" ~> caller[t].at = "idle"

=============================================================================
