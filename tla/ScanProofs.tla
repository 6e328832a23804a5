----------------------------- MODULE ScanProofs -----------------------------
(***************************************************************************)
(* Proofs about the scan, for any numbers of callers, scan states and      *)
(* access points, any channels and any size of the buffer.                 *)
(*                                                                         *)
(* Hands is inductive: ScanInit is its initial case, and each of the lemmas*)
(* called ...Steps takes one kind of thread or work through its actions.   *)
(* Turns is inductive given Hands, by the lemmas called ...Turns, and      *)
(* those called ...Reads show that no step leaves a response unread.       *)
(* Visits, by the lemmas called ...Visits, says which channels a scan has  *)
(* been on, and Fits, by those called ...Fits, that its buffer has room    *)
(* for what it has: how much that is, is a sum, whose properties are shown *)
(* by the least counterexample.                                            *)
(***************************************************************************)
EXTENDS Scan, TLAPS, WellFoundedInduction

-----------------------------------------------------------------------------
(***************************************************************************)
(* The inductive invariant.                                                *)
(***************************************************************************)

ScanState == [live : BOOLEAN, receiving : BOOLEAN, current_channel : Channels \cup {None},
              buffer : Seq([from : AccessPoints, channel : Channels \cup {None}])]

Types ==
  /\ state \in {"DOWN", "SCANNING", "ATTEMPT"}
  /\ scan_context \in ScanOrNone
  /\ scan \in [Scans -> ScanState]
  /\ work \in [Scans -> WorkPlaces \cup {"idle", "armed", "queued"}]
  /\ scan_cleanup_work \in [pending : ScanOrNone, running : ScanOrNone]
  /\ caller \in [Callers -> [at : StartPlaces \cup {"idle", "waiting", "woken", "associate"},
                             scan : ScanOrNone]]

Starts(t) == caller[t].at \in StartPlaces
Works(s) == work[s] # "idle"
Starting == \E t \in Callers : Starts(t)
Working == \E s \in Scans : Works(s)
Pending == scan_cleanup_work.pending # None
Finishing == scan_cleanup_work.running # None

\* A scan is in one hand, and in none just when the device does not scan.
OneHand ==
  /\ \A t, u \in Callers : Starts(t) /\ Starts(u) => t = u
  /\ \A s, v \in Scans : Works(s) /\ Works(v) => s = v
  /\ Starting => ~Working /\ ~Pending /\ ~Finishing
  /\ Working => ~Pending /\ ~Finishing
  /\ Pending => ~Finishing
  /\ state = "SCANNING" <=> Starting \/ Working \/ Pending \/ Finishing

\* What is in a hand is allocated, and nothing else is.
InHand ==
  /\ \A t \in Callers : Starts(t) => caller[t].scan \in Scans
  /\ \A s \in Scans : scan[s].live <=>
       \/ \E t \in Callers : Starts(t) /\ caller[t].scan = s
       \/ Works(s)
       \/ scan_cleanup_work.pending = s

\* Receivers find the state of a scan that was published and is not complete.
Published ==
  scan_context # None =>
    \/ \E t \in Callers :
         Starts(t) /\ caller[t].at # "publish" /\ caller[t].scan = scan_context
    \/ work[scan_context] \notin {"idle", "complete"}

Hands == Types /\ OneHand /\ InHand /\ Published /\ WaitersServed

\* Where a scan is when responses may be let in ...
Listens(s) ==
  \/ \E t \in Callers : caller[t].at = "probe" /\ caller[t].scan = s
  \/ work[s] \in {"probe", "armed", "queued"}
\* ... and where it has tuned and is about to let them in ...
Opens(s) ==
  \/ \E t \in Callers : caller[t].at = "open" /\ caller[t].scan = s
  \/ work[s] = "open"
\* ... and where all of a channel has been read.
HasRead(s) == work[s] \in {"next", "complete"} \/ scan_cleanup_work.pending = s

\* The turns of the scan: listen, read, tune.
Turns ==
  \A s \in Scans :
    /\ scan[s].receiving => Listens(s)
    /\ scan[s].receiving \/ Opens(s) => radio = scan[s].current_channel \/ stray
    /\ HasRead(s) => scan[s].buffer = <<>>

NoneIsNoScan == None \notin Scans

\* NULL points to no scan state.
LEMMA NoneFact == NoneIsNoScan
  BY ScanAssumption DEF NoneIsNoScan

-----------------------------------------------------------------------------
\* next_channel finds the least of the later channels, if there is one.
LEMMA NextChannelType ==
  ASSUME NEW current
  PROVE  next_channel(current) \in AllowedChannels \cup {None}
<1> DEFINE later == {channel \in AllowedChannels : current < channel}
<1>1. ASSUME later # {}
      PROVE  \E channel \in later : \A k \in later : channel <= k
  <2>1. later \subseteq Nat
    <3>1. AllowedChannels \subseteq 1 .. LastChannel /\ LastChannel \in Nat
      BY ScanAssumption
    <3>2. AllowedChannels \subseteq Nat
      BY <3>1
    <3>3. later \subseteq AllowedChannels
      OBVIOUS
    <3> QED
      BY <3>2, <3>3
  <2>2. PICK channel \in later : \A k \in later : <<k, channel>> \notin OpToRel(<, Nat)
    <3> HIDE DEF later
    <3> QED
      BY <1>1, <2>1, NatLessThanWellFounded, WFMin, Zenon
  <2>3. ASSUME NEW k \in later PROVE channel <= k
    <3>1. ~(k < channel)
      BY <2>1, <2>2 DEF OpToRel
    <3> QED
      BY <2>1, <3>1
  <2> QED
    BY <2>3
<1> QED
  BY <1>1 DEF next_channel

\* So the scan is always on a channel of the band.
LEMMA NextChannelIsChannel ==
  ASSUME NEW current
  PROVE  next_channel(current) \in Channels \cup {None}
  BY NextChannelType, ScanAssumption DEF Channels

\* To change one field of one scan state changes no other, and no type.
LEMMA ReceivingKeepsType ==
  ASSUME NEW f \in [Scans -> ScanState], NEW s \in Scans, NEW b \in BOOLEAN
  PROVE  /\ [f EXCEPT ![s].receiving = b] \in [Scans -> ScanState]
         /\ \A v \in Scans : [f EXCEPT ![s].receiving = b][v].live = f[v].live
  BY DEF ScanState

Buffers == Seq([from : AccessPoints, channel : Channels \cup {None}])

\* What is left of a queue when its first record is read.
LEMMA TailType ==
  ASSUME NEW S, NEW q \in Seq(S), q # <<>>
  PROVE  Tail(q) \in Seq(S)
  OBVIOUS

\* A device that was registered has no scan.
LEMMA ScanInit ==
  ASSUME Init
  PROVE  Hands
  BY NoneFact DEF Init, Hands, Types, ScanOrNone, ScanState, FreeScan, IdleCaller, OneHand, Starts,
     Works, Starting, Working, Pending, Finishing, InHand, Published, WaitersServed, StartPlaces,
     WorkPlaces, NoneIsNoScan

\* u80211_scan and u80211_wait_for_scan_completion.
LEMMA CallerSteps ==
  ASSUME Hands, NEW t \in Callers, CallerStep(t)
  PROVE  Hands'
<1> USE NoneFact DEF Hands, Types, ScanOrNone, StartPlaces, WorkPlaces, NoneIsNoScan
<1>1. CASE ScanBegin(t)
  <2> USE <1>1 DEF ScanBegin, MayScan
  <2>1. PICK s \in Scans :
          /\ ~scan[s].live
          /\ scan' = [scan EXCEPT ![s] = [FreeScan EXCEPT !.live = TRUE,
                                            !.current_channel = next_channel(0)]]
          /\ caller' = [caller EXCEPT ![t] = [at |-> "publish", scan |-> s]]
    OBVIOUS
  <2>2. scan' \in [Scans -> ScanState]
    <3>1. next_channel(0) \in Channels \cup {None}
      BY NextChannelIsChannel
    <3>2. FreeScan \in ScanState
      BY DEF ScanState, FreeScan
    <3>3. [FreeScan EXCEPT !.live = TRUE, !.current_channel = next_channel(0)] \in ScanState
      BY <3>1, <3>2 DEF ScanState
    <3> QED
      BY <2>1, <3>3
  <2>3. /\ \A v \in Scans : scan'[v].live <=> scan[v].live \/ v = s
        /\ \A u \in Callers : u # t => caller'[u] = caller[u]
        /\ caller'[t] = [at |-> "publish", scan |-> s]
    BY <2>1 DEF FreeScan
  <2>4. Types'
    BY <2>1, <2>2
  <2>5. OneHand'
    BY <2>1 DEF OneHand, Starts, Works, Starting, Working, Pending, Finishing
  <2>6. InHand'
    BY <2>3 DEF InHand, OneHand, Starts, Works, Starting
  <2>7. Published' /\ WaitersServed'
    BY <2>1 DEF Published, WaitersServed, OneHand, Starts, Works, Starting, Working
  <2> QED
    BY <2>4, <2>5, <2>6, <2>7
<1>2. CASE ScanPublishes(t)
  BY <1>2 DEF ScanPublishes, radioVars, cacheVars, OneHand, InHand, Published, WaitersServed,
     Starts, Works, Starting, Working, Pending, Finishing
<1>3. CASE ScanPurges(t)
  BY <1>3 DEF ScanPurges, radioVars, OneHand, InHand, Published, WaitersServed,
     Starts, Works, Starting, Working, Pending, Finishing
<1>4. CASE ScanTunes(t)
  BY <1>4 DEF ScanTunes, cacheVars, OneHand, InHand, Published, WaitersServed,
     Starts, Works, Starting, Working, Pending, Finishing
<1>5. CASE ScanOpens(t)
  <2> USE <1>5 DEF ScanOpens, OpenReceiving, cacheVars, InHand
  <2>1. Types' /\ \A s \in Scans : scan'[s].live = scan[s].live
    <3>1. caller[t].scan \in Scans
      BY DEF Starts
    <3>2. scan \in [Scans -> ScanState] /\ TRUE \in BOOLEAN
      OBVIOUS
    <3>3. scan' = [scan EXCEPT ![caller[t].scan].receiving = TRUE]
      OBVIOUS
    <3>4. /\ scan' \in [Scans -> ScanState]
          /\ \A s \in Scans : scan'[s].live = scan[s].live
      <4> HIDE <1>5 DEF ScanOpens, OpenReceiving, Hands, Types
      <4> QED
        BY <3>1, <3>2, <3>3, ReceivingKeepsType
    <3> QED
      BY <3>4
  <2>2. OneHand'
    BY DEF OneHand, Starts, Works, Starting, Working, Pending, Finishing
  <2>3. InHand'
    BY <2>1 DEF Starts, Works
  <2>4. Published' /\ WaitersServed'
    BY DEF Published, WaitersServed, Starts
  <2> QED
    BY <2>1, <2>2, <2>3, <2>4
<1>6. CASE ScanReturns(t)
  BY <1>6 DEF ScanReturns, IdleCaller, cacheVars, radioVars, OneHand, InHand, Published,
     WaitersServed, Starts, Works, Starting, Working, Pending, Finishing
<1>7. CASE WaitBegin(t)
  BY <1>7 DEF WaitBegin, cacheVars, radioVars, OneHand, InHand, Published, WaitersServed,
     Starts, Works, Starting, Working, Pending, Finishing
<1>8. CASE WaitEnd(t)
  BY <1>8 DEF WaitEnd, IdleCaller, cacheVars, radioVars, OneHand, InHand, Published, WaitersServed,
     Starts, Works, Starting, Working, Pending, Finishing
<1> QED
  BY <1>1, <1>2, <1>3, <1>4, <1>5, <1>6, <1>7, <1>8 DEF CallerStep, CallerProceeds

-----------------------------------------------------------------------------
\* u80211_scan_process_response only lengthens the buffer.
LEMMA ResponseSteps ==
  ASSUME Hands, NEW a \in AccessPoints, NEW channel \in 0 .. LastChannel,
         u80211_scan_process_response(a, channel)
  PROVE  Hands'
<1> DEFINE s == scan_context
           record == [from |-> a,
                      channel |-> IF channel = 0 THEN scan[s].current_channel ELSE channel]
<1> USE DEF Hands
<1>1. /\ s \in Scans
      /\ scan' = [scan EXCEPT ![s].buffer = Append(@, record)]
      /\ UNCHANGED <<state, scan_context, scan_waiters, work, scan_cleanup_work, caller>>
  BY DEF u80211_scan_process_response, Types, ScanOrNone
<1>2. record \in [from : AccessPoints, channel : Channels \cup {None}]
  BY <1>1, ScanAssumption DEF Types, ScanState, Channels
<1>3. /\ scan' \in [Scans -> ScanState]
      /\ \A v \in Scans : scan'[v].live = scan[v].live
  <2> HIDE DEF record
  <2>1. Append(scan[s].buffer, record) \in
          Buffers
    <3>1. scan[s].buffer \in Buffers
      BY <1>1 DEF Types, ScanState, Buffers
    <3> QED
      BY <1>2, <3>1 DEF Buffers
  <2>2. scan' = [scan EXCEPT ![s].buffer = Append(scan[s].buffer, record)]
    BY <1>1 DEF Types
  <2>3. scan \in [Scans -> ScanState] /\ s \in Scans
    BY <1>1 DEF Types
  <2> DEFINE longer == Append(scan[s].buffer, record)
  <2> HIDE DEF Hands, s, longer
  <2> QED
    BY <2>1, <2>2, <2>3 DEF ScanState, Buffers
<1>4. Types' /\ OneHand'
  BY <1>1, <1>3 DEF Types, OneHand, Starts, Works, Starting, Working, Pending, Finishing
<1>5. InHand'
  BY <1>1, <1>3 DEF InHand, Starts, Works
<1>6. Published' /\ WaitersServed'
  BY <1>1 DEF Published, WaitersServed, Starts
<1> QED
  BY <1>4, <1>5, <1>6

\* scan_work: until it completes, only the place of the work and the fields of its
\* scan state change; then the scan passes from the work to the cleanup.
LEMMA WorkSteps ==
  ASSUME Hands, NEW s \in Scans, WorkStep(s)
  PROVE  Hands'
<1> USE NoneFact DEF Hands, ScanOrNone, StartPlaces, WorkPlaces, NoneIsNoScan, WorkGoes
\* Either the work goes on, and stays what it is to the others ...
<1>1. ASSUME /\ work[s] \notin {"idle", "complete"} /\ work'[s] \notin {"idle", "complete"}
             /\ \A v \in Scans : v # s => work'[v] = work[v]
             /\ work' \in [Scans -> WorkPlaces \cup {"idle", "armed", "queued"}]
             /\ scan' \in [Scans -> ScanState]
             /\ \A v \in Scans : scan'[v].live = scan[v].live
             /\ UNCHANGED <<state, scan_context, scan_waiters, scan_cleanup_work, caller>>
      PROVE  Hands'
  <2> USE <1>1
  <2>1. \A v \in Scans : Works(v)' <=> Works(v)
    BY DEF Works
  <2>2. Types'
    BY DEF Types
  <2>3. OneHand'
    BY <2>1 DEF OneHand, Starts, Starting, Working, Pending, Finishing
  <2>4. InHand'
    BY <2>1 DEF InHand, Starts
  <2>5. Published' /\ WaitersServed'
    BY DEF Published, WaitersServed, Starts, Types
  <2> QED
    BY <2>2, <2>3, <2>4, <2>5
<1>2. CASE TimerFires(s)
  BY <1>1, <1>2 DEF TimerFires, Types
<1>3. CASE WorkCloses(s)
  BY <1>1, <1>3, ReceivingKeepsType, ZenonT(60) DEF WorkCloses, ReceivingWhileDraining, Types
<1>4. CASE WorkReads(s)
  <2>1. /\ scan' \in [Scans -> ScanState]
        /\ \A v \in Scans : scan'[v].live = scan[v].live
    <3>1. scan[s].buffer \in Buffers /\ scan[s].buffer # <<>>
      BY <1>4 DEF WorkReads, Types, ScanState, Buffers
    <3>2. Tail(scan[s].buffer) \in Buffers
      BY <3>1, TailType DEF Buffers
    <3>3. scan' = [scan EXCEPT ![s].buffer = Tail(scan[s].buffer)]
      BY <1>4 DEF WorkReads, Types
    <3>4. scan \in [Scans -> ScanState]
      BY DEF Types
    <3> DEFINE rest == Tail(scan[s].buffer)
    <3> HIDE DEF Hands, rest
    <3> QED
      BY <3>2, <3>3, <3>4 DEF ScanState, Buffers
  <2> QED
    BY <1>1, <1>4, <2>1 DEF WorkReads, Types
<1>5. CASE WorkHasRead(s)
  BY <1>1, <1>5 DEF WorkHasRead, Types
<1>6. CASE WorkSwitches(s)
  <2> DEFINE current == scan[s].current_channel
  <2>1. next_channel(current) \in Channels \cup {None}
    BY NextChannelIsChannel
  <2> QED
    BY <1>1, <1>6, <2>1, ZenonT(60) DEF WorkSwitches, Types, ScanState
<1>7. CASE WorkTunes(s)
  BY <1>1, <1>7 DEF WorkTunes, Types
<1>8. CASE WorkOpens(s)
  BY <1>1, <1>8, ReceivingKeepsType, ZenonT(60) DEF WorkOpens, OpenReceiving, Types
<1>9. CASE WorkReturns(s)
  BY <1>1, <1>9 DEF WorkReturns, Types
<1>10. CASE WorkCompletes(s)
  <2> USE <1>10 DEF WorkCompletes, ContextLeft
  <2>1. Types'
    BY DEF Types
  <2>2. OneHand' /\ InHand'
    BY DEF OneHand, InHand, Starts, Works, Starting, Working, Pending, Finishing, Types
  <2>3. Published' /\ WaitersServed'
    BY DEF Published, WaitersServed
  <2> QED
    BY <2>1, <2>2, <2>3
<1>11. CASE WorkEnqueuesCleanup(s)
  <2> USE <1>11 DEF WorkEnqueuesCleanup
  <2>1. ~Starting /\ ~Pending /\ ~Finishing /\ \A v \in Scans : Works(v) <=> v = s
    BY DEF OneHand, Works, Working
  <2>2. /\ scan_cleanup_work'.pending = s
        /\ scan_cleanup_work'.running = None
        /\ \A v \in Scans : ~Works(v)'
    BY <2>1 DEF Types, Pending, Finishing, Works
  <2>3. Types'
    BY DEF Types
  <2>4. OneHand'
    BY <2>1, <2>2 DEF OneHand, Starts, Starting, Working, Pending, Finishing
  <2>5. InHand'
    BY <2>1, <2>2 DEF InHand, Starts, Starting, Pending
  <2>6. Published' /\ WaitersServed'
    BY <2>1 DEF Published, WaitersServed, Starts, Starting, Works, Types
  <2> QED
    BY <2>3, <2>4, <2>5, <2>6
<1> QED
  BY <1>2, <1>3, <1>4, <1>5, <1>6, <1>7, <1>8, <1>9, <1>10, <1>11 DEF WorkStep

\* cleanup_scan: the scan state is freed in the hands of the cleanup.
LEMMA CleanupSteps ==
  ASSUME Hands, CleanupStep
  PROVE  Hands'
<1> USE NoneFact DEF Hands, ScanOrNone, StartPlaces, WorkPlaces, NoneIsNoScan
<1>1. CASE CleanupDestroys
  <2> DEFINE s == scan_cleanup_work.pending
  <2>1. /\ s \in Scans
        /\ scan_cleanup_work' = [pending |-> None, running |-> s]
        /\ scan' = [scan EXCEPT ![s] = FreeScan]
        /\ work' = [work EXCEPT ![s] = "idle"]
        /\ UNCHANGED <<state, scan_context, scan_waiters, caller>>
    BY <1>1 DEF CleanupDestroys, Types
  <2>2. ~Starting /\ ~Working /\ ~Finishing
    BY <2>1 DEF OneHand, Pending
  <2>3. FreeScan \in ScanState /\ FreeScan.live = FALSE
    BY DEF FreeScan, ScanState
  <2>4. Types'
    BY <2>1, <2>3 DEF Types
  <2>5. \A v \in Scans : ~Works(v)'
    BY <2>1, <2>2 DEF Works, Working, Types
  <2>6. OneHand'
    BY <2>1, <2>2, <2>5 DEF OneHand, Starts, Starting, Working, Pending, Finishing
  <2>7. InHand'
    BY <2>1, <2>2, <2>3, <2>5 DEF InHand, Starts, Starting, Working, Types
  <2>8. Published' /\ WaitersServed'
    BY <2>1, <2>2 DEF Published, WaitersServed, Starts, Starting, Works, Working, Types
  <2> QED
    BY <2>4, <2>6, <2>7, <2>8
<1>2. CASE CleanupFinishes
  <2> USE <1>2 DEF CleanupFinishes, WokenWaiters, IdleCaller
  <2>1. ~Starting /\ ~Working /\ ~Pending
    BY DEF OneHand, Finishing
  <2>2. Types'
    BY DEF Types
  <2>3. \A t \in Callers : ~Starts(t)'
    BY <2>1 DEF Starts, Starting, Types
  <2>4. OneHand'
    BY <2>1, <2>3 DEF OneHand, Works, Starting, Working, Pending, Finishing, Types
  <2>5. InHand'
    BY <2>1, <2>3 DEF InHand, Starts, Starting, Works, Types
  <2>6. Published'
    BY <2>1 DEF Published, Starts, Starting, Works, Working, Types
  <2>7. WaitersServed'
    BY DEF WaitersServed, Types
  <2> QED
    BY <2>2, <2>4, <2>5, <2>6, <2>7
<1> QED
  BY <1>1, <1>2 DEF CleanupStep

\* The user and the association take no scan in hand.
LEMMA EnvironmentSteps ==
  ASSUME Hands, EnvironmentStep
  PROVE  Hands'
<1> USE NoneFact DEF Hands, ScanOrNone, StartPlaces, WorkPlaces, NoneIsNoScan
<1>1. ASSUME NEW a \in AccessPoints, UserFinds(a) \/ UserReleases(a)
      PROVE  Hands'
  BY <1>1 DEF UserFinds, UserReleases, radioVars, Types, OneHand, InHand, Published, WaitersServed,
     Starts, Works, Starting, Working, Pending, Finishing
<1>2. ASSUME NEW t \in Callers, AttemptBegin(t)
      PROVE  Hands'
  BY <1>2 DEF AttemptBegin, Types, OneHand, InHand, Published, WaitersServed,
     Starts, Works, Starting, Working, Pending, Finishing
<1>3. CASE AttemptEnd
  BY <1>3 DEF AttemptEnd, Types, OneHand, InHand, Published, WaitersServed,
     Starts, Works, Starting, Working, Pending, Finishing
<1>4. ASSUME NEW t \in Callers, NEW c \in Channels, AssociationTunes(t, c)
      PROVE  Hands'
  BY <1>4 DEF AssociationTunes, IdleCaller, Types, OneHand, InHand, Published, WaitersServed,
     Starts, Works, Starting, Working, Pending, Finishing
<1> QED
  BY <1>1, <1>2, <1>3, <1>4 DEF EnvironmentStep

-----------------------------------------------------------------------------
\* Every state of every execution satisfies the inductive invariant.
THEOREM HandsInvariant == Spec => []Hands
<1>1. Init => Hands
  BY ScanInit
<1>2. Hands /\ [Next]_vars => Hands'
  <2> SUFFICES ASSUME Hands, [Next]_vars PROVE Hands'
    OBVIOUS
  <2>1. CASE Next
    BY <2>1, CallerSteps, ResponseSteps, WorkSteps, CleanupSteps, EnvironmentSteps DEF Next
  <2>2. CASE UNCHANGED vars
    BY <2>2 DEF vars, cacheVars, radioVars, Hands, Types, OneHand, InHand, Published, WaitersServed,
       Starts, Works, Starting, Working, Pending, Finishing
  <2> QED
    BY <2>1, <2>2
<1> QED
  BY <1>1, <1>2, PTL DEF Spec

\* While the device scans, the scan is in the hands of one thread or work, and
\* when it does not, nobody has one.
THEOREM ScanInOneHand == Spec => []SingleDriver
<1>1. Hands => SingleDriver
  <2> SUFFICES ASSUME Hands PROVE SingleDriver
    OBVIOUS
  <2> USE NoneFact DEF Hands, NoneIsNoScan, Types, ScanOrNone
  <2>1. \A d, e \in Drivers : d = e
    BY DEF Drivers, OneHand, Starts, Works, Starting, Working, Pending, Finishing
  <2>2. Drivers # {} <=> Starting \/ Working \/ Pending \/ Finishing
    <3>1. \A d \in Drivers : Starting \/ Working \/ Pending \/ Finishing
      BY DEF Drivers, Starts, Works, Starting, Working, Pending, Finishing
    <3>2. \A t \in Callers : Starts(t) => <<"caller", caller[t].scan>> \in Drivers
      BY DEF Drivers, Starts
    <3>3. \A s \in Scans : Works(s) => <<"work", s>> \in Drivers
      BY DEF Drivers, Works
    <3>4. Pending => <<"cleanup", scan_cleanup_work.pending>> \in Drivers
      BY DEF Drivers, Pending
    <3>5. Finishing => <<"finish", scan_cleanup_work.running>> \in Drivers
      BY DEF Drivers, Finishing
    <3> QED
      BY <3>1, <3>2, <3>3, <3>4, <3>5 DEF Starting, Working
  <2> QED
    BY <2>1, <2>2 DEF SingleDriver, OneHand
<1> QED
  BY <1>1, HandsInvariant, PTL

\* Receivers, threads and works only have scan states that are allocated, and
\* each that is allocated is in some hand.
THEOREM ScanPointersLive == Spec => []PointersLive
<1>1. Hands => PointersLive
  <2> SUFFICES ASSUME Hands PROVE PointersLive
    OBVIOUS
  <2> USE NoneFact DEF Hands, NoneIsNoScan, Types, ScanOrNone
  <2>1. scan_context # None => scan[scan_context].live
    BY DEF Published, InHand, Works
  <2>2. ASSUME NEW s \in Scans
        PROVE  scan[s].live <=> \E hand \in {"caller", "work", "cleanup"} : <<hand, s>> \in Drivers
    BY DEF Drivers, InHand, Starts, Works
  <2> QED
    BY <2>1, <2>2 DEF PointersLive
<1> QED
  BY <1>1, HandsInvariant, PTL

\* A thread that waits, waits for a scan that is under way.
THEOREM ScanWaitersServed == Spec => []WaitersServed
<1>1. Hands => WaitersServed
  BY DEF Hands
<1> QED
  BY <1>1, HandsInvariant, PTL

-----------------------------------------------------------------------------
(***************************************************************************)
(* The turns of the scan.                                                  *)
(***************************************************************************)

\* A step that changes nothing the turns are about.
LEMMA TurnsFrame ==
  ASSUME Turns, UNCHANGED <<scan, work, scan_cleanup_work, caller, radio, stray>>
  PROVE  Turns'
  BY DEF Turns, Listens, Opens, HasRead

\* u80211_scan and u80211_wait_for_scan_completion.
LEMMA CallerTurns ==
  ASSUME Hands, Turns, NEW t \in Callers, CallerStep(t)
  PROVE  Turns'
<1> USE NoneFact DEF Hands, Types, ScanOrNone, StartPlaces, WorkPlaces, NoneIsNoScan
<1>1. CASE ScanBegin(t)
  <2> USE <1>1 DEF ScanBegin, MayScan
  <2>1. PICK s \in Scans :
          /\ scan' = [scan EXCEPT ![s] = [FreeScan EXCEPT !.live = TRUE,
                                            !.current_channel = next_channel(0)]]
          /\ caller' = [caller EXCEPT ![t] = [at |-> "publish", scan |-> s]]
    OBVIOUS
  <2>2. /\ \A v \in Scans : v # s => scan'[v] = scan[v]
        /\ scan'[s].receiving = FALSE /\ scan'[s].buffer = <<>>
    BY <2>1 DEF FreeScan
  <2>3. ~Starting /\ ~Working
    BY DEF OneHand
  <2> QED
    BY <2>1, <2>2, <2>3 DEF Turns, Listens, Opens, HasRead, Starting, Starts, Working, Works
<1>2. CASE ScanPublishes(t) \/ ScanPurges(t)
  BY <1>2 DEF ScanPublishes, ScanPurges, radioVars, Turns, Listens, Opens, HasRead
<1>3. CASE ScanTunes(t)
  <2> USE <1>3 DEF ScanTunes, set_channel
  <2>1. \A s \in Scans : ~scan[s].receiving /\ work[s] = "idle"
    BY DEF Turns, Listens, OneHand, Starting, Starts, Working, Works
  <2>2. \A u \in Callers : caller'[u].at = "open" => u = t /\ caller'[u].scan = caller[t].scan
    BY DEF OneHand, Starts
  <2> QED
    BY <2>1, <2>2 DEF Turns, Listens, Opens, HasRead
<1>4. CASE ScanOpens(t)
  <2> USE <1>4 DEF ScanOpens, OpenReceiving
  <2>1. caller[t].scan \in Scans
    BY DEF InHand, Starts
  <2>2. \A s \in Scans : /\ scan'[s].buffer = scan[s].buffer
                         /\ scan'[s].current_channel = scan[s].current_channel
                         /\ s # caller[t].scan => scan'[s] = scan[s]
    BY <2>1 DEF ScanState
  <2>3. radio = scan[caller[t].scan].current_channel \/ stray
    BY <2>1 DEF Turns, Opens
  <2>4. caller'[t].at = "probe" /\ caller'[t].scan = caller[t].scan
    OBVIOUS
  <2> QED
    BY <2>1, <2>2, <2>3, <2>4 DEF Turns, Listens, Opens, HasRead
<1>5. CASE ScanReturns(t)
  <2> USE <1>5 DEF ScanReturns, IdleCaller, radioVars
  <2>1. /\ caller[t].scan \in Scans
        /\ \A u \in Callers : Starts(u) => u = t
    BY DEF InHand, OneHand, Starts
  <2> QED
    BY <2>1 DEF Turns, Listens, Opens, HasRead, Starts
<1>6. CASE WaitBegin(t) \/ WaitEnd(t)
  BY <1>6 DEF WaitBegin, WaitEnd, IdleCaller, radioVars, Turns, Listens, Opens, HasRead
<1> QED
  BY <1>1, <1>2, <1>3, <1>4, <1>5, <1>6 DEF CallerStep, CallerProceeds

\* u80211_scan_process_response.
LEMMA ResponseTurns ==
  ASSUME Hands, Turns, NEW a \in AccessPoints, NEW channel \in 0 .. LastChannel,
         u80211_scan_process_response(a, channel)
  PROVE  Turns'
<1> USE NoneFact DEF Hands, NoneIsNoScan
<1>1. /\ scan_context \in Scans /\ scan[scan_context].receiving
      /\ UNCHANGED <<work, scan_cleanup_work, caller, radio, stray>>
  BY DEF u80211_scan_process_response, Types, ScanOrNone, radioVars
<1>2. \A s \in Scans : /\ s # scan_context => scan'[s] = scan[s]
                       /\ scan'[s].receiving = scan[s].receiving
                       /\ scan'[s].current_channel = scan[s].current_channel
  BY <1>1 DEF u80211_scan_process_response, Types, ScanState
<1>3. ~HasRead(scan_context)
  <2>1. Starting \/ Working
    BY <1>1 DEF Turns, Listens, Starting, Starts, StartPlaces, Working, Works
  <2>2. ~Pending
    BY <2>1 DEF OneHand
  <2>3. work[scan_context] \notin {"next", "complete"}
    BY <1>1 DEF Turns, Listens, OneHand, Starting, Starts, StartPlaces, Working, Works
  <2> QED
    BY <1>1, <2>2, <2>3 DEF HasRead, Pending
<1> QED
  BY <1>1, <1>2, <1>3 DEF Turns, Listens, Opens, HasRead

\* scan_work.
LEMMA WorkTurns ==
  ASSUME Hands, Turns, NEW s \in Scans, WorkStep(s)
  PROVE  Turns'
<1> USE NoneFact DEF Hands, Types, ScanOrNone, WorkPlaces, NoneIsNoScan, WorkGoes
<1>1. /\ \A v \in Scans : Works(v) => v = s
      /\ ~Starting /\ ~Pending /\ Works(s)
  <2>1. Works(s)
    BY DEF WorkStep, TimerFires, WorkCloses, WorkReads, WorkHasRead, WorkSwitches, WorkTunes,
       WorkOpens, WorkReturns, WorkCompletes, WorkEnqueuesCleanup, Works
  <2> QED
    BY <2>1 DEF OneHand, Working
\* No other scan listens, opens or has anything to read.
<1>2. \A v \in Scans : v # s => ~Listens(v) /\ ~Opens(v) /\ ~scan[v].receiving
  BY <1>1 DEF Turns, Listens, Opens, Works, Starting, Starts, StartPlaces
<1>3. CASE TimerFires(s)
  BY <1>3 DEF TimerFires, radioVars, Turns, Listens, Opens, HasRead
<1>4. CASE WorkCloses(s)
  <2>1. \A v \in Scans : /\ scan'[v].buffer = scan[v].buffer
                         /\ scan'[v].current_channel = scan[v].current_channel
                         /\ v # s => scan'[v] = scan[v]
    BY <1>4 DEF WorkCloses, ScanState
  <2>2. ~scan'[s].receiving
    BY <1>4 DEF WorkCloses, ReceivingWhileDraining, ScanState
  <2> QED
    BY <1>4, <2>1, <2>2 DEF WorkCloses, radioVars, Turns, Listens, Opens, HasRead
<1>5. CASE WorkReads(s)
  <2>1. /\ \A v \in Scans : v # s => scan'[v] = scan[v]
        /\ scan'[s].receiving = scan[s].receiving
        /\ scan'[s].current_channel = scan[s].current_channel
    BY <1>5 DEF WorkReads, ScanState
  <2>2. ~HasRead(s)
    BY <1>1, <1>5 DEF WorkReads, HasRead, Pending
  <2> QED
    BY <1>5, <2>1, <2>2 DEF WorkReads, radioVars, Turns, Listens, Opens, HasRead
<1>6. CASE WorkHasRead(s)
  BY <1>6 DEF WorkHasRead, radioVars, Turns, Listens, Opens, HasRead
<1>7. CASE WorkSwitches(s)
  <2>1. /\ \A v \in Scans : v # s => scan'[v] = scan[v]
        /\ scan'[s].receiving = scan[s].receiving
        /\ scan'[s].buffer = scan[s].buffer
    BY <1>7 DEF WorkSwitches, ScanState
  <2>2. ~scan[s].receiving
    BY <1>1, <1>7 DEF WorkSwitches, Turns, Listens, Starting, Starts, StartPlaces
  <2> QED
    BY <1>1, <1>7, <2>1, <2>2
    DEF WorkSwitches, radioVars, Turns, Listens, Opens, HasRead, Starting, Starts, StartPlaces
<1>8. CASE WorkTunes(s)
  <2>1. \A v \in Scans : ~scan[v].receiving
    BY <1>1, <1>2, <1>8 DEF WorkTunes, Turns, Listens, Starting, Starts, StartPlaces
  <2>2. \A v \in Scans : Opens(v)' => v = s
    BY <1>1, <1>2, <1>8 DEF WorkTunes, Opens
  <2> QED
    BY <1>8, <2>1, <2>2 DEF WorkTunes, set_channel, Turns, HasRead
<1>9. CASE WorkOpens(s)
  <2>1. \A v \in Scans : /\ scan'[v].buffer = scan[v].buffer
                         /\ scan'[v].current_channel = scan[v].current_channel
                         /\ v # s => scan'[v] = scan[v]
    BY <1>9 DEF WorkOpens, OpenReceiving, ScanState
  <2>2. radio = scan[s].current_channel \/ stray
    BY <1>9 DEF WorkOpens, Turns, Opens
  <2> QED
    BY <1>9, <2>1, <2>2 DEF WorkOpens, Turns, Listens, Opens, HasRead
<1>10. CASE WorkReturns(s)
  BY <1>10 DEF WorkReturns, radioVars, Turns, Listens, Opens, HasRead
<1>11. CASE WorkCompletes(s)
  BY <1>11 DEF WorkCompletes, radioVars, Turns, Listens, Opens, HasRead
<1>12. CASE WorkEnqueuesCleanup(s)
  <2>1. scan_cleanup_work'.pending = s
    BY <1>1, <1>12 DEF WorkEnqueuesCleanup, Pending
  <2>2. ~scan[s].receiving
    BY <1>1, <1>12 DEF WorkEnqueuesCleanup, Turns, Listens, Starting, Starts, StartPlaces
  <2> QED
    BY <1>12, <2>1, <2>2 DEF WorkEnqueuesCleanup, radioVars, Turns, Listens, Opens, HasRead
<1> QED
  BY <1>3, <1>4, <1>5, <1>6, <1>7, <1>8, <1>9, <1>10, <1>11, <1>12 DEF WorkStep

\* cleanup_scan.
LEMMA CleanupTurns ==
  ASSUME Hands, Turns, CleanupStep
  PROVE  Turns'
<1> USE NoneFact DEF Hands, Types, ScanOrNone, NoneIsNoScan
<1>1. CASE CleanupDestroys
  <2> DEFINE s == scan_cleanup_work.pending
  <2> USE <1>1 DEF CleanupDestroys
  <2>1. /\ s \in Scans
        /\ \A v \in Scans : v # s => scan'[v] = scan[v] /\ work'[v] = work[v]
        /\ scan'[s] = FreeScan /\ work'[s] = "idle"
        /\ scan_cleanup_work'.pending = None
    OBVIOUS
  <2>2. ~FreeScan.receiving /\ FreeScan.buffer = <<>>
    BY DEF FreeScan
  <2>3. ~Starting
    BY <2>1 DEF OneHand, Pending
  <2> QED
    BY <2>1, <2>2, <2>3
    DEF Turns, Listens, Opens, HasRead, radioVars, Starting, Starts, StartPlaces
<1>2. CASE CleanupFinishes
  <2>1. \A t \in Callers : caller'[t].at \in {"probe", "open"} => caller'[t] = caller[t]
    BY <1>2 DEF CleanupFinishes, IdleCaller
  <2>2. \A t \in Callers : caller[t].at \notin {"probe", "open"}
    BY <1>2 DEF CleanupFinishes, OneHand, Finishing, Starting, Starts, StartPlaces
  <2> QED
    BY <1>2, <2>1, <2>2 DEF CleanupFinishes, Turns, Listens, Opens, HasRead, radioVars
<1> QED
  BY <1>1, <1>2 DEF CleanupStep

\* The user and the association.
LEMMA EnvironmentTurns ==
  ASSUME Hands, Turns, EnvironmentStep
  PROVE  Turns'
<1> USE DEF Hands, Types
<1>1. ASSUME NEW a \in AccessPoints, UserFinds(a) \/ UserReleases(a)
      PROVE  Turns'
  BY <1>1, TurnsFrame DEF UserFinds, UserReleases, radioVars
<1>2. ASSUME NEW t \in Callers, AttemptBegin(t)
      PROVE  Turns'
  BY <1>2 DEF AttemptBegin, radioVars, Turns, Listens, Opens, HasRead
<1>3. CASE AttemptEnd
  BY <1>3, TurnsFrame DEF AttemptEnd, radioVars
<1>4. ASSUME NEW t \in Callers, NEW c \in Channels, AssociationTunes(t, c)
      PROVE  Turns'
  BY <1>4 DEF AssociationTunes, IdleCaller, Turns, Listens, Opens, HasRead
<1> QED
  BY <1>1, <1>2, <1>3, <1>4 DEF EnvironmentStep

\* The turns are kept by every step.
LEMMA TurnsStep ==
  ASSUME Hands, Turns, [Next]_vars
  PROVE  Turns'
<1>1. CASE Next
  BY <1>1, CallerTurns, ResponseTurns, WorkTurns, CleanupTurns, EnvironmentTurns DEF Next
<1>2. CASE UNCHANGED vars
  BY <1>2, TurnsFrame DEF vars, radioVars
<1> QED
  BY <1>1, <1>2

\* Every state of every execution is at one of these turns.
THEOREM TurnsInvariant == Spec => []Turns
<1>1. Init => Turns
  BY NoneFact DEF Init, Turns, Listens, Opens, HasRead, FreeScan, IdleCaller, NoneIsNoScan
<1>2. Hands /\ Turns /\ [Next]_vars => Turns'
  BY TurnsStep
<1> QED
  BY <1>1, <1>2, HandsInvariant, PTL DEF Spec

\* While responses are let in, the device listens on the channel to which those
\* that name none are put down, but for a late set_channel of an association.
THEOREM ScanRadioOnChannel == Spec => []RadioOnChannel
<1>1. Turns => RadioOnChannel
  BY DEF Turns, RadioOnChannel
<1> QED
  BY <1>1, TurnsInvariant, PTL

-----------------------------------------------------------------------------
(***************************************************************************)
(* What is read before a channel is left.                                  *)
(***************************************************************************)

\* A buffer that stays as it is has the length it had.
LEMMA SameBuffer ==
  ASSUME Hands, NEW v \in Scans,
         scan'[v].buffer = scan[v].buffer, scan'[v].current_channel = scan[v].current_channel
  PROVE  ReadsFirst(v)
<1>1. Len(scan[v].buffer) \in Nat
  BY DEF Hands, Types, ScanState
<1> QED
  BY <1>1 DEF ReadsFirst

\* The steps of callers.
LEMMA CallerReads ==
  ASSUME Hands, Turns, NEW t \in Callers, CallerStep(t), NEW v \in Scans
  PROVE  ReadsFirst(v)
<1> USE NoneFact DEF Hands, Types, StartPlaces, NoneIsNoScan
<1>1. CASE ScanBegin(t)
  <2>1. PICK s \in Scans :
          /\ ~scan[s].live
          /\ scan' = [scan EXCEPT ![s] = [FreeScan EXCEPT !.live = TRUE,
                                            !.current_channel = next_channel(0)]]
    BY <1>1 DEF ScanBegin
  <2>2. CASE v = s
    <3>1. work[s] = "idle"
      BY <1>1 DEF ScanBegin, MayScan, OneHand, Working, Works
    <3> QED
      BY <2>1, <2>2, <3>1 DEF ReadsFirst, WorkPlaces
  <2>3. CASE v # s
    BY <2>1, <2>3, SameBuffer
  <2> QED
    BY <2>2, <2>3
<1>2. CASE ScanOpens(t)
  <2>1. scan'[v].buffer = scan[v].buffer /\ scan'[v].current_channel = scan[v].current_channel
    BY <1>2 DEF ScanOpens, OpenReceiving, ScanState
  <2> QED
    BY <2>1, SameBuffer
<1>3. ASSUME UNCHANGED scan PROVE ReadsFirst(v)
  BY <1>3, SameBuffer
<1> QED
  BY <1>1, <1>2, <1>3 DEF CallerStep, CallerProceeds, ScanPublishes, ScanPurges, ScanTunes,
     ScanReturns, WaitBegin, WaitEnd

\* A response is let in only while its scan listens.
LEMMA ResponseReads ==
  ASSUME Hands, Turns, NEW a \in AccessPoints, NEW channel \in 0 .. LastChannel,
         u80211_scan_process_response(a, channel), NEW v \in Scans
  PROVE  ReadsFirst(v)
<1> USE NoneFact DEF Hands, NoneIsNoScan
<1>1. scan_context \in Scans /\ scan[scan_context].receiving
  BY DEF u80211_scan_process_response, Types, ScanOrNone
<1>2. /\ v # scan_context => scan'[v] = scan[v]
      /\ scan'[v].current_channel = scan[v].current_channel
  BY <1>1 DEF u80211_scan_process_response, Types, ScanState
<1>3. work[scan_context] \notin WorkPlaces \ {"probe"}
  BY <1>1 DEF Turns, Listens, WorkPlaces, OneHand, Starting, Starts, StartPlaces, Working, Works
<1>4. CASE v = scan_context
  BY <1>2, <1>3, <1>4 DEF ReadsFirst
<1>5. CASE v # scan_context
  BY <1>2, <1>5, SameBuffer
<1> QED
  BY <1>4, <1>5

\* The steps of scan_work.
LEMMA ScanWorkReads ==
  ASSUME Hands, Turns, NEW s \in Scans, WorkStep(s), NEW v \in Scans
  PROVE  ReadsFirst(v)
<1> USE DEF Hands, Types
<1>1. CASE WorkReads(s)
  <2>1. CASE v = s
    <3>1. /\ scan'[s].buffer = Tail(scan[s].buffer)
          /\ scan'[s].current_channel = scan[s].current_channel
      BY <1>1 DEF WorkReads, ScanState
    <3>2. scan[s].buffer \in Buffers /\ scan[s].buffer # <<>>
      BY <1>1 DEF WorkReads, ScanState, Buffers
    <3>3. Len(Tail(scan[s].buffer)) <= Len(scan[s].buffer)
      BY <3>2 DEF Buffers
    <3> QED
      BY <2>1, <3>1, <3>3 DEF ReadsFirst
  <2>2. CASE v # s
    BY <1>1, <2>2, SameBuffer DEF WorkReads
  <2> QED
    BY <2>1, <2>2
<1>2. CASE WorkSwitches(s)
  <2>1. scan[s].buffer = <<>>
    BY <1>2 DEF WorkSwitches, WorkGoes, Turns, HasRead
  <2>2. scan'[v].buffer = scan[v].buffer /\ (v # s => scan'[v] = scan[v])
    BY <1>2 DEF WorkSwitches, ScanState
  <2>3. Len(scan[v].buffer) \in Nat
    BY DEF ScanState
  <2> QED
    BY <2>1, <2>2, <2>3 DEF ReadsFirst
<1>3. CASE WorkCloses(s) \/ WorkOpens(s)
  <2>1. \E b \in BOOLEAN : scan' = [scan EXCEPT ![s].receiving = b]
    BY <1>3 DEF WorkCloses, WorkOpens, OpenReceiving, ReceivingWhileDraining
  <2>2. scan'[v].buffer = scan[v].buffer /\ scan'[v].current_channel = scan[v].current_channel
    BY <2>1 DEF ScanState
  <2> QED
    BY <2>2, SameBuffer
<1>4. ASSUME UNCHANGED scan PROVE ReadsFirst(v)
  BY <1>4, SameBuffer
<1> QED
  BY <1>1, <1>2, <1>3, <1>4 DEF WorkStep, TimerFires, WorkHasRead, WorkTunes, WorkReturns,
     WorkCompletes, WorkEnqueuesCleanup

\* The steps of cleanup_scan: what is freed has been read.
LEMMA CleanupReads ==
  ASSUME Hands, Turns, CleanupStep, NEW v \in Scans
  PROVE  ReadsFirst(v)
<1>1. CASE CleanupDestroys
  <2> DEFINE s == scan_cleanup_work.pending
  <2>1. s \in Scans /\ scan' = [scan EXCEPT ![s] = FreeScan]
    BY <1>1, NoneFact DEF CleanupDestroys, Hands, Types, ScanOrNone, NoneIsNoScan
  <2>2. CASE v = s
    <3>1. scan[s].buffer = <<>>
      BY <2>1 DEF Turns, HasRead
    <3>2. scan'[s].buffer = <<>>
      BY <2>1 DEF FreeScan, Hands, Types
    <3> QED
      BY <2>2, <3>1, <3>2 DEF ReadsFirst
  <2>3. CASE v # s
    BY <2>1, <2>3, SameBuffer DEF Hands, Types
  <2> QED
    BY <2>2, <2>3
<1>2. CASE CleanupFinishes
  BY <1>2, SameBuffer DEF CleanupFinishes
<1> QED
  BY <1>1, <1>2 DEF CleanupStep

\* What was received on a channel has been read when the scan leaves it, and
\* while it is read nothing is added.
THEOREM ScanReadBeforeLeaving == Spec => ReadBeforeLeaving
<1>1. Hands /\ Turns /\ [Next]_vars => [\A s \in Scans : ReadsFirst(s)]_vars
  <2> SUFFICES ASSUME Hands, Turns, Next, NEW v \in Scans PROVE ReadsFirst(v)
    OBVIOUS
  <2>1. ASSUME UNCHANGED scan PROVE ReadsFirst(v)
    BY <2>1, SameBuffer
  <2>2. ASSUME EnvironmentStep PROVE UNCHANGED scan
    BY <2>2 DEF EnvironmentStep, UserFinds, UserReleases, AttemptBegin, AttemptEnd,
       AssociationTunes
  <2> QED
    BY <2>1, <2>2, CallerReads, ResponseReads, ScanWorkReads, CleanupReads DEF Next
<1> QED
  BY <1>1, HandsInvariant, TurnsInvariant, PTL DEF Spec, ReadBeforeLeaving

-----------------------------------------------------------------------------
(***************************************************************************)
(* The channels that were visited.                                         *)
(***************************************************************************)

\* Where a scan has a channel before it, on which responses were not let in yet ...
Ahead(s) ==
  \/ \E t \in Callers :
       caller[t].at \in {"publish", "purge", "tune", "open"} /\ caller[t].scan = s
  \/ work[s] \in {"tune", "open"}
\* ... and where they have been.
Behind(s) ==
  \/ \E t \in Callers : caller[t].at = "probe" /\ caller[t].scan = s
  \/ work[s] \in {"probe", "armed", "queued", "drain", "next"}

\* Channels are visited in ascending order, and none is passed over.
Visits ==
  /\ visited \subseteq AllowedChannels
  /\ \A s \in Scans :
       LET current == scan[s].current_channel
       IN  /\ Ahead(s) =>
                current \in AllowedChannels /\ visited = {c \in AllowedChannels : c < current}
           /\ Behind(s) =>
                current \in AllowedChannels /\ visited = {c \in AllowedChannels : c <= current}
           /\ work[s] = "complete" => visited = AllowedChannels

\* Channels are numbers, and what is below a channel and the channel is what is up to it.
LEMMA ChannelsAreNumbers ==
  /\ AllowedChannels \subseteq Nat /\ None \notin AllowedChannels /\ 0 \notin AllowedChannels
  /\ \A current \in AllowedChannels :
       {c \in AllowedChannels : c < current} \cup {current} =
         {c \in AllowedChannels : c <= current}
<1>1. /\ LastChannel \in Nat /\ AllowedChannels \subseteq 1 .. LastChannel
      /\ None \notin 0 .. LastChannel
  BY ScanAssumption
<1>2. AllowedChannels \subseteq Nat /\ None \notin AllowedChannels /\ 0 \notin AllowedChannels
  <2>1. 1 .. LastChannel \subseteq 0 .. LastChannel /\ 0 \notin 1 .. LastChannel
        /\ 1 .. LastChannel \subseteq Nat
    BY <1>1
  <2> QED BY <1>1, <2>1
<1>3. ASSUME NEW current \in AllowedChannels, NEW c \in AllowedChannels
      PROVE  c <= current <=> c < current \/ c = current
  <2>1. c \in Nat /\ current \in Nat BY <1>2
  <2> QED BY <2>1
<1> QED BY <1>2, <1>3

\* next_channel passes over no channel.
LEMMA NextChannelIsNext ==
  ASSUME NEW current \in AllowedChannels \cup {0}
  PROVE  /\ next_channel(current) = None => \A c \in AllowedChannels : c <= current
         /\ next_channel(current) # None =>
              /\ next_channel(current) \in AllowedChannels
              /\ \A c \in AllowedChannels : c <= current <=> c < next_channel(current)
<1> DEFINE later == {channel \in AllowedChannels : current < channel}
           next == CHOOSE channel \in later : \A k \in later : channel <= k
<1>1. /\ AllowedChannels \subseteq Nat /\ None \notin AllowedChannels
      /\ current \in Nat /\ later \subseteq Nat
  <2>1. later \subseteq AllowedChannels OBVIOUS
  <2> HIDE DEF later
  <2>2. current \in Nat BY ChannelsAreNumbers
  <2> QED BY <2>1, <2>2, ChannelsAreNumbers
<1>2. next_channel(current) = IF later = {} THEN None ELSE next BY DEF next_channel
<1>3. CASE later = {}
  <2>1. \A c \in AllowedChannels : ~(current < c) BY <1>3
  <2>2. \A c \in AllowedChannels : c <= current BY <1>1, <2>1
  <2> QED BY <1>2, <1>3, <2>2
<1>4. CASE later # {}
  <2>1. \E channel \in later : \A k \in later : channel <= k
    <3> HIDE DEF later
    <3>1. PICK channel \in later : \A k \in later : <<k, channel>> \notin OpToRel(<, Nat)
      BY <1>1, <1>4, NatLessThanWellFounded, WFMin, Zenon
    <3>2. ASSUME NEW k \in later PROVE channel <= k
      <4>1. ~(k < channel) BY <1>1, <3>1 DEF OpToRel
      <4> QED BY <1>1, <4>1
    <3> QED BY <3>2
  <2>2. next \in later /\ \A k \in later : next <= k
    <3> HIDE DEF later
    <3> QED BY <2>1
  <2> HIDE DEF next
  <2>3. next \in AllowedChannels /\ current < next BY <2>2
  <2>4. ASSUME NEW c \in AllowedChannels PROVE c <= current <=> c < next
    <3>1. c \in Nat /\ next \in Nat BY <1>1, <2>3
    <3>2. current < c => next <= c BY <2>2
    <3> QED BY <1>1, <2>3, <3>1, <3>2
  <2> QED BY <1>1, <1>2, <1>4, <2>3, <2>4
<1> QED BY <1>3, <1>4

\* A step that moves no scan to another turn.
LEMMA VisitsKept ==
  ASSUME Visits, visited' = visited,
         \A s \in Scans : /\ scan'[s].current_channel = scan[s].current_channel
                          /\ Ahead(s)' => Ahead(s)
                          /\ Behind(s)' => Behind(s)
                          /\ work'[s] = "complete" => work[s] = "complete"
  PROVE  Visits'
  BY DEF Visits

\* u80211_scan and u80211_wait_for_scan_completion.
LEMMA CallerVisits ==
  ASSUME Hands, Turns, Visits, NEW t \in Callers, CallerStep(t)
  PROVE  Visits'
<1> USE NoneFact DEF Hands, Types, NoneIsNoScan
<1>1. CASE ScanBegin(t)
  <2>1. /\ ~Starting /\ ~Working /\ visited' = {} /\ work' = work /\ next_channel(0) # None
    BY <1>1 DEF ScanBegin, MayScan, OneHand
  <2>2. PICK s \in Scans :
          /\ scan' = [scan EXCEPT ![s] = [FreeScan EXCEPT !.live = TRUE,
                                            !.current_channel = next_channel(0)]]
          /\ caller' = [caller EXCEPT ![t] = [at |-> "publish", scan |-> s]]
    BY <1>1 DEF ScanBegin
  <2>3. scan'[s].current_channel = next_channel(0) BY <2>2 DEF FreeScan
  <2>4. \A v \in Scans : /\ work'[v] = "idle" /\ ~Behind(v)' /\ (Ahead(v)' => v = s)
    BY <2>1, <2>2 DEF Ahead, Behind, Starting, Starts, StartPlaces, Working, Works
  <2>5. /\ next_channel(0) \in AllowedChannels
        /\ \A c \in AllowedChannels : ~(c < next_channel(0))
    <3>1. \A c \in AllowedChannels : ~(c <= 0) BY ChannelsAreNumbers
    <3> QED BY <2>1, <3>1, NextChannelIsNext
  <2> QED BY <2>1, <2>3, <2>4, <2>5 DEF Visits
<1>2. CASE ScanOpens(t)
  <2> DEFINE s == caller[t].scan
  <2>1. /\ s \in Scans /\ Ahead(s) /\ \A u \in Callers : Starts(u) => u = t
        /\ ~Working
    BY <1>2 DEF ScanOpens, InHand, OneHand, Starting, Starts, StartPlaces, Ahead
  <2>2. /\ visited' = visited \cup {scan[s].current_channel}
        /\ \A v \in Scans : scan'[v].current_channel = scan[v].current_channel
        /\ caller' = [caller EXCEPT ![t].at = "probe"] /\ work' = work
    BY <1>2, <2>1 DEF ScanOpens, OpenReceiving, ScanState
  <2>3. \A v \in Scans : /\ work'[v] = "idle" /\ ~Ahead(v)' /\ (Behind(v)' => v = s)
    <3>1. \A v \in Scans : work'[v] = "idle" BY <2>1, <2>2 DEF Working, Works
    <3>2. \A u \in Callers : u # t => caller'[u] = caller[u] /\ ~Starts(u)
      BY <2>1, <2>2
    <3>3. caller'[t].at = "probe" /\ caller'[t].scan = s BY <2>2
    <3> QED BY <3>1, <3>2, <3>3 DEF Ahead, Behind, Starts, StartPlaces
  <2>4. /\ scan[s].current_channel \in AllowedChannels
        /\ visited = {c \in AllowedChannels : c < scan[s].current_channel}
    BY <2>1 DEF Visits
  <2>5. visited' = {c \in AllowedChannels : c <= scan[s].current_channel}
    BY <2>2, <2>4, ChannelsAreNumbers
  <2> QED BY <2>1, <2>2, <2>3, <2>4, <2>5 DEF Visits
<1>3. ASSUME visited' = visited, scan' = scan, work' = work,
             \A s \in Scans : (Ahead(s)' => Ahead(s)) /\ (Behind(s)' => Behind(s))
      PROVE  Visits'
  BY <1>3, VisitsKept
<1>4. CASE ScanPublishes(t) \/ ScanPurges(t) \/ ScanTunes(t)
  BY <1>3, <1>4 DEF ScanPublishes, ScanPurges, ScanTunes, radioVars, Ahead, Behind
<1>5. CASE ScanReturns(t)
  <2>1. /\ visited' = visited /\ scan' = scan
        /\ work' = [work EXCEPT ![caller[t].scan] = "armed"]
        /\ caller' = [caller EXCEPT ![t] = IdleCaller]
    BY <1>5 DEF ScanReturns, radioVars
  <2>2. caller[t].at = "probe" /\ caller[t].scan \in Scans
    BY <1>5 DEF ScanReturns, InHand, Starts, StartPlaces
  <2>3. \A s \in Scans : /\ Ahead(s)' => Ahead(s)
                         /\ Behind(s)' => Behind(s)
                         /\ work'[s] = "complete" => work[s] = "complete"
    BY <2>1, <2>2 DEF Ahead, Behind, IdleCaller
  <2> QED BY <2>1, <2>3, VisitsKept
<1>6. CASE WaitBegin(t) \/ WaitEnd(t)
  BY <1>3, <1>6 DEF WaitBegin, WaitEnd, IdleCaller, radioVars, Ahead, Behind
<1> QED BY <1>1, <1>2, <1>4, <1>5, <1>6 DEF CallerStep, CallerProceeds

\* scan_work.
LEMMA WorkVisits ==
  ASSUME Hands, Turns, Visits, NEW s \in Scans, WorkStep(s)
  PROVE  Visits'
<1> USE DEF Hands, Types
<1>1. /\ \A v \in Scans : Works(v) => v = s
      /\ ~Starting /\ Works(s)
  <2>1. Works(s)
    BY DEF WorkStep, TimerFires, WorkCloses, WorkReads, WorkHasRead, WorkSwitches, WorkTunes,
       WorkOpens, WorkReturns, WorkCompletes, WorkEnqueuesCleanup, WorkGoes, Works
  <2> QED BY <2>1 DEF OneHand, Working
<1>2. ASSUME caller' = caller, work' \in [Scans -> WorkPlaces \cup {"idle", "armed", "queued"}],
             \A v \in Scans : v # s => work'[v] = work[v]
      PROVE  \A v \in Scans : v # s => ~Ahead(v)' /\ ~Behind(v)' /\ work'[v] = "idle"
  BY <1>1, <1>2 DEF Ahead, Behind, Starting, Starts, StartPlaces, Works
<1>3. ASSUME caller' = caller, visited' = visited,
             \A v \in Scans : scan'[v].current_channel = scan[v].current_channel,
             NEW to, work' = [work EXCEPT ![s] = to],
             \/ work[s] \in {"probe", "armed", "queued", "drain", "next"}
                /\ to \in {"probe", "armed", "queued", "drain", "next"}
             \/ work[s] \in {"tune", "open"} /\ to \in {"tune", "open"}
             \/ to = "idle"
      PROVE  Visits'
  <2>1. \A v \in Scans : /\ Ahead(v)' => Ahead(v)
                         /\ Behind(v)' => Behind(v)
                         /\ work'[v] = "complete" => work[v] = "complete"
    BY <1>3 DEF Ahead, Behind
  <2> QED BY <1>3, <2>1, VisitsKept
<1>4. CASE TimerFires(s) \/ WorkHasRead(s) \/ WorkTunes(s) \/ WorkReturns(s)
           \/ WorkEnqueuesCleanup(s)
  BY <1>3, <1>4 DEF TimerFires, WorkHasRead, WorkTunes, WorkReturns, WorkEnqueuesCleanup, WorkGoes,
     radioVars
<1>5. CASE WorkCloses(s)
  <2>1. \A v \in Scans : scan'[v].current_channel = scan[v].current_channel
    BY <1>5 DEF WorkCloses, ScanState
  <2> QED BY <1>3, <1>5, <2>1 DEF WorkCloses, WorkGoes, radioVars
<1>6. CASE WorkReads(s)
  <2>1. \A v \in Scans : scan'[v].current_channel = scan[v].current_channel
    BY <1>6 DEF WorkReads, ScanState
  <2>2. \A v \in Scans : /\ Ahead(v)' => Ahead(v)
                         /\ Behind(v)' => Behind(v)
                         /\ work'[v] = "complete" => work[v] = "complete"
    BY <1>6 DEF WorkReads, Ahead, Behind
  <2> QED BY <1>6, <2>1, <2>2, VisitsKept DEF WorkReads, radioVars
<1>7. CASE WorkSwitches(s)
  <2> DEFINE current == scan[s].current_channel
  <2>1. /\ work[s] = "next" /\ work' = [work EXCEPT ![s] = "tune"] /\ caller' = caller
        /\ visited' = visited /\ next_channel(current) # None
    BY <1>7 DEF WorkSwitches, WorkGoes, radioVars
  <2>2. scan'[s].current_channel = next_channel(current) BY <1>7 DEF WorkSwitches, ScanState
  <2>3. /\ current \in AllowedChannels
        /\ visited = {c \in AllowedChannels : c <= current}
    BY <2>1 DEF Visits, Behind
  <2>4. /\ next_channel(current) \in AllowedChannels
        /\ visited = {c \in AllowedChannels : c < next_channel(current)}
    BY <2>1, <2>3, NextChannelIsNext
  <2>5. ~Behind(s)' /\ work'[s] = "tune"
    BY <1>1, <2>1 DEF Behind, Starting, Starts, StartPlaces
  <2>6. \A v \in Scans : v # s => ~Ahead(v)' /\ ~Behind(v)' /\ work'[v] = "idle"
    BY <1>2, <2>1 DEF WorkPlaces
  <2> QED BY <2>1, <2>2, <2>4, <2>5, <2>6 DEF Visits
<1>8. CASE WorkOpens(s)
  <2> DEFINE current == scan[s].current_channel
  <2>1. /\ work[s] = "open" /\ work' = [work EXCEPT ![s] = "probe"] /\ caller' = caller
        /\ visited' = visited \cup {current}
    BY <1>8 DEF WorkOpens, OpenReceiving, WorkGoes
  <2>2. scan'[s].current_channel = current BY <1>8 DEF WorkOpens, OpenReceiving, ScanState
  <2>3. /\ current \in AllowedChannels
        /\ visited = {c \in AllowedChannels : c < current}
    BY <2>1 DEF Visits, Ahead
  <2>4. visited' = {c \in AllowedChannels : c <= current}
    BY <2>1, <2>3, ChannelsAreNumbers
  <2>5. ~Ahead(s)' /\ work'[s] = "probe"
    BY <1>1, <2>1 DEF Ahead, Starting, Starts, StartPlaces
  <2>6. \A v \in Scans : v # s => ~Ahead(v)' /\ ~Behind(v)' /\ work'[v] = "idle"
    BY <1>2, <2>1 DEF WorkPlaces
  <2> QED BY <2>2, <2>3, <2>4, <2>5, <2>6 DEF Visits
<1>9. CASE WorkCompletes(s)
  <2> DEFINE current == scan[s].current_channel
  <2>1. /\ work[s] = "next" /\ work' = [work EXCEPT ![s] = "complete"] /\ caller' = caller
        /\ visited' = visited /\ scan' = scan /\ next_channel(current) = None
    BY <1>9 DEF WorkCompletes, WorkGoes, radioVars
  <2>2. /\ current \in AllowedChannels
        /\ visited = {c \in AllowedChannels : c <= current}
    BY <2>1 DEF Visits, Behind
  <2>3. visited = AllowedChannels BY <2>1, <2>2, NextChannelIsNext
  <2>4. ~Ahead(s)' /\ ~Behind(s)' /\ work'[s] = "complete"
    BY <1>1, <2>1 DEF Ahead, Behind, Starting, Starts, StartPlaces
  <2>5. \A v \in Scans : v # s => ~Ahead(v)' /\ ~Behind(v)' /\ work'[v] = "idle"
    BY <1>2, <2>1 DEF WorkPlaces
  <2> QED BY <2>1, <2>3, <2>4, <2>5 DEF Visits
<1> QED BY <1>4, <1>5, <1>6, <1>7, <1>8, <1>9 DEF WorkStep

\* The receivers, the cleanup and the rest of the program.
LEMMA OtherVisits ==
  ASSUME Hands, Visits,
         \/ \E a \in AccessPoints, channel \in 0 .. LastChannel :
              u80211_scan_process_response(a, channel)
         \/ CleanupStep \/ EnvironmentStep
  PROVE  Visits'
<1> USE NoneFact DEF Hands, Types, NoneIsNoScan
<1>1. ASSUME NEW a \in AccessPoints, NEW channel \in 0 .. LastChannel,
             u80211_scan_process_response(a, channel)
      PROVE  Visits'
  <2>1. \A s \in Scans : scan'[s].current_channel = scan[s].current_channel
    BY <1>1 DEF u80211_scan_process_response, ScanState
  <2> QED
    BY <1>1, <2>1, VisitsKept DEF u80211_scan_process_response, radioVars, Ahead, Behind
<1>2. CASE CleanupDestroys
  <2>1. /\ ~Starting /\ ~Working /\ visited' = visited /\ caller' = caller
        /\ work' = [work EXCEPT ![scan_cleanup_work.pending] = "idle"]
    BY <1>2 DEF CleanupDestroys, OneHand, Pending, radioVars
  <2>2. \A s \in Scans : ~Ahead(s)' /\ ~Behind(s)' /\ work'[s] # "complete"
    BY <2>1 DEF Ahead, Behind, Starting, Starts, StartPlaces, Working, Works
  <2> QED BY <2>1, <2>2 DEF Visits
<1>3. CASE CleanupFinishes
  <2>1. /\ visited' = visited /\ work' = work /\ scan' = scan
        /\ \A t \in Callers : caller'[t] = caller[t] \/ caller'[t].at = "woken"
    BY <1>3 DEF CleanupFinishes, IdleCaller, radioVars
  <2>2. \A s \in Scans : (Ahead(s)' => Ahead(s)) /\ (Behind(s)' => Behind(s))
    BY <2>1 DEF Ahead, Behind
  <2> QED BY <2>1, <2>2, VisitsKept
<1>4. CASE EnvironmentStep
  <2>1. /\ visited' = visited /\ work' = work /\ scan' = scan
        /\ \A t \in Callers : caller'[t] = caller[t] \/ caller'[t].at \in {"idle", "associate"}
    BY <1>4 DEF EnvironmentStep, UserFinds, UserReleases, AttemptBegin, AttemptEnd,
       AssociationTunes, IdleCaller, radioVars
  <2>2. \A s \in Scans : (Ahead(s)' => Ahead(s)) /\ (Behind(s)' => Behind(s))
    BY <2>1 DEF Ahead, Behind
  <2> QED BY <2>1, <2>2, VisitsKept
<1> QED BY <1>1, <1>2, <1>3, <1>4 DEF CleanupStep

\* Whatever a scan has visited is what its channel says.
THEOREM VisitsInvariant == Spec => []Visits
<1>1. Init => Visits
  BY NoneFact DEF Init, Visits, Ahead, Behind, FreeScan, IdleCaller, NoneIsNoScan
<1>2. Hands /\ Turns /\ Visits /\ [Next]_vars => Visits'
  <2> SUFFICES ASSUME Hands, Turns, Visits, [Next]_vars PROVE Visits'
    OBVIOUS
  <2>1. CASE Next
    BY <2>1, CallerVisits, WorkVisits, OtherVisits DEF Next
  <2>2. CASE UNCHANGED vars
    BY <2>2, VisitsKept DEF vars, radioVars, Ahead, Behind
  <2> QED BY <2>1, <2>2
<1> QED
  BY <1>1, <1>2, HandsInvariant, TurnsInvariant, PTL DEF Spec

\* Whatever the regulatory table allows, a scan ends only after it has let in responses on
\* every channel that it may scan actively.
THEOREM ScanVisitsEveryChannel == Spec => []EveryChannelScanned
<1>1. Visits => EveryChannelScanned
  BY DEF Visits, EveryChannelScanned
<1> QED
  BY <1>1, VisitsInvariant, PTL

-----------------------------------------------------------------------------
(***************************************************************************)
(* The size of what is in a buffer.                                        *)
(***************************************************************************)

\* The sizes of the first records of a buffer, for each number of them up to n.
Totals(buffer, n, v) ==
  /\ v \in [0 .. n -> Nat] /\ v[0] = 0
  /\ \A i \in 1 .. n : v[i] = v[i - 1] + RecordSize[buffer[i].from]

\* If a step leads from each number to the next, all are reached.
LEMMA UpToLength ==
  ASSUME NEW n \in Nat, NEW Reached \in SUBSET (0 .. n), 0 \in Reached,
         \A i \in Reached : i # n => i + 1 \in Reached
  PROVE  n \in Reached
<1> DEFINE left == {i \in 0 .. n : i \notin Reached}
<1> SUFFICES ASSUME n \notin Reached PROVE FALSE OBVIOUS
<1>1. left \subseteq Nat /\ left # {} OBVIOUS
<1> HIDE DEF left
<1>2. PICK i \in left : \A j \in left : <<j, i>> \notin OpToRel(<, Nat)
  BY <1>1, NatLessThanWellFounded, WFMin, Zenon
<1>3. i \in 0 .. n /\ i \notin Reached /\ i # 0 BY <1>2 DEF left
<1>4. i - 1 \in 0 .. n /\ i - 1 + 1 = i /\ i - 1 < i /\ i - 1 # n BY <1>3
<1>5. i - 1 \notin left
  <2>1. i - 1 \in Nat /\ i \in Nat BY <1>3, <1>4
  <2>2. <<i - 1, i>> \in OpToRel(<, Nat) BY <1>4, <2>1 DEF OpToRel
  <2> QED BY <1>2, <2>2
<1>6. i - 1 \in Reached BY <1>4, <1>5 DEF left
<1> QED BY <1>3, <1>4, <1>6

\* The sizes of records are numbers.
LEMMA SizesAreNumbers ==
  ASSUME NEW buffer \in Seq(Records), NEW i \in 1 .. Len(buffer)
  PROVE  RecordSize[buffer[i].from] \in Nat
<1>1. buffer[i] \in Records OBVIOUS
<1>2. buffer[i].from \in AccessPoints BY <1>1 DEF Records
<1> QED BY <1>2, ScanAssumption

\* DataCount is the last of the totals, which there are.
LEMMA CountIsTotal ==
  ASSUME NEW buffer \in Seq(Records)
  PROVE  \E v : Totals(buffer, Len(buffer), v) /\ DataCount(buffer) = v[Len(buffer)]
<1> DEFINE last == Len(buffer)
           parts == {n \in 0 .. last : \E v : Totals(buffer, n, v)}
<1>1. last \in Nat OBVIOUS
<1>2. \A i \in 1 .. last : RecordSize[buffer[i].from] \in Nat BY SizesAreNumbers
<1> HIDE DEF last
<1>3. 0 \in parts
  <2>1. Totals(buffer, 0, [i \in 0 .. 0 |-> 0]) BY DEF Totals
  <2> QED BY <1>1, <2>1
<1>4. ASSUME NEW n \in parts, n # last PROVE n + 1 \in parts
  <2>1. PICK v : Totals(buffer, n, v) OBVIOUS
  <2>2. n \in Nat /\ n + 1 \in 1 .. last BY <1>1, <1>4
  <2> DEFINE x == v[n] + RecordSize[buffer[n + 1].from]
             w == [i \in 0 .. n + 1 |-> IF i = n + 1 THEN x ELSE v[i]]
  <2>3. x \in Nat
    <3>1. v[n] \in Nat /\ RecordSize[buffer[n + 1].from] \in Nat
      BY <1>2, <2>1, <2>2 DEF Totals
    <3> QED BY <3>1
  <2>4. w \in [0 .. n + 1 -> Nat] /\ w[0] = 0 BY <2>1, <2>2, <2>3 DEF Totals
  <2>5. ASSUME NEW i \in 1 .. n + 1 PROVE w[i] = w[i - 1] + RecordSize[buffer[i].from]
    <3>1. CASE i = n + 1
      <4>1. w[i] = x /\ w[i - 1] = v[n] BY <2>2, <3>1
      <4> QED BY <3>1, <4>1
    <3>2. CASE i # n + 1
      <4>1. i \in 1 .. n /\ w[i] = v[i] /\ w[i - 1] = v[i - 1] BY <2>2, <3>2
      <4> QED BY <2>1, <4>1 DEF Totals
    <3> QED BY <3>1, <3>2
  <2> HIDE DEF w
  <2>6. Totals(buffer, n + 1, w) BY <2>4, <2>5 DEF Totals
  <2> QED BY <1>1, <2>2, <2>6
<1> HIDE DEF parts
<1>5. parts \subseteq 0 .. last BY DEF parts
<1>6. last \in parts BY <1>1, <1>3, <1>4, <1>5, UpToLength
<1>7. PICK v : Totals(buffer, last, v) BY <1>6 DEF parts
<1>8. v = [n \in 0 .. last |->
             IF n = 0 THEN 0 ELSE v[n - 1] + RecordSize[buffer[n].from]]
  BY <1>1, <1>7 DEF Totals
<1> DEFINE size[n \in 0 .. last] ==
             IF n = 0 THEN 0 ELSE size[n - 1] + RecordSize[buffer[n].from]
<1>9. size = [n \in 0 .. last |->
                IF n = 0 THEN 0 ELSE size[n - 1] + RecordSize[buffer[n].from]]
  <2> SUFFICES \E ff : ff = [n \in 0 .. last |->
                 IF n = 0 THEN 0 ELSE ff[n - 1] + RecordSize[buffer[n].from]]
    OBVIOUS
  <2> QED BY <1>8
<1>10. DataCount(buffer) = size[last] BY DEF DataCount, last
<1> HIDE DEF size
<1> DEFINE same == {n \in 0 .. last : size[n] = v[n]}
<1>11. 0 \in same BY <1>1, <1>7, <1>9 DEF Totals
<1>12. ASSUME NEW n \in same, n # last PROVE n + 1 \in same
  <2>1. n + 1 \in 1 .. last /\ n + 1 - 1 = n BY <1>1, <1>12
  <2>2. size[n + 1] = size[n] + RecordSize[buffer[n + 1].from] BY <1>9, <2>1
  <2>3. v[n + 1] = v[n] + RecordSize[buffer[n + 1].from] BY <1>7, <2>1 DEF Totals
  <2> QED BY <2>1, <2>2, <2>3
<1> HIDE DEF same
<1>13. same \subseteq 0 .. last BY DEF same
<1>14. last \in same BY <1>1, <1>11, <1>12, <1>13, UpToLength
<1>15. size[last] = v[last] BY <1>14 DEF same
<1> QED BY <1>7, <1>10, <1>15 DEF last

\* The records p are n of those of q, from the one behind the first d on.
PartOf(p, q, n, d) == \A i \in 1 .. n : p[i] = q[i + d] /\ RecordSize[p[i].from] \in Nat

\* What a part of a buffer adds is what the same records are anywhere.
LEMMA TotalsOfPart ==
  ASSUME NEW p, NEW q, NEW n \in Nat, NEW m \in Nat, NEW d \in Nat, n + d <= m,
         NEW v, NEW w, Totals(p, n, v), Totals(q, m, w),
         PartOf(p, q, n, d)
  PROVE  w[n + d] = v[n] + w[d] /\ w[d] \in Nat /\ v[n] \in Nat
<1> DEFINE same == {i \in 0 .. n : w[i + d] = v[i] + w[d]}
<1>1. w[d] \in Nat /\ v[0] = 0 /\ v[n] \in Nat BY DEF Totals
<1>2. 0 \in same BY <1>1
<1>3. ASSUME NEW i \in same, i # n PROVE i + 1 \in same
  <2>1. /\ i \in Nat /\ i + 1 \in 1 .. n /\ i + 1 - 1 = i /\ i + 1 + d \in 1 .. m
        /\ i + 1 + d - 1 = i + d /\ i \in 0 .. n /\ i + d \in 0 .. m
    BY <1>3
  <2>2. v[i + 1] = v[i] + RecordSize[p[i + 1].from]
    <3>1. \A j \in 1 .. n : v[j] = v[j - 1] + RecordSize[p[j].from] BY DEF Totals
    <3> DEFINE j == i + 1
    <3>2. j \in 1 .. n /\ j - 1 = i BY <2>1
    <3> HIDE DEF j
    <3>3. v[j] = v[i] + RecordSize[p[j].from] BY <3>1, <3>2
    <3> QED BY <3>3 DEF j
  <2>3. w[i + 1 + d] = w[i + d] + RecordSize[p[i + 1].from]
    <3>1. w[i + 1 + d] = w[i + 1 + d - 1] + RecordSize[q[i + 1 + d].from]
      BY <2>1 DEF Totals
    <3>2. p[i + 1] = q[i + 1 + d] BY <2>1 DEF PartOf
    <3> QED BY <2>1, <3>1, <3>2
  <2>4. w[i + d] = v[i] + w[d] OBVIOUS
  <2>5. v[i] \in Nat /\ v[i + 1] \in Nat BY <2>1 DEF Totals
  <2> DEFINE r == RecordSize[p[i + 1].from]
  <2>6. r \in Int BY <2>1 DEF PartOf
  <2> HIDE DEF r
  <2>7. w[i + 1 + d] = v[i] + w[d] + r /\ v[i + 1] = v[i] + r BY <2>2, <2>3, <2>4 DEF r
  <2>8. w[i + 1 + d] = v[i + 1] + w[d] BY <1>1, <2>5, <2>6, <2>7
  <2> QED BY <2>1, <2>8
<1> HIDE DEF same
<1>4. same \subseteq 0 .. n BY DEF same
<1>5. n \in same BY <1>2, <1>3, <1>4, UpToLength
<1> QED BY <1>1, <1>5 DEF same

\* A record that is put behind the others adds its size ...
LEMMA CountOfAppend ==
  ASSUME NEW buffer \in Seq(Records), NEW record \in Records
  PROVE  DataCount(Append(buffer, record)) = DataCount(buffer) + RecordSize[record.from]
<1> DEFINE n == Len(buffer)
           longer == Append(buffer, record)
<1>1. /\ n \in Nat /\ longer \in Seq(Records) /\ Len(longer) = n + 1
      /\ longer[n + 1] = record /\ \A i \in 1 .. n : buffer[i] = longer[i + 0]
  OBVIOUS
<1>2. PICK v : Totals(buffer, n, v) /\ DataCount(buffer) = v[n] BY CountIsTotal
<1>3. PICK w : Totals(longer, n + 1, w) /\ DataCount(longer) = w[n + 1]
  BY <1>1, CountIsTotal
<1>4. PartOf(buffer, longer, n, 0) BY <1>1, SizesAreNumbers DEF PartOf
<1> HIDE DEF n, longer
<1>5. /\ 0 \in Nat /\ n + 1 \in Nat /\ n + 0 <= n + 1 /\ n + 0 = n /\ n + 1 - 1 = n
      /\ n + 1 \in 1 .. n + 1
  BY <1>1
<1>6. w[n + 0] = v[n] + w[0] /\ v[n] \in Nat
  BY <1>1, <1>2, <1>3, <1>4, <1>5, TotalsOfPart
<1>7. w[n + 1] = w[n] + RecordSize[record.from] /\ w[0] = 0
  BY <1>1, <1>3, <1>5 DEF Totals
<1>8. w[n] = v[n] BY <1>5, <1>6, <1>7
<1> QED BY <1>2, <1>3, <1>7, <1>8 DEF longer

\* ... and what is left when one is taken is no larger.
LEMMA CountOfTail ==
  ASSUME NEW buffer \in Seq(Records), buffer # <<>>
  PROVE  /\ DataCount(Tail(buffer)) \in Nat /\ DataCount(buffer) \in Nat
         /\ DataCount(Tail(buffer)) <= DataCount(buffer)
<1> DEFINE n == Len(Tail(buffer))
           rest == Tail(buffer)
<1>1. /\ n \in Nat /\ rest \in Seq(Records) /\ Len(rest) = n /\ Len(buffer) = n + 1
      /\ \A i \in 1 .. n : rest[i] = buffer[i + 1]
  OBVIOUS
<1>2. PICK v : Totals(rest, n, v) /\ DataCount(rest) = v[n] BY <1>1, CountIsTotal
<1>3. PICK w : Totals(buffer, n + 1, w) /\ DataCount(buffer) = w[n + 1]
  BY <1>1, CountIsTotal
<1>4. PartOf(rest, buffer, n, 1) BY <1>1, SizesAreNumbers DEF PartOf
<1> HIDE DEF n, rest
<1>5. 1 \in Nat /\ n + 1 \in Nat /\ n + 1 <= n + 1 BY <1>1
<1>6. w[n + 1] = v[n] + w[1] /\ v[n] \in Nat /\ w[1] \in Nat
  BY <1>1, <1>2, <1>3, <1>4, <1>5, TotalsOfPart
<1> QED BY <1>2, <1>3, <1>6 DEF rest

\* An empty buffer has nothing in it.
LEMMA CountOfNothing == DataCount(<<>>) = 0
<1>1. <<>> \in Seq(Records) /\ Len(<<>>) = 0 OBVIOUS
<1>2. PICK v : Totals(<<>>, 0, v) /\ DataCount(<<>>) = v[0] BY <1>1, CountIsTotal
<1> QED BY <1>2 DEF Totals

-----------------------------------------------------------------------------
\* Every scan state is on an allowed channel or on none, and its buffer has records of
\* channels, and no more than its size.
Fits ==
  \A s \in Scans :
    /\ scan[s].current_channel \in AllowedChannels \cup {None}
    /\ scan[s].buffer \in Seq(Records) /\ DataCount(scan[s].buffer) <= BufferSize

\* The sets in which what no other invariant is about stays.
Others ==
  /\ cache \subseteq AccessPoints /\ held \subseteq AccessPoints
  /\ radio \in Channels \cup {None} /\ stray \in BOOLEAN

\* A step that adds nothing to a buffer, and sets no channel.
LEMMA FitsKept ==
  ASSUME Fits, \A s \in Scans : /\ scan'[s].current_channel = scan[s].current_channel
                                /\ scan'[s].buffer = scan[s].buffer
  PROVE  Fits'
  BY DEF Fits

\* An empty buffer fits.
LEMMA NothingFits ==
  /\ FreeScan.current_channel = None /\ FreeScan.buffer = <<>>
  /\ <<>> \in Seq(Records) /\ DataCount(<<>>) <= BufferSize
<1>1. BufferSize \in Nat BY ScanAssumption
<1> QED BY <1>1, CountOfNothing DEF FreeScan

\* u80211_scan and u80211_wait_for_scan_completion.
LEMMA CallerFits ==
  ASSUME Hands, Fits, NEW t \in Callers, CallerStep(t)
  PROVE  Fits'
<1> USE NoneFact DEF Hands, Types, NoneIsNoScan
<1>1. CASE ScanBegin(t)
  <2>1. PICK s \in Scans :
          scan' = [scan EXCEPT ![s] = [FreeScan EXCEPT !.live = TRUE,
                                            !.current_channel = next_channel(0)]]
    BY <1>1 DEF ScanBegin
  <2>2. /\ scan'[s].current_channel = next_channel(0) /\ scan'[s].buffer = <<>>
        /\ \A v \in Scans : v # s => scan'[v] = scan[v]
    BY <2>1 DEF FreeScan
  <2>3. next_channel(0) \in AllowedChannels \cup {None} BY NextChannelType
  <2> QED BY <2>2, <2>3, NothingFits DEF Fits
<1>2. CASE ScanOpens(t)
  <2>1. caller[t].scan \in Scans BY <1>2 DEF ScanOpens, InHand, Starts, StartPlaces
  <2>2. \A s \in Scans : /\ scan'[s].current_channel = scan[s].current_channel
                         /\ scan'[s].buffer = scan[s].buffer
    BY <1>2, <2>1 DEF ScanOpens, OpenReceiving, ScanState
  <2> QED BY <2>2, FitsKept
<1>3. ASSUME UNCHANGED scan PROVE Fits' BY <1>3, FitsKept
<1> QED
  BY <1>1, <1>2, <1>3 DEF CallerStep, CallerProceeds, ScanPublishes, ScanPurges, ScanTunes,
     ScanReturns, WaitBegin, WaitEnd

\* u80211_scan_process_response: what does not fit is not written.
LEMMA ResponseFits ==
  ASSUME Hands, Turns, Visits, Fits, NEW a \in AccessPoints, NEW channel \in 0 .. LastChannel,
         u80211_scan_process_response(a, channel)
  PROVE  Fits'
<1> DEFINE s == scan_context
           current == scan[s].current_channel
           record == [from |-> a, channel |-> IF channel = 0 THEN current ELSE channel]
<1>1. /\ s \in Scans /\ scan[s].receiving /\ HasRoom(scan[s].buffer, a)
      /\ scan' = [scan EXCEPT ![s].buffer = Append(@, record)]
  BY NoneFact DEF u80211_scan_process_response, Hands, Types, ScanOrNone, NoneIsNoScan
<1>2. current \in AllowedChannels
  <2>1. Listens(s) BY <1>1 DEF Turns
  <2>2. Behind(s) BY <2>1 DEF Listens, Behind
  <2> QED BY <1>1, <2>2 DEF Visits
<1>3. record \in Records
  <2>1. current \in Channels BY <1>2, ScanAssumption DEF Channels
  <2>2. channel # 0 => channel \in Channels
    <3>1. LastChannel \in Nat BY ScanAssumption
    <3> QED BY <3>1 DEF Channels
  <2> QED BY <2>1, <2>2 DEF Records
<1>4. record.from = a OBVIOUS
<1> HIDE DEF record
<1>5. /\ scan[s].buffer \in Seq(Records) /\ current \in AllowedChannels \cup {None}
  BY <1>1 DEF Fits
<1> DEFINE buffer == scan[s].buffer
           longer == Append(buffer, record)
<1>6. longer \in Seq(Records) BY <1>3, <1>5
<1>7. DataCount(longer) <= BufferSize
  <2>1. DataCount(longer) = DataCount(buffer) + RecordSize[a]
    BY <1>3, <1>4, <1>5, CountOfAppend
  <2> QED BY <1>1, <2>1 DEF HasRoom
<1>8. /\ scan'[s].buffer = longer /\ scan'[s].current_channel = current
      /\ \A v \in Scans : v # s => scan'[v] = scan[v]
  BY <1>1 DEF Hands, Types, ScanState
<1> HIDE DEF longer
<1> QED BY <1>1, <1>5, <1>6, <1>7, <1>8 DEF Fits

\* scan_work: what is read is no longer there, and the next channel is an allowed one.
LEMMA WorkFits ==
  ASSUME Hands, Fits, NEW s \in Scans, WorkStep(s)
  PROVE  Fits'
<1>1. ASSUME UNCHANGED scan PROVE Fits' BY <1>1, FitsKept
<1>2. CASE WorkCloses(s) \/ WorkOpens(s)
  <2>1. \E b \in BOOLEAN : scan' = [scan EXCEPT ![s].receiving = b]
    BY <1>2 DEF WorkCloses, WorkOpens, OpenReceiving, ReceivingWhileDraining
  <2>2. \A v \in Scans : /\ scan'[v].current_channel = scan[v].current_channel
                         /\ scan'[v].buffer = scan[v].buffer
    BY <2>1 DEF Hands, Types, ScanState
  <2> QED BY <2>2, FitsKept
<1>3. CASE WorkReads(s)
  <2> DEFINE buffer == scan[s].buffer
             rest == Tail(buffer)
  <2>1. /\ buffer # <<>> /\ scan'[s].buffer = rest
        /\ scan'[s].current_channel = scan[s].current_channel
        /\ \A v \in Scans : v # s => scan'[v] = scan[v]
    BY <1>3 DEF WorkReads, Hands, Types, ScanState
  <2>2. buffer \in Seq(Records) /\ DataCount(buffer) <= BufferSize BY DEF Fits
  <2>3. rest \in Seq(Records) BY <2>1, <2>2, TailType
  <2>4. /\ DataCount(rest) \in Nat /\ DataCount(buffer) \in Nat
        /\ DataCount(rest) <= DataCount(buffer)
    BY <2>1, <2>2, CountOfTail
  <2>5. BufferSize \in Nat BY ScanAssumption
  <2> HIDE DEF buffer, rest
  <2>6. DataCount(rest) <= BufferSize BY <2>2, <2>4, <2>5
  <2> QED BY <2>1, <2>3, <2>6 DEF Fits
<1>4. CASE WorkSwitches(s)
  <2>1. /\ scan'[s].buffer = scan[s].buffer
        /\ scan'[s].current_channel = next_channel(scan[s].current_channel)
        /\ \A v \in Scans : v # s => scan'[v] = scan[v]
    BY <1>4 DEF WorkSwitches, Hands, Types, ScanState
  <2>2. next_channel(scan[s].current_channel) \in AllowedChannels \cup {None}
    BY NextChannelType
  <2> QED BY <2>1, <2>2 DEF Fits
<1> QED
  BY <1>1, <1>2, <1>3, <1>4 DEF WorkStep, TimerFires, WorkHasRead, WorkTunes, WorkReturns,
     WorkCompletes, WorkEnqueuesCleanup

\* cleanup_scan.
LEMMA CleanupFits ==
  ASSUME Hands, Fits, CleanupStep
  PROVE  Fits'
<1>1. CASE CleanupDestroys
  <2>1. PICK s \in Scans : scan' = [scan EXCEPT ![s] = FreeScan]
    BY <1>1, NoneFact DEF CleanupDestroys, Hands, Types, ScanOrNone, NoneIsNoScan
  <2>2. scan'[s] = FreeScan /\ \A v \in Scans : v # s => scan'[v] = scan[v]
    BY <2>1 DEF Hands, Types
  <2> QED BY <2>2, NothingFits DEF Fits
<1>2. CASE CleanupFinishes BY <1>2, FitsKept DEF CleanupFinishes
<1> QED BY <1>1, <1>2 DEF CleanupStep

\* What the device listens on is a channel, and what the cache has are access points.
LEMMA OthersStep ==
  ASSUME Hands, Others, [Next]_vars
  PROVE  Others'
<1> USE DEF Others, Hands, Types
<1>1. ASSUME NEW t \in Callers, CallerStep(t) PROVE Others'
  <2>1. CASE ScanTunes(t)
    <3>1. caller[t].scan \in Scans BY <2>1 DEF ScanTunes, InHand, Starts, StartPlaces
    <3>2. scan[caller[t].scan].current_channel \in Channels \cup {None} BY <3>1 DEF ScanState
    <3> QED BY <2>1, <3>2 DEF ScanTunes, set_channel, cacheVars
  <2> QED
    BY <1>1, <2>1 DEF CallerStep, CallerProceeds, ScanBegin, ScanPublishes, ScanPurges, ScanOpens,
       ScanReturns, WaitBegin, WaitEnd, cacheVars, radioVars
<1>2. ASSUME NEW s \in Scans, WorkStep(s) PROVE Others'
  <2>1. CASE WorkTunes(s)
    <3>1. scan[s].current_channel \in Channels \cup {None} BY DEF ScanState
    <3> QED BY <2>1, <3>1 DEF WorkTunes, set_channel, cacheVars
  <2>2. CASE WorkReads(s)
    <3>1. ValidAddresses \subseteq AccessPoints BY ScanAssumption
    <3> QED BY <2>2, <3>1 DEF WorkReads, radioVars
  <2> QED
    BY <1>2, <2>1, <2>2 DEF WorkStep, TimerFires, WorkCloses, WorkHasRead, WorkSwitches, WorkOpens,
       WorkReturns, WorkCompletes, WorkEnqueuesCleanup, cacheVars, radioVars
<1>3. CASE CleanupStep
  BY <1>3 DEF CleanupStep, CleanupDestroys, CleanupFinishes, cacheVars, radioVars
<1>4. CASE EnvironmentStep
  BY <1>4 DEF EnvironmentStep, UserFinds, UserReleases, AttemptBegin, AttemptEnd,
     AssociationTunes, cacheVars, radioVars
<1>5. ASSUME NEW a \in AccessPoints, NEW channel \in 0 .. LastChannel,
             u80211_scan_process_response(a, channel)
      PROVE  Others'
  BY <1>5 DEF u80211_scan_process_response, cacheVars, radioVars
<1>6. CASE UNCHANGED vars BY <1>6 DEF vars, cacheVars, radioVars
<1> QED BY <1>1, <1>2, <1>3, <1>4, <1>5, <1>6 DEF Next

\* Whatever comes, and whatever the sizes, no buffer is written beyond its end, and every
\* variable stays in its set.
THEOREM ScanTypeCorrect == Spec => []TypeOK
<1>1. Init => Fits /\ Others
  <2> SUFFICES ASSUME Init PROVE Fits /\ Others OBVIOUS
  <2>1. \A s \in Scans : scan[s] = FreeScan BY DEF Init
  <2> QED BY <2>1, NothingFits DEF Init, Fits, Others
<1>2. Hands /\ Turns /\ Visits /\ Fits /\ Others /\ [Next]_vars => Fits' /\ Others'
  <2> SUFFICES ASSUME Hands, Turns, Visits, Fits, Others, [Next]_vars PROVE Fits' /\ Others'
    OBVIOUS
  <2>1. CASE Next
    <3>1. CASE EnvironmentStep
      <4>1. scan' = scan
        BY <3>1 DEF EnvironmentStep, UserFinds, UserReleases, AttemptBegin, AttemptEnd,
           AssociationTunes
      <4> QED BY <4>1, FitsKept, OthersStep
    <3> QED
      BY <2>1, <3>1, CallerFits, ResponseFits, WorkFits, CleanupFits, OthersStep DEF Next
  <2>2. CASE UNCHANGED vars
    BY <2>2, FitsKept, OthersStep DEF vars
  <2> QED BY <2>1, <2>2
<1>3. Hands /\ Visits /\ Fits /\ Others => TypeOK
  <2> SUFFICES ASSUME Hands, Visits, Fits, Others PROVE TypeOK OBVIOUS
  <2>1. /\ DOMAIN scan = Scans
        /\ \A s \in Scans : scan[s].live \in BOOLEAN /\ scan[s].receiving \in BOOLEAN
    <3>1. scan \in [Scans -> ScanState] BY DEF Hands, Types
    <3>2. \A s \in Scans : scan[s] \in ScanState BY <3>1
    <3>3. \A r \in ScanState : r.live \in BOOLEAN /\ r.receiving \in BOOLEAN BY DEF ScanState
    <3> QED BY <3>1, <3>2, <3>3
  <2>2. scan_waiters \subseteq Callers BY DEF Hands, WaitersServed
  <2> QED BY <2>1, <2>2 DEF Hands, Types, Visits, Fits, Others, TypeOK
<1> QED
  BY <1>1, <1>2, <1>3, HandsInvariant, TurnsInvariant, VisitsInvariant, PTL DEF Spec

=============================================================================
