---------------------- MODULE AssociationReferenceProofs ----------------------
(***************************************************************************)
(* Proofs about the references to access points: that each is held in one  *)
(* place, and what follows for the attempt in progress.                    *)
(*                                                                         *)
(* The number of holders is a sum of cardinalities.  A step changes each of*)
(* the sets by one element at most, so what is left to prove of a step is  *)
(* an equation between numbers, the hypothesis of Balance.                 *)
(***************************************************************************)
EXTENDS AssociationProofs, FiniteSetTheorems

-----------------------------------------------------------------------------
(***************************************************************************)
(* Counting.                                                               *)
(***************************************************************************)

One(holds) == IF holds THEN 1 ELSE 0

\* Two sets that differ in one element at most.
LEMMA DiffersInOne ==
  ASSUME NEW S, NEW T, NEW x, IsFiniteSet(S), T \ {x} = S \ {x}
  PROVE  /\ IsFiniteSet(T) /\ Cardinality(S) \in Nat /\ Cardinality(T) \in Nat
         /\ Cardinality(T) = Cardinality(S) + One(x \in T) - One(x \in S)
<1>1. Cardinality(S) \in Nat BY FS_CardinalityType
<1>2. CASE x \in T
  <2>1. T = S \cup {x} BY <1>2
  <2>2. IsFiniteSet(T) /\ Cardinality(T) = IF x \in S THEN Cardinality(S) ELSE Cardinality(S) + 1
    BY <2>1, FS_AddElement
  <2> QED BY <1>1, <1>2, <2>2 DEF One
<1>3. CASE x \notin T
  <2>1. T = S \ {x} BY <1>3
  <2>2. IsFiniteSet(T) /\ Cardinality(T) = IF x \in S THEN Cardinality(S) - 1 ELSE Cardinality(S)
    BY <2>1, FS_RemoveElement
  <2>3. Cardinality(T) \in Nat BY <2>2, FS_CardinalityType
  <2> QED BY <1>1, <1>3, <2>2, <2>3 DEF One
<1> QED BY <1>2, <1>3

\* How many of the four places a set has.
LEMMA PlacesCounted ==
  ASSUME NEW S, S \subseteq {"outside", "device", "disconnected", "cleanup"}
  PROVE  /\ IsFiniteSet(S)
         /\ Cardinality(S) = One("outside" \in S) + One("device" \in S)
                               + One("disconnected" \in S) + One("cleanup" \in S)
<1> DEFINE S1 == S \cap {"outside"}
           S2 == S \cap {"outside", "device"}
           S3 == S \cap {"outside", "device", "disconnected"}
<1>1. IsFiniteSet({}) /\ Cardinality({}) = 0 BY FS_EmptySet
<1>2. IsFiniteSet(S1) /\ Cardinality(S1) = One("outside" \in S)
  <2>1. S1 = IF "outside" \in S THEN {"outside"} ELSE {} OBVIOUS
  <2>2. IsFiniteSet({"outside"}) /\ Cardinality({"outside"}) = 1 BY FS_Singleton
  <2> HIDE DEF S1
  <2> QED BY <1>1, <2>1, <2>2 DEF One
<1>3. IsFiniteSet(S2) /\ Cardinality(S2) = Cardinality(S1) + One("device" \in S)
  <2>1. S2 \ {"device"} = S1 \ {"device"} OBVIOUS
  <2>2. ("device" \in S2 <=> "device" \in S) /\ "device" \notin S1 OBVIOUS
  <2> HIDE DEF S1, S2
  <2> QED BY <1>2, <2>1, <2>2, DiffersInOne DEF One
<1>4. IsFiniteSet(S3) /\ Cardinality(S3) = Cardinality(S2) + One("disconnected" \in S)
  <2>1. S3 \ {"disconnected"} = S2 \ {"disconnected"} OBVIOUS
  <2>2. ("disconnected" \in S3 <=> "disconnected" \in S) /\ "disconnected" \notin S2 OBVIOUS
  <2> HIDE DEF S2, S3
  <2> QED BY <1>3, <2>1, <2>2, DiffersInOne DEF One
<1>5. IsFiniteSet(S) /\ Cardinality(S) = Cardinality(S3) + One("cleanup" \in S)
  <2>1. S \ {"cleanup"} = S3 \ {"cleanup"} OBVIOUS
  <2>2. "cleanup" \notin S3 OBVIOUS
  <2> HIDE DEF S3
  <2> QED BY <1>4, <2>1, <2>2, DiffersInOne DEF One
<1> QED BY <1>2, <1>3, <1>4, <1>5

\* How many of the places hold a reference to an access point.
Places(held_outside, by_device, by_disconnected, by_cleanup) ==
  One(held_outside) + One(by_device) + One(by_disconnected) + One(by_cleanup)

LinkHolds(a) == state \in LinkedStates /\ ap = a

\* The places of an access point are counted one by one ...
LEMMA PlaceCount ==
  ASSUME NEW a
  PROVE  Cardinality(PlaceHolders(a))
           = Places(a \in outside, LinkHolds(a), disconnected_ap = a, cleanup.ap = a)
<1>1. PlaceHolders(a) \subseteq {"outside", "device", "disconnected", "cleanup"}
  BY DEF PlaceHolders
<1>2. /\ "outside" \in PlaceHolders(a) <=> a \in outside
      /\ "device" \in PlaceHolders(a) <=> LinkHolds(a)
      /\ "disconnected" \in PlaceHolders(a) <=> disconnected_ap = a
      /\ "cleanup" \in PlaceHolders(a) <=> cleanup.ap = a
  BY DEF PlaceHolders, PlaceHolds, LinkHolds
<1> QED BY <1>1, <1>2, PlacesCounted DEF Places, One

\* ... and after a step.
LEMMA PlaceCountAfter ==
  ASSUME NEW a
  PROVE  Cardinality(PlaceHolders(a)')
           = Places(a \in outside', LinkHolds(a)', disconnected_ap' = a, cleanup'.ap = a)
<1>1. PlaceHolders(a)' \subseteq {"outside", "device", "disconnected", "cleanup"}
  BY DEF PlaceHolders
<1>2. /\ "outside" \in PlaceHolders(a)' <=> a \in outside'
      /\ "device" \in PlaceHolders(a)' <=> LinkHolds(a)'
      /\ "disconnected" \in PlaceHolders(a)' <=> disconnected_ap' = a
      /\ "cleanup" \in PlaceHolders(a)' <=> cleanup'.ap = a
  BY DEF PlaceHolders, PlaceHolds, LinkHolds
<1> QED BY <1>1, <1>2, PlacesCounted DEF Places, One

\* Does a context, or a caller, hold a reference to an access point?
ContextHolds(c, a) == c \in Contexts /\ Alive(c) /\ context[c].ap = a
CallerHolds(t, a) == t \in Callers /\ caller[t].at = "transmit" /\ caller[t].ap = a

\* What ReferencesExact says of one access point.
LEMMA CountedBefore ==
  ASSUME TypeOK, ReferencesExact, NEW a \in AccessPoints
  PROVE  /\ refcount[a] \in Int /\ lost[a] \in Int
         /\ refcount[a] = Cardinality(PlaceHolders(a)) + Cardinality(ContextHolders(a))
                            + Cardinality(CallerHolders(a)) + lost[a]
<1>1. refcount[a] \in Int BY DEF TypeOK, ReferenceTypeOK
<1>2. lost[a] \in Nat BY DEF TypeOK, ReferenceTypeOK
<1> QED BY <1>1, <1>2 DEF ReferencesExact

\* The sum, with the terms that change.
LEMMA SumBalanced ==
  ASSUME NEW n \in Int, NEW n1 \in Int, NEW p \in Int, NEW p1 \in Int, NEW c \in Int, NEW c1 \in Int,
         NEW t \in Int, NEW t1 \in Int, NEW l \in Int, NEW l1 \in Int, NEW dc \in Int, NEW dt \in Int,
         n = p + c + t + l, n1 - n = p1 - p + dc + dt + (l1 - l), c1 = c + dc, t1 = t + dt
  PROVE  n1 = p1 + c1 + t1 + l1
  OBVIOUS

PlacesNow(a) == Places(a \in outside, LinkHolds(a), disconnected_ap = a, cleanup.ap = a)
PlacesNext(a) == Places(a \in outside', LinkHolds(a)', disconnected_ap' = a, cleanup'.ap = a)

\* By how much a step that touches one context and one caller changes the number of
\* references to an access point that are held.
Change(a, c, t) ==
  PlacesNext(a) - PlacesNow(a)
    + (One(ContextHolds(c, a)') - One(ContextHolds(c, a)))
    + (One(CallerHolds(t, a)') - One(CallerHolds(t, a)))
    + (lost'[a] - lost[a])

OtherContextsKeep(c, a) ==
  \A d \in Contexts \ {c} : ContextHolds(d, a)' <=> ContextHolds(d, a)
OtherCallersKeep(t, a) ==
  \A u \in Callers \ {t} : CallerHolds(u, a)' <=> CallerHolds(u, a)

AddsUp(a) ==
  refcount[a] = Cardinality(PlaceHolders(a)) + Cardinality(ContextHolders(a))
                  + Cardinality(CallerHolders(a)) + lost[a]

\* The references to an access point still add up after such a step, if the count
\* changes by as much.
LEMMA Balance ==
  ASSUME TypeOK, ReferencesExact, NEW a \in AccessPoints, NEW c, NEW t,
         OtherContextsKeep(c, a), OtherCallersKeep(t, a),
         lost'[a] \in Int, refcount'[a] \in Int,
         refcount'[a] - refcount[a] = Change(a, c, t)
  PROVE  AddsUp(a)'
<1> DEFINE C == ContextHolders(a)  D == ContextHolders(a)'
           K == CallerHolders(a)   L == CallerHolders(a)'
<1>1. /\ Cardinality(C) \in Nat /\ Cardinality(D) \in Nat
      /\ Cardinality(D) = Cardinality(C) + One(ContextHolds(c, a)') - One(ContextHolds(c, a))
  <2>1. IsFiniteSet(C)
    BY ConstantsAssumption, FS_Subset DEF ContextHolders
  <2>2. D \ {c} = C \ {c} BY DEF ContextHolders, ContextHolds, OtherContextsKeep
  <2>3. /\ c \in C <=> ContextHolds(c, a)
        /\ c \in D <=> ContextHolds(c, a)'
    BY DEF ContextHolders, ContextHolds
  <2> HIDE DEF C, D
  <2> QED BY <2>1, <2>2, <2>3, DiffersInOne DEF One
<1>2. /\ Cardinality(K) \in Nat /\ Cardinality(L) \in Nat
      /\ Cardinality(L) = Cardinality(K) + One(CallerHolds(t, a)') - One(CallerHolds(t, a))
  <2>1. IsFiniteSet(K)
    BY ConstantsAssumption, FS_Subset DEF CallerHolders
  <2>2. L \ {t} = K \ {t} BY DEF CallerHolders, CallerHolds, OtherCallersKeep
  <2>3. /\ t \in K <=> CallerHolds(t, a)
        /\ t \in L <=> CallerHolds(t, a)'
    BY DEF CallerHolders, CallerHolds
  <2> HIDE DEF K, L
  <2> QED BY <2>1, <2>2, <2>3, DiffersInOne DEF One
<1>3. /\ refcount[a] \in Int /\ lost[a] \in Int
      /\ refcount[a] = Cardinality(PlaceHolders(a)) + Cardinality(C) + Cardinality(K) + lost[a]
  BY CountedBefore
<1>4. Cardinality(PlaceHolders(a)) = PlacesNow(a) /\ Cardinality(PlaceHolders(a)') = PlacesNext(a)
  BY PlaceCount, PlaceCountAfter DEF PlacesNow, PlacesNext
<1> DEFINE dc == One(ContextHolds(c, a)') - One(ContextHolds(c, a))
           dt == One(CallerHolds(t, a)') - One(CallerHolds(t, a))
<1>5. PlacesNow(a) \in Int /\ PlacesNext(a) \in Int BY DEF PlacesNow, PlacesNext, Places, One
<1>6. dc \in Int /\ dt \in Int BY DEF One
<1>7. refcount'[a] - refcount[a] = PlacesNext(a) - PlacesNow(a) + dc + dt + (lost'[a] - lost[a])
  BY DEF Change
<1>8. Cardinality(D) = Cardinality(C) + dc /\ Cardinality(L) = Cardinality(K) + dt
  BY <1>1, <1>2 DEF One
<1> HIDE DEF dc, dt
<1>9. refcount'[a] = PlacesNext(a) + Cardinality(D) + Cardinality(L) + lost'[a]
  <2>1. Cardinality(C) \in Int /\ Cardinality(D) \in Int /\ Cardinality(K) \in Int
        /\ Cardinality(L) \in Int
    BY <1>1, <1>2
  <2> QED BY <2>1, <1>3, <1>4, <1>5, <1>6, <1>7, <1>8, SumBalanced
<1> QED BY <1>4, <1>9 DEF D, L, AddsUp

\* An access point that somebody holds a reference to has a positive count.
LEMMA HeldIsCounted ==
  ASSUME TypeOK, ReferencesExact, NEW a \in AccessPoints,
         a \in outside \/ (\E c \in Contexts : ContextHolds(c, a))
  PROVE  refcount[a] > 0
<1>1. /\ IsFiniteSet(ContextHolders(a)) /\ IsFiniteSet(CallerHolders(a))
  BY ConstantsAssumption, FS_Subset DEF ContextHolders, CallerHolders
<1>2. Cardinality(ContextHolders(a)) \in Nat /\ Cardinality(CallerHolders(a)) \in Nat
  BY <1>1, FS_CardinalityType
<1>3. lost[a] \in Nat BY DEF TypeOK, ReferenceTypeOK
<1>4. /\ Cardinality(PlaceHolders(a)) = PlacesNow(a)
      /\ PlacesNow(a) \in Nat /\ (a \in outside => PlacesNow(a) > 0)
  BY PlaceCount DEF PlacesNow, Places, One
<1>5. (\E c \in Contexts : ContextHolds(c, a)) => Cardinality(ContextHolders(a)) > 0
  <2>1. (\E c \in Contexts : ContextHolds(c, a)) => ContextHolders(a) # {}
    BY DEF ContextHolds, ContextHolders
  <2> QED BY <1>1, <1>2, <2>1, FS_EmptySet
<1>6. refcount[a] = Cardinality(PlaceHolders(a)) + Cardinality(ContextHolders(a))
                      + Cardinality(CallerHolders(a)) + lost[a]
  BY CountedBefore
<1> QED BY <1>2, <1>3, <1>4, <1>5, <1>6

-----------------------------------------------------------------------------
(***************************************************************************)
(* The steps.                                                              *)
(***************************************************************************)

\* A step that leaves the contexts alone changes no holder among them ...
LEMMA ContextsKept == ASSUME NEW a, UNCHANGED context PROVE \A c : OtherContextsKeep(c, a)
  BY DEF OtherContextsKeep, ContextHolds, Alive

\* ... and likewise callers.
LEMMA CallersKept == ASSUME NEW a, UNCHANGED caller PROVE \A t : OtherCallersKeep(t, a)
  BY DEF OtherCallersKeep, CallerHolds

\* One less for an access point whose reference is released ...
LEMMA ReleaseCount ==
  ASSUME TypeOK, NEW pointers, ReleaseAll(pointers), NEW a \in AccessPoints
  PROVE  /\ refcount[a] \in Int /\ refcount'[a] \in Int
         /\ refcount'[a] = refcount[a] - (IF a \in pointers THEN 1 ELSE 0)
<1>1. refcount \in [AccessPoints -> Int] BY DEF TypeOK, ReferenceTypeOK
<1> QED BY <1>1 DEF ReleaseAll

\* ... and one more.
LEMMA HoldCount ==
  ASSUME TypeOK, NEW b \in AccessPoints, u80211_ap_hold(b), NEW a \in AccessPoints
  PROVE  /\ refcount[a] \in Int /\ refcount'[a] \in Int
         /\ refcount'[a] = refcount[a] + (IF a = b THEN 1 ELSE 0)
<1>1. refcount \in [AccessPoints -> Int] BY DEF TypeOK, ReferenceTypeOK
<1> QED BY <1>1 DEF u80211_ap_hold

\* When only the places release a reference, the balance is theirs.
LEMMA PlacesChange ==
  ASSUME NEW a, NEW c, NEW t, NEW released,
         refcount[a] \in Int, refcount'[a] = refcount[a] - (IF released THEN 1 ELSE 0),
         lost[a] \in Int, lost'[a] = lost[a],
         ~ContextHolds(c, a), ~ContextHolds(c, a)', ~CallerHolds(t, a), ~CallerHolds(t, a)',
         PlacesNow(a) \in Int, PlacesNext(a) = PlacesNow(a) - (IF released THEN 1 ELSE 0)
  PROVE  refcount'[a] - refcount[a] = Change(a, c, t)
<1>1. /\ One(ContextHolds(c, a)) = 0 /\ One(ContextHolds(c, a)') = 0
      /\ One(CallerHolds(t, a)) = 0 /\ One(CallerHolds(t, a)') = 0
  BY DEF One
<1>2. Change(a, c, t) = PlacesNext(a) - PlacesNow(a) BY <1>1 DEF Change
<1> DEFINE less == IF released THEN 1 ELSE 0
<1>3. less \in Int OBVIOUS
<1>4. refcount'[a] = refcount[a] - less /\ PlacesNext(a) = PlacesNow(a) - less OBVIOUS
<1> HIDE DEF less
<1> QED BY <1>2, <1>3, <1>4

\* A step that moves no reference.
LEMMA QuietStep ==
  ASSUME TypeOK, ReferencesExact,
         UNCHANGED <<refcount, lost, outside, disconnected_ap>>, cleanup'.ap = cleanup.ap,
         \A c \in Contexts : /\ Alive(c)' <=> Alive(c)
                             /\ Alive(c) => context'[c].ap = context[c].ap,
         \A t \in Callers : /\ caller'[t].at = "transmit" <=> caller[t].at = "transmit"
                            /\ caller[t].at = "transmit" => caller'[t].ap = caller[t].ap,
         state' \in LinkedStates <=> state \in LinkedStates,
         state \in LinkedStates => ap' = ap
  PROVE  ReferencesExact'
<1>1. ASSUME NEW a \in AccessPoints
      PROVE  /\ PlaceHolders(a)' = PlaceHolders(a)
             /\ ContextHolders(a)' = ContextHolders(a)
             /\ CallerHolders(a)' = CallerHolders(a)
  BY DEF PlaceHolders, PlaceHolds, ContextHolders, CallerHolders
<1> QED BY <1>1 DEF ReferencesExact

\* Callers of u80211_associate: one releases what it finds in disconnected_ap, one
\* takes a reference for the context that it publishes.
LEMMA AssociateReferences ==
  ASSUME Ownership, ReferencesExact, NEW t \in Callers,
         \/ \E b \in AccessPoints : AssociateEnter(t, b)
         \/ AssociateFail(t) \/ AssociatePublish(t) \/ AssociateReturn(t)
  PROVE  ReferencesExact'
<1>1. TypeOK /\ CallerLocals BY DEF Ownership
<1>2. /\ caller \in [Callers -> CallerRecords] /\ context \in [Contexts -> ContextRecords]
      /\ ap \in APOrNone
  BY <1>1 DEF TypeOK, DeviceTypeOK, ThreadTypeOK, WorkTypeOK
<1>3. ASSUME NEW b \in AccessPoints, AssociateEnter(t, b) PROVE ReferencesExact'
  <2> SUFFICES ASSUME NEW a \in AccessPoints PROVE AddsUp(a)' BY DEF ReferencesExact, AddsUp
  <2>1. /\ refcount[a] \in Int /\ refcount'[a] \in Int
        /\ refcount'[a] = refcount[a] - (IF a \in {disconnected_ap} THEN 1 ELSE 0)
    BY <1>1, <1>3, ReleaseCount DEF AssociateEnter
  <2>2. UNCHANGED lost /\ lost[a] \in Int BY <1>1, <1>3, CountedBefore DEF AssociateEnter
  <2> PICK c : c \notin Contexts BY ConstantsAssumption
  <2>3. OtherContextsKeep(c, a) /\ ~ContextHolds(c, a) /\ ~ContextHolds(c, a)'
    BY <1>3, ContextsKept DEF AssociateEnter, workVars, ContextHolds
  <2>4. OtherCallersKeep(t, a) /\ ~CallerHolds(t, a) /\ ~CallerHolds(t, a)'
    BY <1>2, <1>3 DEF AssociateEnter, IdleCaller, OtherCallersKeep, CallerHolds
  <2>5. /\ PlacesNow(a) \in Int
        /\ PlacesNext(a) = PlacesNow(a) - (IF a \in {disconnected_ap} THEN 1 ELSE 0)
    <3>1. /\ UNCHANGED outside /\ disconnected_ap' # a /\ cleanup'.ap = cleanup.ap
          /\ LinkHolds(a)' <=> LinkHolds(a)
      BY <1>3, ConstantsAssumption DEF AssociateEnter, workVars, linkVars, LinkHolds
    <3> QED BY <3>1 DEF PlacesNext, PlacesNow, Places, One
  <2>6. refcount'[a] - refcount[a] = Change(a, c, t)
    BY <2>1, <2>2, <2>3, <2>4, <2>5, PlacesChange
  <2> QED BY <1>1, <2>1, <2>2, <2>3, <2>4, <2>6, Balance
<1>4. CASE AssociateFail(t)
  BY <1>1, <1>2, <1>4, QuietStep
  DEF AssociateFail, IdleCaller, deviceVars, linkVars, workVars, refVars, Alive
<1>5. CASE AssociateReturn(t)
  BY <1>1, <1>2, <1>5, QuietStep
  DEF AssociateReturn, IdleCaller, deviceVars, linkVars, refVars, Alive
<1>6. CASE AssociatePublish(t)
  <2>1. PICK c \in FreeBlocks :
          /\ context' = [context EXCEPT ![c] = [status |-> "live", ap |-> caller[t].ap,
                                                generation |-> association_generation]]
          /\ caller' = [caller EXCEPT ![t] = [@ EXCEPT !.at = "authenticate", !.context = c]]
    BY <1>6 DEF AssociatePublish
  <2>2. /\ caller[t].at = "associate" /\ caller[t].ap \in AccessPoints
        /\ u80211_ap_hold(caller[t].ap)
        /\ state \notin LinkedStates /\ state' \notin LinkedStates
        /\ UNCHANGED <<lost, outside, disconnected_ap, cleanup>>
    BY <1>1, <1>2, <1>6
    DEF AssociatePublish, u80211_set_device_state, LinkedStates, CallerLocals, CallerRecords,
        APOrNone
  <2> SUFFICES ASSUME NEW a \in AccessPoints PROVE AddsUp(a)' BY DEF ReferencesExact, AddsUp
  <2>3. /\ refcount[a] \in Int /\ refcount'[a] \in Int
        /\ refcount'[a] = refcount[a] + (IF a = caller[t].ap THEN 1 ELSE 0)
    BY <1>1, <2>2, HoldCount
  <2>4. lost[a] \in Int /\ lost'[a] = lost[a] BY <1>1, <2>2, CountedBefore
  <2>5. /\ OtherContextsKeep(c, a) /\ ~ContextHolds(c, a)
        /\ ContextHolds(c, a)' <=> a = caller[t].ap
    BY <1>2, <2>1 DEF FreeBlocks, OtherContextsKeep, ContextHolds, Alive
  <2>6. OtherCallersKeep(t, a) /\ ~CallerHolds(t, a) /\ ~CallerHolds(t, a)'
    BY <1>2, <2>1, <2>2 DEF OtherCallersKeep, CallerHolds, CallerRecords
  <2>7. PlacesNext(a) = PlacesNow(a) /\ PlacesNow(a) \in Int
    BY <2>2 DEF PlacesNext, PlacesNow, Places, One, LinkHolds
  <2>8. refcount'[a] - refcount[a] = Change(a, c, t)
    BY <2>3, <2>4, <2>5, <2>6, <2>7 DEF Change, One
  <2> QED BY <1>1, <2>3, <2>4, <2>5, <2>6, <2>8, Balance
<1> QED BY <1>3, <1>4, <1>5, <1>6

\* The other callers: one that ends a link releases its access point, one that
\* transmits holds it while it does.
LEMMA OtherCallerReferences ==
  ASSUME Ownership, ReferencesExact, NEW t \in Callers,
         \/ DeauthenticateBegin(t) \/ DeauthenticateEnd(t)
         \/ WaitBegin(t) \/ WaitEnd(t)
         \/ TransmitBegin(t) \/ TransmitEnd(t)
  PROVE  ReferencesExact'
<1>1. TypeOK /\ AttemptOwnership BY DEF Ownership
<1>2. caller \in [Callers -> CallerRecords] /\ ap \in APOrNone
  BY <1>1 DEF TypeOK, DeviceTypeOK, ThreadTypeOK
<1>3. CASE DeauthenticateBegin(t)
  BY <1>1, <1>2, <1>3, QuietStep
  DEF DeauthenticateBegin, u80211_set_device_state, LinkedStates, workVars, refVars, Alive,
      CallerRecords
<1>4. CASE WaitBegin(t)
  BY <1>1, <1>2, <1>4, QuietStep
  DEF WaitBegin, deviceVars, linkVars, workVars, refVars, Alive, CallerRecords
<1>5. CASE WaitEnd(t)
  BY <1>1, <1>2, <1>5, QuietStep
  DEF WaitEnd, IdleCaller, deviceVars, linkVars, workVars, refVars, Alive
<1>6. CASE DeauthenticateEnd(t)
  <2>1. /\ caller[t].at = "deauthenticate" /\ caller' = [caller EXCEPT ![t] = IdleCaller]
        /\ UNCHANGED <<context, cleanup, outside, lost, disconnected_ap>>
    BY <1>6 DEF DeauthenticateEnd, workVars
  <2>2. CASE ~(ap # None /\ state = "DEAUTHENTICATING")
    <3>1. UNCHANGED <<state, ap, refcount>> BY <1>6, <2>2 DEF DeauthenticateEnd, linkVars
    <3> QED BY <1>1, <1>2, <2>1, <3>1, QuietStep DEF IdleCaller, Alive
  <2>3. CASE ap # None /\ state = "DEAUTHENTICATING"
    <3>1. ap \in AccessPoints /\ state' = "DOWN" /\ ReleaseAll({ap})
      BY <1>2, <1>6, <2>3 DEF DeauthenticateEnd, APOrNone
    <3> SUFFICES ASSUME NEW a \in AccessPoints PROVE AddsUp(a)' BY DEF ReferencesExact, AddsUp
    <3>2. /\ refcount[a] \in Int /\ refcount'[a] \in Int
          /\ refcount'[a] = refcount[a] - (IF a \in {ap} THEN 1 ELSE 0)
      BY <1>1, <3>1, ReleaseCount
    <3>3. lost[a] \in Int /\ lost'[a] = lost[a] BY <1>1, <2>1, CountedBefore
    <3> PICK c : c \notin Contexts BY ConstantsAssumption
    <3>4. OtherContextsKeep(c, a) /\ ~ContextHolds(c, a) /\ ~ContextHolds(c, a)'
      BY <2>1, ContextsKept DEF ContextHolds
    <3>5. OtherCallersKeep(t, a) /\ ~CallerHolds(t, a) /\ ~CallerHolds(t, a)'
      BY <1>2, <2>1 DEF IdleCaller, OtherCallersKeep, CallerHolds
    <3>6. /\ PlacesNow(a) \in Int
          /\ PlacesNext(a) = PlacesNow(a) - (IF a \in {ap} THEN 1 ELSE 0)
      <4>1. (LinkHolds(a) <=> a = ap) /\ ~LinkHolds(a)'
        BY <2>3, <3>1 DEF LinkHolds, LinkedStates
      <4> QED BY <2>1, <4>1 DEF PlacesNext, PlacesNow, Places, One
    <3>7. refcount'[a] - refcount[a] = Change(a, c, t)
      BY <3>2, <3>3, <3>4, <3>5, <3>6, PlacesChange
    <3> QED BY <1>1, <3>2, <3>3, <3>4, <3>5, <3>7, Balance
  <2> QED BY <2>2, <2>3
<1>7. CASE TransmitBegin(t)
  <2>1. /\ caller[t].at = "idle" /\ ap \in AccessPoints /\ u80211_ap_hold(ap)
        /\ caller' = [caller EXCEPT ![t] = [IdleCaller EXCEPT !.at = "transmit", !.ap = ap]]
        /\ UNCHANGED <<context, cleanup, outside, lost, disconnected_ap, state, ap>>
    BY <1>2, <1>7 DEF TransmitBegin, deviceVars, linkVars, workVars, APOrNone
  <2> SUFFICES ASSUME NEW a \in AccessPoints PROVE AddsUp(a)' BY DEF ReferencesExact, AddsUp
  <2>2. /\ refcount[a] \in Int /\ refcount'[a] \in Int
        /\ refcount'[a] = refcount[a] + (IF a = ap THEN 1 ELSE 0)
    BY <1>1, <2>1, HoldCount
  <2>3. lost[a] \in Int /\ lost'[a] = lost[a] BY <1>1, <2>1, CountedBefore
  <2> PICK c : c \notin Contexts BY ConstantsAssumption
  <2>4. OtherContextsKeep(c, a) /\ ~ContextHolds(c, a) /\ ~ContextHolds(c, a)'
    BY <2>1, ContextsKept DEF ContextHolds
  <2>5. OtherCallersKeep(t, a) /\ ~CallerHolds(t, a) /\ (CallerHolds(t, a)' <=> a = ap)
    BY <1>2, <2>1 DEF IdleCaller, OtherCallersKeep, CallerHolds
  <2>6. PlacesNext(a) = PlacesNow(a) /\ PlacesNow(a) \in Int
    BY <2>1 DEF PlacesNext, PlacesNow, Places, One, LinkHolds
  <2>7. refcount'[a] - refcount[a] = Change(a, c, t)
    <3>1. CASE a = ap BY <2>2, <2>3, <2>4, <2>5, <2>6, <3>1 DEF Change, One
    <3>2. CASE a # ap BY <2>2, <2>3, <2>4, <2>5, <2>6, <3>2 DEF Change, One
    <3> QED BY <3>1, <3>2
  <2> QED BY <1>1, <2>2, <2>3, <2>4, <2>5, <2>7, Balance
<1>8. CASE TransmitEnd(t)
  <2>1. /\ caller[t].at = "transmit" /\ ReleaseAll({caller[t].ap})
        /\ caller' = [caller EXCEPT ![t] = IdleCaller]
        /\ UNCHANGED <<context, cleanup, outside, lost, disconnected_ap, state, ap>>
    BY <1>8 DEF TransmitEnd, deviceVars, linkVars, workVars
  <2> SUFFICES ASSUME NEW a \in AccessPoints PROVE AddsUp(a)' BY DEF ReferencesExact, AddsUp
  <2>2. /\ refcount[a] \in Int /\ refcount'[a] \in Int
        /\ refcount'[a] = refcount[a] - (IF a \in {caller[t].ap} THEN 1 ELSE 0)
    BY <1>1, <2>1, ReleaseCount
  <2>3. lost[a] \in Int /\ lost'[a] = lost[a] BY <1>1, <2>1, CountedBefore
  <2> PICK c : c \notin Contexts BY ConstantsAssumption
  <2>4. OtherContextsKeep(c, a) /\ ~ContextHolds(c, a) /\ ~ContextHolds(c, a)'
    BY <2>1, ContextsKept DEF ContextHolds
  <2>5. OtherCallersKeep(t, a) /\ ~CallerHolds(t, a)' /\ (CallerHolds(t, a) <=> a = caller[t].ap)
    BY <1>2, <2>1 DEF IdleCaller, OtherCallersKeep, CallerHolds
  <2>6. PlacesNext(a) = PlacesNow(a) /\ PlacesNow(a) \in Int
    BY <2>1 DEF PlacesNext, PlacesNow, Places, One, LinkHolds
  <2>7. refcount'[a] - refcount[a] = Change(a, c, t)
    <3>1. CASE a = caller[t].ap BY <2>2, <2>3, <2>4, <2>5, <2>6, <3>1 DEF Change, One
    <3>2. CASE a # caller[t].ap BY <2>2, <2>3, <2>4, <2>5, <2>6, <3>2 DEF Change, One
    <3> QED BY <3>1, <3>2
  <2> QED BY <1>1, <2>2, <2>3, <2>4, <2>5, <2>7, Balance
<1> QED BY <1>3, <1>4, <1>5, <1>6, <1>7, <1>8

\* No set has everything in it.
LEMMA SomethingElse == ASSUME NEW S PROVE \E x : x \notin S
<1> DEFINE x == {y \in S : y \notin y}
<1>1. x \notin S OBVIOUS
<1> QED BY <1>1

\* A step in which only the four places, and what is lost, change hands.
LEMMA PlacesMove ==
  ASSUME TypeOK, ReferencesExact, NEW a \in AccessPoints,
         ContextHolders(a)' = ContextHolders(a), CallerHolders(a)' = CallerHolders(a),
         lost'[a] \in Int, refcount'[a] \in Int,
         refcount'[a] - refcount[a] = PlacesNext(a) - PlacesNow(a) + (lost'[a] - lost[a])
  PROVE  AddsUp(a)'
<1> DEFINE c == Cardinality(ContextHolders(a))
           t == Cardinality(CallerHolders(a))
<1>1. c \in Int /\ t \in Int
  <2>1. IsFiniteSet(ContextHolders(a)) BY ConstantsAssumption, FS_Subset DEF ContextHolders
  <2>2. IsFiniteSet(CallerHolders(a)) BY ConstantsAssumption, FS_Subset DEF CallerHolders
  <2> QED BY <2>1, <2>2, FS_CardinalityType
<1>2. /\ refcount[a] \in Int /\ lost[a] \in Int
      /\ refcount[a] = Cardinality(PlaceHolders(a)) + c + t + lost[a]
  BY CountedBefore
<1>3. Cardinality(PlaceHolders(a)) = PlacesNow(a) /\ Cardinality(PlaceHolders(a)') = PlacesNext(a)
  BY PlaceCount, PlaceCountAfter DEF PlacesNow, PlacesNext
<1>4. PlacesNow(a) \in Int /\ PlacesNext(a) \in Int BY DEF PlacesNow, PlacesNext, Places, One
<1>5. Cardinality(ContextHolders(a)') = c /\ Cardinality(CallerHolders(a)') = t OBVIOUS
<1> HIDE DEF c, t
<1>6. refcount'[a] = PlacesNext(a) + c + t + lost'[a] BY <1>1, <1>2, <1>3, <1>4
<1> QED BY <1>3, <1>5, <1>6 DEF AddsUp

\* An answer that establishes a link takes a reference for it.
LEMMA AcceptedReferences ==
  ASSUME Ownership, ReferencesExact, NEW r \in Receivers, ProcessAssociation(r)
  PROVE  ReferencesExact'
<1> DEFINE frame == receiver[r].frame
<1>1. TypeOK /\ AttemptOwnership BY DEF Ownership
<1>2. UNCHANGED <<disconnected_ap, context, cleanup, caller, outside, lost>>
  BY DEF ProcessAssociation, workVars
<1>3. CASE AssociationIgnored(r, frame)
  BY <1>1, <1>2, <1>3, QuietStep DEF AssociationIgnored, linkVars, Alive
<1>4. CASE AssociationRefused(r, frame)
  BY <1>1, <1>2, <1>4, QuietStep
  DEF AssociationRefused, ResponseMatches, LinkedStates, Alive
<1>5. CASE AssociationAccepted(r, frame)
  <2>1. /\ ap \in AccessPoints /\ u80211_ap_hold(ap) /\ ap' = ap
        /\ state \notin LinkedStates /\ state' \in LinkedStates
    <3>1. ap \in APOrNone BY <1>1 DEF TypeOK, DeviceTypeOK
    <3> QED BY <1>5, <3>1 DEF AssociationAccepted, ResponseMatches, LinkedStates, APOrNone
  <2> SUFFICES ASSUME NEW a \in AccessPoints PROVE AddsUp(a)' BY DEF ReferencesExact, AddsUp
  <2>2. /\ refcount[a] \in Int /\ refcount'[a] \in Int
        /\ refcount'[a] = refcount[a] + (IF a = ap THEN 1 ELSE 0)
    BY <1>1, <2>1, HoldCount
  <2>3. lost[a] \in Int /\ lost'[a] = lost[a] BY <1>1, <1>2, CountedBefore
  <2>4. ContextHolders(a)' = ContextHolders(a) /\ CallerHolders(a)' = CallerHolders(a)
    BY <1>2 DEF ContextHolders, CallerHolders, Alive
  <2>5. /\ PlacesNow(a) \in Int
        /\ PlacesNext(a) = PlacesNow(a) + (IF a = ap THEN 1 ELSE 0)
    <3>1. ~LinkHolds(a) /\ (LinkHolds(a)' <=> a = ap) BY <2>1 DEF LinkHolds
    <3> QED BY <1>2, <3>1 DEF PlacesNext, PlacesNow, Places, One
  <2>6. refcount'[a] - refcount[a] = PlacesNext(a) - PlacesNow(a) + (lost'[a] - lost[a])
    BY <2>2, <2>3, <2>5
  <2> QED BY <1>1, <2>2, <2>3, <2>4, <2>6, PlacesMove
<1> QED BY <1>3, <1>4, <1>5 DEF ProcessAssociation

\* A link that the access point ends leaves its reference to the cleanup work, and
\* whatever reference was left there is lost.
LEMMA TeardownReferences ==
  ASSUME Ownership, ReferencesExact, NEW r \in Receivers, NEW address \in AccessPoints,
         NEW deauthentication \in BOOLEAN,
         association_process_teardown(r, address, deauthentication)
  PROVE  ReferencesExact'
<1>1. TypeOK BY DEF Ownership
<1>2. /\ UNCHANGED <<context, cleanup, caller, refcount, outside>>
      /\ state' = "DOWN" /\ ap = address
  BY DEF association_process_teardown, workVars
<1>3. CASE TeardownAttempt(deauthentication)
  BY <1>1, <1>2, <1>3, QuietStep DEF TeardownAttempt, AttemptStates, LinkedStates, Alive
<1>4. CASE TeardownLink
  <2> SUFFICES ASSUME NEW a \in AccessPoints PROVE AddsUp(a)' BY DEF ReferencesExact, AddsUp
  <2>1. refcount[a] \in Int /\ refcount'[a] = refcount[a] /\ lost[a] \in Int
    BY <1>1, <1>2, CountedBefore
  <2>2. lost'[a] = lost[a] + (IF a = disconnected_ap THEN 1 ELSE 0)
    BY <1>4, <2>1 DEF TeardownLink
  <2>3. ContextHolders(a)' = ContextHolders(a) /\ CallerHolders(a)' = CallerHolders(a)
    BY <1>2 DEF ContextHolders, CallerHolders, Alive
  <2>4. /\ PlacesNow(a) \in Int
        /\ PlacesNext(a) = PlacesNow(a) - (IF a = disconnected_ap THEN 1 ELSE 0)
    <3>1. /\ (LinkHolds(a) <=> a = address) /\ ~LinkHolds(a)'
          /\ disconnected_ap' = address
      BY <1>2, <1>4 DEF TeardownLink, LinkHolds, LinkedStates
    <3>2. CASE a = address BY <1>2, <3>1, <3>2 DEF PlacesNext, PlacesNow, Places, One
    <3>3. CASE a # address BY <1>2, <3>1, <3>3 DEF PlacesNext, PlacesNow, Places, One
    <3> QED BY <3>2, <3>3
  <2>5. refcount'[a] - refcount[a] = PlacesNext(a) - PlacesNow(a) + (lost'[a] - lost[a])
    BY <2>1, <2>2, <2>4
  <2> QED BY <1>1, <2>1, <2>2, <2>3, <2>5, PlacesMove
<1> QED BY <1>3, <1>4 DEF association_process_teardown

\* The cleanup work takes the reference of an ended link, and releases it last; in
\* between it releases that of the context, whole until then.
LEMMA CleanupReferences ==
  ASSUME Ownership, Service, Custody, Accounts, CleanupStep
  PROVE  ReferencesExact'
<1>1. /\ TypeOK /\ CleanupLocals /\ WaitersServed /\ ContextStages
      /\ ReferencesExact /\ AccessPointLocals
  BY DEF Ownership, Service, Custody, Accounts
<1>2. /\ caller \in [Callers -> CallerRecords] /\ context \in [Contexts -> ContextRecords]
      /\ cleanup \in CleanupRecords
  BY <1>1 DEF TypeOK, ThreadTypeOK, WorkTypeOK
<1>3. CASE CleanupTakes
  <2>1. /\ UNCHANGED <<context, caller, refcount, lost, outside, state, ap>>
        /\ cleanup.ap = None /\ cleanup'.ap = disconnected_ap /\ disconnected_ap' = None
    BY <1>1, <1>3 DEF CleanupTakes, DisconnectedLeft, AccessPointLocals, linkVars, threadVars, refVars
  <2> SUFFICES ASSUME NEW a \in AccessPoints PROVE AddsUp(a)' BY DEF ReferencesExact, AddsUp
  <2>2. refcount[a] \in Int /\ lost[a] \in Int BY <1>1, CountedBefore
  <2>3. ContextHolders(a)' = ContextHolders(a) /\ CallerHolders(a)' = CallerHolders(a)
    BY <2>1 DEF ContextHolders, CallerHolders, Alive
  <2>4. PlacesNext(a) = PlacesNow(a) /\ PlacesNow(a) \in Int
    BY <2>1, ConstantsAssumption DEF PlacesNext, PlacesNow, Places, One, LinkHolds
  <2>5. refcount'[a] - refcount[a] = PlacesNext(a) - PlacesNow(a) + (lost'[a] - lost[a])
    BY <2>1, <2>2, <2>4
  <2> QED BY <1>1, <2>1, <2>2, <2>3, <2>5, PlacesMove
<1>4. CASE CleanupReleases
  <2>1. cleanup.context \in Contexts /\ Alive(cleanup.context)
    BY <1>1, <1>2, <1>4 DEF CleanupReleases, CleanupLocals, ContextStages, CleanupRecords,
       ContextOrNone
  <2> PICK d \in Contexts : d = cleanup.context BY <2>1
  <2>2. /\ context' = [context EXCEPT ![d].status = "closing"]
        /\ cleanup'.ap = cleanup.ap /\ ReleaseAll({context[d].ap})
        /\ UNCHANGED <<disconnected_ap, caller, lost, outside, state, ap>>
    BY <1>2, <1>4 DEF CleanupReleases, CleanupRecords, deviceVars, linkVars, threadVars
  <2> SUFFICES ASSUME NEW a \in AccessPoints PROVE AddsUp(a)' BY DEF ReferencesExact, AddsUp
  <2>3. /\ refcount[a] \in Int /\ refcount'[a] \in Int
        /\ refcount'[a] = refcount[a] - (IF a \in {context[d].ap} THEN 1 ELSE 0)
    BY <1>1, <2>2, ReleaseCount
  <2>4. lost[a] \in Int /\ lost'[a] = lost[a] BY <1>1, <2>2, CountedBefore
  <2> PICK t : t \notin Callers BY SomethingElse
  <2>5. /\ OtherContextsKeep(d, a) /\ (ContextHolds(d, a) <=> a = context[d].ap)
        /\ ~ContextHolds(d, a)'
    BY <1>2, <2>1, <2>2 DEF OtherContextsKeep, ContextHolds, Alive
  <2>6. OtherCallersKeep(t, a) /\ ~CallerHolds(t, a) /\ ~CallerHolds(t, a)'
    BY <2>2, CallersKept DEF CallerHolds
  <2>7. PlacesNext(a) = PlacesNow(a) /\ PlacesNow(a) \in Int
    BY <2>2 DEF PlacesNext, PlacesNow, Places, One, LinkHolds
  <2>8. refcount'[a] - refcount[a] = Change(a, d, t)
    <3>1. CASE a = context[d].ap BY <2>3, <2>4, <2>5, <2>6, <2>7, <3>1 DEF Change, One
    <3>2. CASE a # context[d].ap BY <2>3, <2>4, <2>5, <2>6, <2>7, <3>2 DEF Change, One
    <3> QED BY <3>1, <3>2
  <2> QED BY <1>1, <2>3, <2>4, <2>5, <2>6, <2>8, Balance
<1>5. CASE CleanupDestroys
  <2>1. /\ UNCHANGED <<refcount, lost, outside, disconnected_ap, caller, state, ap>>
        /\ cleanup'.ap = cleanup.ap
    BY <1>2, <1>5 DEF CleanupDestroys, CleanupRecords, deviceVars, linkVars, threadVars, refVars
  <2>2. \A c \in Contexts : /\ Alive(c)' <=> Alive(c)
                            /\ Alive(c) => context'[c].ap = context[c].ap
    BY <1>1, <1>2, <1>5 DEF CleanupDestroys, ContextStages, FreeContext, Alive
  <2> QED BY <1>1, <2>1, <2>2, QuietStep
<1>6. CASE CleanupFinishes
  <2>1. /\ ReleaseAll({cleanup.ap}) /\ cleanup'.ap = None
        /\ UNCHANGED <<context, disconnected_ap, lost, outside, state, ap>>
    BY <1>2, <1>6 DEF CleanupFinishes, CleanupRecords, linkVars
  <2>2. \A t \in Callers : caller'[t] = caller[t] \/ (caller[t].at = "waiting"
                                                      /\ caller'[t].at = "woken")
    BY <1>1, <1>2, <1>6 DEF CleanupFinishes, wake_association_waiters, WokenWaiters, WaitersServed,
       IdleCaller
  <2> SUFFICES ASSUME NEW a \in AccessPoints PROVE AddsUp(a)' BY DEF ReferencesExact, AddsUp
  <2>3. /\ refcount[a] \in Int /\ refcount'[a] \in Int
        /\ refcount'[a] = refcount[a] - (IF a \in {cleanup.ap} THEN 1 ELSE 0)
    BY <1>1, <2>1, ReleaseCount
  <2>4. lost[a] \in Int /\ lost'[a] = lost[a] BY <1>1, <2>1, CountedBefore
  <2>5. ContextHolders(a)' = ContextHolders(a) /\ CallerHolders(a)' = CallerHolders(a)
    BY <2>1, <2>2 DEF ContextHolders, CallerHolders, Alive
  <2>6. /\ PlacesNow(a) \in Int
        /\ PlacesNext(a) = PlacesNow(a) - (IF a \in {cleanup.ap} THEN 1 ELSE 0)
    BY <2>1, ConstantsAssumption DEF PlacesNext, PlacesNow, Places, One, LinkHolds
  <2>7. refcount'[a] - refcount[a] = PlacesNext(a) - PlacesNow(a) + (lost'[a] - lost[a])
    BY <2>3, <2>4, <2>6
  <2> QED BY <1>1, <2>3, <2>4, <2>5, <2>7, PlacesMove
<1> QED BY <1>3, <1>4, <1>5, <1>6 DEF CleanupStep

\* The references held outside: one is dropped where there is one, and found again
\* where there is none.
LEMMA OutsideReferences ==
  ASSUME TypeOK, ReferencesExact, NEW b \in AccessPoints, OutsideReleases(b) \/ OutsideFinds(b)
  PROVE  ReferencesExact'
<1>1. UNCHANGED <<context, cleanup, caller, disconnected_ap, lost, state, ap>>
  BY DEF OutsideReleases, OutsideFinds, deviceVars, linkVars, workVars, threadVars
<1> SUFFICES ASSUME NEW a \in AccessPoints PROVE AddsUp(a)' BY DEF ReferencesExact, AddsUp
<1>2. lost[a] \in Int /\ lost'[a] = lost[a] BY <1>1, CountedBefore
<1>3. ContextHolders(a)' = ContextHolders(a) /\ CallerHolders(a)' = CallerHolders(a)
  BY <1>1 DEF ContextHolders, CallerHolders, Alive
<1>4. PlacesNow(a) \in Int BY DEF PlacesNow, Places, One
<1>5. CASE OutsideReleases(b)
  <2>1. /\ refcount[a] \in Int /\ refcount'[a] \in Int
        /\ refcount'[a] = refcount[a] - (IF a \in {b} THEN 1 ELSE 0)
    BY <1>5, ReleaseCount DEF OutsideReleases
  <2>2. PlacesNext(a) = PlacesNow(a) - (IF a \in {b} THEN 1 ELSE 0)
    BY <1>1, <1>5 DEF OutsideReleases, PlacesNext, PlacesNow, Places, One, LinkHolds
  <2>3. refcount'[a] - refcount[a] = PlacesNext(a) - PlacesNow(a) + (lost'[a] - lost[a])
    BY <1>2, <1>4, <2>1, <2>2
  <2> QED BY <1>2, <1>3, <2>1, <2>3, PlacesMove
<1>6. CASE OutsideFinds(b)
  <2>1. /\ refcount[a] \in Int /\ refcount'[a] \in Int
        /\ refcount'[a] = refcount[a] + (IF a = b THEN 1 ELSE 0)
    BY <1>6, HoldCount DEF OutsideFinds
  <2>2. b \notin outside BY <1>6, HeldIsCounted DEF OutsideFinds
  <2>3. PlacesNext(a) = PlacesNow(a) + (IF a = b THEN 1 ELSE 0)
    BY <1>1, <1>6, <2>2 DEF OutsideFinds, PlacesNext, PlacesNow, Places, One, LinkHolds
  <2>4. refcount'[a] - refcount[a] = PlacesNext(a) - PlacesNow(a) + (lost'[a] - lost[a])
    BY <1>2, <1>4, <2>1, <2>3
  <2> QED BY <1>2, <1>3, <2>1, <2>4, PlacesMove
<1> QED BY <1>5, <1>6

\* No step drops a reference without releasing it, or releases one that it does not
\* hold, except for the one that is overwritten.
LEMMA ReferencesStep ==
  Ownership /\ Service /\ Custody /\ Accounts /\ [Next]_vars => ReferencesExact'
<1> SUFFICES ASSUME Ownership, Service, Custody, Accounts, [Next]_vars PROVE ReferencesExact'
  OBVIOUS
<1>1. TypeOK /\ AttemptOwnership /\ ReferencesExact BY DEF Ownership, Accounts
<1>2. cleanup \in CleanupRecords BY <1>1 DEF TypeOK, WorkTypeOK
<1>3. EnqueueCleanup => cleanup'.ap = cleanup.ap BY <1>2 DEF EnqueueCleanup, CleanupRecords
<1>4. ASSUME UNCHANGED <<refcount, lost, outside, disconnected_ap, context, caller>>,
             cleanup'.ap = cleanup.ap,
             state' \in LinkedStates <=> state \in LinkedStates,
             state \in LinkedStates => ap' = ap
      PROVE  ReferencesExact'
  BY <1>1, <1>4, QuietStep DEF Alive
<1>5. ASSUME NEW t \in Callers, CallerStep(t) PROVE ReferencesExact'
  BY <1>1, <1>5, AssociateReferences, OtherCallerReferences DEF CallerStep, CallerProceeds
<1>6. ASSUME NEW r \in Receivers, ReceiverStep(r) PROVE ReferencesExact'
  <2>1. CASE ProcessAuthentication(r)
    BY <1>4, <2>1
    DEF ProcessAuthentication, AuthenticationRefused, AuthenticationAccepted,
        AuthenticationIgnored, u80211_set_device_state, LinkedStates, linkVars, refVars
  <2>2. CASE ProcessAssociation(r)
    BY <1>1, <2>2, AcceptedReferences
  <2>3. ASSUME NEW address \in AccessPoints, NEW deauthentication \in BOOLEAN,
               association_process_teardown(r, address, deauthentication)
        PROVE  ReferencesExact'
    BY <1>1, <2>3, TeardownReferences
  <2>4. CASE \/ ReceiverEnqueuesCleanup(r)
             \/ \E sequence_control \in SequenceControls, retry \in BOOLEAN :
                  \/ \E frame \in Frames : ReceiveResponse(r, frame, sequence_control, retry)
                  \/ \E from \in AccessPoints : ReceiveData(r, from, sequence_control, retry)
    BY <1>3, <1>4, <2>4
    DEF ReceiverEnqueuesCleanup, ReceiveResponse, ReceiveData, deviceVars, linkVars, workVars,
        threadVars, refVars
  <2> QED BY <1>6, <2>1, <2>2, <2>3, <2>4 DEF ReceiverStep, ReceiverProceeds
<1>7. ASSUME NEW c \in Contexts, NEW s \in AttemptStates, TimeoutStep(c, s)
      PROVE  ReferencesExact'
  <2>1. CASE association_timeout(c, s)
    <3>1. UNCHANGED <<refcount, lost, outside, disconnected_ap, context, caller, cleanup>>
      BY <2>1 DEF association_timeout, threadVars, refVars
    <3>2. CASE TimeoutApplies(c, s)
      BY <1>4, <2>1, <3>1, <3>2
      DEF association_timeout, TimeoutApplies, AttemptStates, LinkedStates
    <3>3. CASE ~TimeoutApplies(c, s)
      BY <1>4, <2>1, <3>1, <3>3 DEF association_timeout, linkVars
    <3> QED BY <3>2, <3>3
  <2>2. CASE TimerFires(c, s) \/ TimeoutEnqueuesCleanup(c, s)
    BY <1>3, <1>4, <2>2
    DEF TimerFires, TimeoutEnqueuesCleanup, deviceVars, linkVars, threadVars, refVars
  <2> QED BY <1>7, <2>1, <2>2 DEF TimeoutStep
<1>8. ASSUME NEW c \in Contexts, CompletionStep(c) PROVE ReferencesExact'
  BY <1>4, <1>8
  DEF CompletionStep, CompletionBegin, CompletionEnd, deviceVars, linkVars, threadVars, refVars
<1>9. CASE CleanupStep
  BY <1>9, CleanupReferences
<1>10. CASE EnvironmentStep
  <2>1. CASE ScanBegin \/ ScanEnd
    BY <1>4, <2>1
    DEF ScanBegin, ScanEnd, Scan, u80211_set_device_state, LinkedStates, workVars, threadVars,
        refVars
  <2> QED BY <1>1, <1>10, <2>1, OutsideReferences DEF EnvironmentStep
<1>11. CASE UNCHANGED vars
  BY <1>4, <1>11 DEF vars, deviceVars, linkVars, workVars, threadVars, refVars
<1> QED BY <1>5, <1>6, <1>7, <1>8, <1>9, <1>10, <1>11 DEF Next, Halted

\* What a step may do to the request of a context, as seen from the device.
CompletionMove(c) ==
  \/ completion'[c].at # "sending"
  \/ completion'[c] = [at |-> "sending", ap |-> ap] /\ UNCHANGED <<association_context, ap>>
  \/ /\ completion'[c] = completion[c]
     /\ \/ UNCHANGED <<association_context, ap>>
        \/ association_context' = None
        \/ completion[c].at = "idle"

\* A request is built for the access point that the device has, and the device gives
\* up its context with its access point.
LEMMA CompletionMoves ==
  ASSUME Ownership, Custody, [Next]_vars, NEW c \in Contexts
  PROVE  CompletionMove(c)
<1>1. /\ AttemptOwnership /\ WorksOwned
      /\ completion \in [Contexts -> CompletionRecords] /\ context \in [Contexts -> ContextRecords]
  BY DEF Ownership, Custody, TypeOK, WorkTypeOK
<1>2. CASE UNCHANGED <<completion, association_context, ap>>
  BY <1>2 DEF CompletionMove
<1>3. CASE UNCHANGED completion /\ association_context' = None
  BY <1>3 DEF CompletionMove
<1>4. ASSUME NEW t \in Callers, CallerStep(t) PROVE CompletionMove(c)
  <2>1. CASE AssociatePublish(t)
    <3>1. UNCHANGED completion BY <2>1 DEF AssociatePublish
    <3>2. PICK d \in FreeBlocks : association_context' = d BY <2>1 DEF AssociatePublish
    <3>3. context[d].status = "free" BY <3>2 DEF FreeBlocks
    <3>4. CASE completion[c].at = "idle" BY <3>1, <3>4 DEF CompletionMove
    <3>5. CASE completion[c].at # "idle"
      <4>1. c \in {association_context, association_cleanup_context}
        BY <1>1, <3>5 DEF WorksOwned
      <4>2. c = None
        BY <1>1, <2>1, <4>1
        DEF AssociatePublish, NotBusy, u80211_set_device_state, AttemptOwnership, AttemptStates
      <4> QED BY <4>2, ConstantsAssumption
    <3> QED BY <3>4, <3>5
  <2>2. CASE DeauthenticateEnd(t)
    <3>1. UNCHANGED <<completion, association_context>> BY <2>2 DEF DeauthenticateEnd, workVars
    <3>2. CASE UNCHANGED ap BY <1>2, <3>1, <3>2
    <3>3. CASE ~UNCHANGED ap
      <4>1. association_context = None
        BY <1>1, <2>2, <3>3 DEF DeauthenticateEnd, linkVars, AttemptOwnership, AttemptStates
      <4> QED BY <1>3, <3>1, <4>1
    <3> QED BY <3>2, <3>3
  <2>3. CASE ~(AssociatePublish(t) \/ DeauthenticateEnd(t))
    BY <1>2, <1>4, <2>3
    DEF CallerStep, CallerProceeds, AssociateEnter, AssociateFail, AssociateReturn,
        DeauthenticateBegin, WaitBegin, WaitEnd, TransmitBegin, TransmitEnd, deviceVars,
        linkVars, attemptVars, workVars
  <2> QED BY <2>1, <2>2, <2>3
<1>5. ASSUME NEW r \in Receivers, ReceiverStep(r) PROVE CompletionMove(c)
  <2>1. CASE ProcessAuthentication(r)
    <3>1. CASE AuthenticationAccepted(r, receiver[r].frame)
      <4>1. UNCHANGED <<ap, association_context>>
        BY <3>1 DEF AuthenticationAccepted, attemptVars
      <4>2. completion'[c] = completion[c] \/ completion'[c].at # "sending"
        BY <1>1, <3>1 DEF AuthenticationAccepted, CompletionRecords
      <4> QED BY <4>1, <4>2 DEF CompletionMove
    <3>2. CASE ~AuthenticationAccepted(r, receiver[r].frame)
      BY <1>2, <1>3, <2>1, <3>2
      DEF ProcessAuthentication, AuthenticationRefused, AuthenticationIgnored, EndAttempt,
          schedule_association_cleanup, linkVars, attemptVars
    <3> QED BY <3>1, <3>2
  <2>2. CASE ProcessAssociation(r)
    BY <1>2, <1>3, <2>2
    DEF ProcessAssociation, AssociationRefused, AssociationAccepted, AssociationIgnored,
        EndAttempt, schedule_association_cleanup, linkVars, attemptVars, workVars
  <2>3. ASSUME NEW address \in AccessPoints, NEW deauthentication \in BOOLEAN,
               association_process_teardown(r, address, deauthentication)
        PROVE  CompletionMove(c)
    <3>1. UNCHANGED completion BY <2>3 DEF association_process_teardown, workVars
    <3>2. association_context' = None
      BY <1>1, <2>3
      DEF association_process_teardown, TeardownAttempt, TeardownLink, EndAttempt,
          schedule_association_cleanup, AttemptOwnership, AttemptStates
    <3> QED BY <1>3, <3>1, <3>2
  <2>4. CASE \/ ReceiverEnqueuesCleanup(r)
             \/ \E sequence_control \in SequenceControls, retry \in BOOLEAN :
                  \/ \E frame \in Frames : ReceiveResponse(r, frame, sequence_control, retry)
                  \/ \E from \in AccessPoints : ReceiveData(r, from, sequence_control, retry)
    BY <1>2, <2>4
    DEF ReceiverEnqueuesCleanup, ReceiveResponse, ReceiveData, deviceVars, linkVars,
        attemptVars, workVars
  <2> QED BY <1>5, <2>1, <2>2, <2>3, <2>4 DEF ReceiverStep, ReceiverProceeds
<1>6. ASSUME NEW d \in Contexts, NEW s \in AttemptStates, TimeoutStep(d, s)
      PROVE  CompletionMove(c)
  BY <1>2, <1>3, <1>6
  DEF TimeoutStep, TimerFires, TimeoutEnqueuesCleanup, association_timeout, EndAttempt,
      schedule_association_cleanup, deviceVars, linkVars, attemptVars
<1>7. ASSUME NEW d \in Contexts, CompletionStep(d) PROVE CompletionMove(c)
  <2>1. UNCHANGED <<association_context, ap>>
    BY <1>7
    DEF CompletionStep, CompletionBegin, CompletionEnd, deviceVars, linkVars, attemptVars
  <2>2. \/ completion'[c] = completion[c] \/ completion'[c] = IdleCompletion
        \/ completion'[c] = [at |-> "sending", ap |-> ap]
    BY <1>1, <1>7 DEF CompletionStep, CompletionBegin, CompletionEnd
  <2> QED BY <2>1, <2>2 DEF CompletionMove, IdleCompletion
<1>8. CASE CleanupStep
  <2>1. UNCHANGED <<association_context, ap>>
    BY <1>8
    DEF CleanupStep, CleanupTakes, CleanupReleases, CleanupDestroys, CleanupFinishes,
        deviceVars, linkVars, attemptVars
  <2>2. completion'[c] = completion[c] \/ completion'[c] = IdleCompletion
    BY <1>1, <1>8
    DEF CleanupStep, CleanupTakes, CleanupReleases, CleanupDestroys, CleanupFinishes
  <2> QED BY <2>1, <2>2 DEF CompletionMove, IdleCompletion
<1>9. CASE EnvironmentStep \/ UNCHANGED vars
  BY <1>2, <1>9
  DEF EnvironmentStep, ScanBegin, ScanEnd, Scan, OutsideReleases, OutsideFinds, vars,
      deviceVars, linkVars, attemptVars, workVars
<1> QED BY <1>4, <1>5, <1>6, <1>7, <1>8, <1>9 DEF Next, Halted

\* The cleanup work that is over holds no access point.
LEMMA CleanupEmptyHanded ==
  ASSUME Ownership, AccessPointLocals, [Next]_vars
  PROVE  cleanup'.at = "idle" => cleanup'.ap = None
<1>1. cleanup \in CleanupRecords BY DEF Ownership, TypeOK, WorkTypeOK
<1>2. CASE UNCHANGED cleanup \/ EnqueueCleanup
  BY <1>1, <1>2 DEF EnqueueCleanup, CleanupRecords, AccessPointLocals
<1>3. CASE CleanupStep
  <2>1. CASE CleanupTakes
    BY <2>1 DEF CleanupTakes
  <2>2. CASE CleanupReleases
    BY <1>1, <2>2 DEF CleanupReleases, CleanupRecords
  <2>3. CASE CleanupDestroys
    BY <1>1, <2>3 DEF CleanupDestroys, CleanupRecords
  <2>4. CASE CleanupFinishes
    BY <1>1, <2>4 DEF CleanupFinishes, CleanupRecords
  <2> QED BY <1>3, <2>1, <2>2, <2>3, <2>4 DEF CleanupStep
<1>4. ASSUME ~CleanupStep PROVE UNCHANGED cleanup \/ EnqueueCleanup
  <2>1. ASSUME NEW t \in Callers, CallerStep(t) PROVE UNCHANGED cleanup
    BY <2>1
    DEF CallerStep, CallerProceeds, AssociateEnter, AssociateFail, AssociatePublish,
        AssociateReturn, DeauthenticateBegin, DeauthenticateEnd, WaitBegin, WaitEnd,
        TransmitBegin, TransmitEnd, workVars
  <2>2. ASSUME NEW r \in Receivers, ReceiverStep(r) PROVE UNCHANGED cleanup \/ EnqueueCleanup
    BY <2>2
    DEF ReceiverStep, ReceiverProceeds, ReceiveResponse, ReceiveData, ProcessAuthentication,
        ProcessAssociation, association_process_teardown, ReceiverEnqueuesCleanup, workVars
  <2>3. ASSUME NEW c \in Contexts, NEW s \in AttemptStates, TimeoutStep(c, s) \/ CompletionStep(c)
        PROVE  UNCHANGED cleanup \/ EnqueueCleanup
    BY <2>3
    DEF TimeoutStep, TimerFires, TimeoutEnqueuesCleanup, association_timeout, CompletionStep,
        CompletionBegin, CompletionEnd
  <2>4. CASE EnvironmentStep \/ UNCHANGED vars
    BY <2>4
    DEF EnvironmentStep, ScanBegin, ScanEnd, Scan, OutsideReleases, OutsideFinds, vars, workVars
  <2>5. "AUTHENTICATING" \in AttemptStates BY DEF AttemptStates
  <2> QED BY <1>4, <2>1, <2>2, <2>3, <2>4, <2>5 DEF Next, Halted
<1> QED BY <1>2, <1>3, <1>4

\* The accounts stay in order.
LEMMA AccountsStep == Ownership /\ Service /\ Custody /\ Accounts /\ [Next]_vars => Accounts'
<1> SUFFICES ASSUME Ownership, Service, Custody, Accounts, [Next]_vars PROVE Accounts' OBVIOUS
<1>1. ReferencesExact' BY ReferencesStep
<1>2. cleanup'.at = "idle" => cleanup'.ap = None BY CleanupEmptyHanded DEF Accounts
<1>3. ASSUME NEW c \in Contexts, completion'[c].at = "sending", c = association_context'
      PROVE  completion'[c].ap = ap'
  BY <1>3, CompletionMoves, ConstantsAssumption DEF CompletionMove, Accounts, AccessPointLocals
<1> QED BY <1>1, <1>2, <1>3 DEF Accounts, AccessPointLocals

\* At first every access point has one reference, of the cache that found it.
LEMMA AccountsInit == Init => Accounts
<1> SUFFICES ASSUME Init PROVE Accounts OBVIOUS
<1>1. ASSUME NEW a \in AccessPoints PROVE AddsUp(a)
  <2>1. ContextHolders(a) = {} /\ CallerHolders(a) = {}
    BY DEF Init, ContextHolders, CallerHolders, Alive, FreeContext, IdleCaller
  <2>2. Cardinality(PlaceHolders(a)) = 1
    BY PlaceCount, ConstantsAssumption DEF Init, Places, One, LinkHolds, LinkedStates
  <2> QED BY <2>1, <2>2, FS_EmptySet DEF Init, AddsUp
<1>2. AccessPointLocals BY DEF Init, AccessPointLocals, IdleCompletion
<1> QED BY <1>1, <1>2 DEF Accounts, ReferencesExact, AddsUp

\* The accounts of every reachable state are in order.
THEOREM AccountsInvariant == Spec => []Accounts
<1>1. Init => Accounts BY AccountsInit
<1>2. Ownership /\ Service /\ Custody /\ Accounts /\ [Next]_vars => Accounts' BY AccountsStep
<1> QED BY <1>1, <1>2, OwnershipInvariant, ServiceInvariant, CustodyInvariant, PTL DEF Spec

\* Every reference to an access point is held by exactly one place, context or
\* caller, except for those that a second disconnection has overwritten: nothing is
\* released twice, and nothing else leaks.
THEOREM ReferencesStayExact == Spec => []ReferencesExact
<1>1. Accounts => ReferencesExact BY DEF Accounts
<1> QED BY <1>1, AccountsInvariant, PTL

-----------------------------------------------------------------------------
(***************************************************************************)
(* What the accounts are for: the attempt in progress uses nothing that is *)
(* destroyed.                                                              *)
(***************************************************************************)

LateUse ==
  fault' # fault =>
    \/ \E t \in Callers : AssociateReturn(t) /\ caller[t].context # association_context
    \/ \E c \in Contexts \ {association_context} : CompletionStep(c)

\* Faults come from the works and the callers of attempts that are over.
LEMMA FaultsAreLate == Ownership /\ Custody /\ Accounts /\ [Next]_vars => LateUse
<1> SUFFICES ASSUME Ownership, Custody, Accounts, [Next]_vars, fault' # fault
             PROVE  \/ \E t \in Callers :
                         AssociateReturn(t) /\ caller[t].context # association_context
                    \/ \E c \in Contexts \ {association_context} : CompletionStep(c)
  BY DEF LateUse
<1>1. /\ AttemptOwnership /\ CallerLocals /\ ReferencesExact /\ AccessPointLocals
      /\ TypeOK /\ caller \in [Callers -> CallerRecords]
  BY DEF Ownership, Accounts, TypeOK, ThreadTypeOK
<1>2. ASSUME NEW t \in Callers, AssociateReturn(t)
      PROVE  caller[t].context # association_context
  <2>1. caller[t].context \in Contexts
    BY <1>1, <1>2 DEF AssociateReturn, CallerLocals, CallerRecords, ContextOrNone
  <2>2. ~Alive(caller[t].context) BY <1>2 DEF AssociateReturn
  <2> QED BY <1>1, <2>1, <2>2, ConstantsAssumption DEF AttemptOwnership, Alive
<1>3. ASSUME NEW c \in Contexts, CompletionBegin(c)
      PROVE  c # association_context
  <2>1. ap = None /\ completion[c].at = "pending" BY <1>3 DEF CompletionBegin
  <2>2. association_context = None BY <1>1, <2>1 DEF AttemptOwnership
  <2> QED BY <2>1, <2>2, ConstantsAssumption
<1>4. ASSUME NEW c \in Contexts, CompletionEnd(c)
      PROVE  c # association_context
  <2>1. completion[c].at = "sending" BY <1>4 DEF CompletionEnd
  <2>2. ASSUME c = association_context PROVE FALSE
    <3>1. /\ Alive(c) /\ context[c].ap = ap /\ ap # None /\ completion[c].ap = ap
      BY <1>1, <2>1, <2>2, ConstantsAssumption DEF AttemptOwnership, AccessPointLocals, Alive
    <3>2. ap \in AccessPoints BY <1>1, <3>1 DEF TypeOK, DeviceTypeOK, APOrNone
    <3>3. refcount[ap] > 0 BY <1>1, <3>1, <3>2, HeldIsCounted DEF ContextHolds
    <3> QED BY <1>4, <3>1, <3>3 DEF CompletionEnd, UseOfDestroyed
  <2> QED BY <2>1, <2>2
<1>5. CASE \E t \in Callers : AssociateReturn(t)
  BY <1>2, <1>5
<1>6. CASE \E c \in Contexts : CompletionStep(c)
  BY <1>3, <1>4, <1>6 DEF CompletionStep
<1>7. ASSUME NEW t \in Callers, CallerStep(t), ~AssociateReturn(t) PROVE UNCHANGED fault
  BY <1>7
  DEF CallerStep, CallerProceeds, AssociateEnter, AssociateFail, AssociatePublish,
      DeauthenticateBegin, DeauthenticateEnd, WaitBegin, WaitEnd, TransmitBegin, TransmitEnd
<1>8. ASSUME NEW r \in Receivers, ReceiverStep(r) PROVE UNCHANGED fault
  BY <1>8
  DEF ReceiverStep, ReceiverProceeds, ReceiveResponse, ReceiveData, ProcessAuthentication,
      ProcessAssociation, association_process_teardown, ReceiverEnqueuesCleanup
<1>9. ASSUME NEW c \in Contexts, NEW s \in AttemptStates, TimeoutStep(c, s) PROVE UNCHANGED fault
  BY <1>9 DEF TimeoutStep, TimerFires, TimeoutEnqueuesCleanup, association_timeout
<1>10. CleanupStep \/ EnvironmentStep \/ UNCHANGED vars => UNCHANGED fault
  BY DEF CleanupStep, CleanupTakes, CleanupReleases, CleanupDestroys, CleanupFinishes,
         EnvironmentStep, ScanBegin, ScanEnd, Scan, OutsideReleases, OutsideFinds, vars
<1> QED BY <1>5, <1>6, <1>7, <1>8, <1>9, <1>10 DEF Next, Halted

\* Who meets a destroyed object, or an access point that is gone, is a caller or a work
\* of an attempt that has already ended.
THEOREM AttemptsInProgressAreSafe == Spec => AttemptInProgressIsSafe
<1>1. Ownership /\ Custody /\ Accounts /\ [Next]_vars => LateUse BY FaultsAreLate
<1>2. [][LateUse]_vars => AttemptInProgressIsSafe
  BY PTL DEF AttemptInProgressIsSafe, LateUse
<1> QED
  BY <1>1, <1>2, OwnershipInvariant, CustodyInvariant, AccountsInvariant, PTL DEF Spec

=============================================================================
