-------------------------- MODULE AssociationProofs --------------------------
(***************************************************************************)
(* Proofs about the association, for any numbers of access points,         *)
(* contexts, callers and receivers and any modulus of the generation.      *)
(*                                                                         *)
(* Ownership is inductive: its initial case is OwnershipInit, and each of  *)
(* the lemmas called ...Steps takes one kind of thread or work through all *)
(* of its actions.  A conjunct that an action cannot disturb is left to    *)
(* the frame lemmas.                                                       *)
(*                                                                         *)
(* What the association promises to the threads that wait, and to the      *)
(* contexts that wait for their cleanup, follows: DeviceMoves and          *)
(* CallerMoves say once what any step does to the device and to callers.   *)
(***************************************************************************)
EXTENDS Association, TLAPS

-----------------------------------------------------------------------------
(***************************************************************************)
(* Frame lemmas, and what the shared steps do to the types.                *)
(***************************************************************************)

\* What a handler leaves alone keeps its type and what is known of it.
LEMMA DeviceFrame ==
  ASSUME DeviceTypeOK, UNCHANGED deviceVars
  PROVE  DeviceTypeOK'
  BY DEF DeviceTypeOK, deviceVars, linkVars, attemptVars

LEMMA WorkFrame ==
  ASSUME WorkTypeOK, UNCHANGED workVars
  PROVE  WorkTypeOK'
  BY DEF WorkTypeOK, workVars

LEMMA ThreadFrame ==
  ASSUME ThreadTypeOK, UNCHANGED threadVars
  PROVE  ThreadTypeOK'
  BY DEF ThreadTypeOK, threadVars

LEMMA ReferenceFrame ==
  ASSUME ReferenceTypeOK, UNCHANGED <<refVars, fault>>
  PROVE  ReferenceTypeOK'
  BY DEF ReferenceTypeOK, refVars

LEMMA AttemptFrame ==
  ASSUME AttemptOwnership, UNCHANGED <<linkVars, attemptVars, context>>
  PROVE  AttemptOwnership'
  BY DEF AttemptOwnership, linkVars, attemptVars

LEMMA CleanupFrame ==
  ASSUME CleanupLocals, UNCHANGED <<attemptVars, cleanup>>
  PROVE  CleanupLocals'
  BY DEF CleanupLocals, attemptVars

LEMMA CallerFrame ==
  ASSUME CallerLocals, UNCHANGED caller
  PROVE  CallerLocals'
  BY DEF CallerLocals

\* u80211_ap_hold and u80211_ap_release keep the counters counters.
LEMMA HoldType ==
  ASSUME NEW a \in AccessPoints, refcount \in [AccessPoints -> Int], u80211_ap_hold(a)
  PROVE  refcount' \in [AccessPoints -> Int]
  BY DEF u80211_ap_hold

LEMMA ReleaseType ==
  ASSUME NEW pointers, refcount \in [AccessPoints -> Int], ReleaseAll(pointers)
  PROVE  refcount' \in [AccessPoints -> Int]
<1>1. ASSUME NEW f \in [AccessPoints -> Int]
      PROVE  [a \in AccessPoints |-> IF a \in pointers THEN f[a] - 1 ELSE f[a]]
               \in [AccessPoints -> Int]
  OBVIOUS
<1> QED BY <1>1 DEF ReleaseAll

\* The generation is counted modulo GenerationSize.
LEMMA GenerationType ==
  ASSUME association_generation \in Generations, NextGeneration
  PROVE  association_generation' \in Generations
<1>1. GenerationSize \in Nat \ {0} BY ConstantsAssumption
<1>2. ASSUME NEW n \in Nat \ {0}, NEW i \in 0 .. n - 1
      PROVE  (i + 1) % n \in 0 .. n - 1
  OBVIOUS
<1> QED BY <1>1, <1>2 DEF Generations, NextGeneration

\* Every handler that ends an attempt finds one, hands its context over to a
\* cleanup work that has none, and keeps the types.
LEMMA EndAttemptHandsOver ==
  ASSUME Ownership, association_context # None, NEW result \in Verdicts, EndAttempt(result)
  PROVE  /\ association_context' = None
         /\ association_cleanup_context' = association_context
         /\ association_cleanup_context' \in Contexts
         /\ association_cleanup_pending' = TRUE
         /\ association_generation' \in Generations
         /\ association_result' \in Results
         /\ cleanup.context = None
         /\ cleanup.at \notin {"release", "join"}
<1> USE DEF Ownership
<1>1. association_context \in Contexts BY DEF TypeOK, DeviceTypeOK, ContextOrNone
<1>2. association_generation' \in Generations
  BY GenerationType DEF EndAttempt, TypeOK, DeviceTypeOK
<1>3. association_cleanup_context = None BY DEF AttemptOwnership
<1>4. cleanup.context = None BY <1>3 DEF CleanupLocals
<1> QED
  BY <1>1, <1>2, <1>4
  DEF EndAttempt, schedule_association_cleanup, Verdict, Results, CleanupLocals

-----------------------------------------------------------------------------
(***************************************************************************)
(* The initial state.                                                      *)
(***************************************************************************)

\* A device that has just been registered satisfies the invariant.
LEMMA OwnershipInit == Init => Ownership
<1> SUFFICES ASSUME Init PROVE Ownership OBVIOUS
<1> USE DEF Init
<1>1. DeviceTypeOK
  <2>1. state \in DeviceStates BY DEF DeviceStates
  <2>2. ap \in APOrNone /\ disconnected_ap \in APOrNone BY DEF APOrNone
  <2>3. association_context \in ContextOrNone /\ association_cleanup_context \in ContextOrNone
    BY DEF ContextOrNone
  <2>4. association_cleanup_pending \in BOOLEAN OBVIOUS
  <2>5. association_generation \in Generations
    <3>1. GenerationSize \in Nat \ {0} BY ConstantsAssumption
    <3> QED BY <3>1 DEF Generations
  <2>6. association_result \in Results BY DEF Results
  <2>7. received_sequence_control \in SequenceControls \cup {None} OBVIOUS
  <2> QED BY <2>1, <2>2, <2>3, <2>4, <2>5, <2>6, <2>7 DEF DeviceTypeOK
<1>2. WorkTypeOK
  <2>1. FreeContext \in ContextRecords
    <3>1. GenerationSize \in Nat \ {0} BY ConstantsAssumption
    <3> QED BY <3>1 DEF FreeContext, ContextRecords, APOrNone, Generations
  <2> QED
    BY <2>1
    DEF WorkTypeOK, CompletionRecords, IdleCompletion, CleanupRecords, APOrNone, ContextOrNone
<1>3. ThreadTypeOK
  BY DEF ThreadTypeOK, CallerRecords, CallerPlaces, IdleCaller, ReceiverRecords,
         IdleReceiver, APOrNone, ContextOrNone
<1>4. ReferenceTypeOK BY DEF ReferenceTypeOK
<1>5. AttemptOwnership BY DEF AttemptOwnership, AttemptStates, LinkedStates
<1>6. CleanupLocals BY DEF CleanupLocals
<1>7. CallerLocals BY DEF CallerLocals, IdleCaller
<1> QED BY <1>1, <1>2, <1>3, <1>4, <1>5, <1>6, <1>7 DEF Ownership, TypeOK

-----------------------------------------------------------------------------
(***************************************************************************)
(* The steps of a caller.                                                  *)
(***************************************************************************)

\* Callers of u80211_associate: only the publication touches the attempt, and
\* it finds none in progress and no cleanup pending.
LEMMA AssociateSteps ==
  ASSUME Ownership, NEW t \in Callers,
         \/ \E a \in AccessPoints : AssociateEnter(t, a)
         \/ AssociateFail(t) \/ AssociatePublish(t) \/ AssociateReturn(t)
  PROVE  Ownership'
<1> USE DEF Ownership, TypeOK
<1>1. ASSUME NEW a \in AccessPoints, AssociateEnter(t, a) PROVE Ownership'
  <2> USE <1>1 DEF AssociateEnter
  <2>1. DeviceTypeOK' BY DEF DeviceTypeOK, APOrNone, linkVars, attemptVars
  <2>2. WorkTypeOK' BY WorkFrame
  <2>3. ThreadTypeOK'
    BY DEF ThreadTypeOK, CallerRecords, CallerPlaces, APOrNone, ContextOrNone, IdleCaller
  <2>4. ReferenceTypeOK' BY ReleaseType DEF ReferenceTypeOK
  <2>5. AttemptOwnership' /\ CleanupLocals' BY AttemptFrame, CleanupFrame DEF workVars
  <2>6. CallerLocals'
    BY ConstantsAssumption DEF CallerLocals, IdleCaller, ThreadTypeOK, CallerRecords
  <2> QED BY <2>1, <2>2, <2>3, <2>4, <2>5, <2>6
<1>2. CASE AssociateFail(t)
  <2> USE <1>2 DEF AssociateFail
  <2>1. DeviceTypeOK' /\ WorkTypeOK' /\ ReferenceTypeOK'
    BY DeviceFrame, WorkFrame, ReferenceFrame
  <2>2. ThreadTypeOK'
    BY DEF ThreadTypeOK, CallerRecords, CallerPlaces, APOrNone, ContextOrNone, IdleCaller
  <2>3. AttemptOwnership' /\ CleanupLocals'
    BY AttemptFrame, CleanupFrame DEF deviceVars, workVars
  <2>4. CallerLocals' BY DEF CallerLocals, IdleCaller, ThreadTypeOK
  <2> QED BY <2>1, <2>2, <2>3, <2>4
<1>3. CASE AssociatePublish(t)
  <2> USE <1>3 DEF AssociatePublish
  <2>1. PICK c \in FreeBlocks :
          /\ context' = [context EXCEPT ![c] = [status |-> "live", ap |-> caller[t].ap,
                                                generation |-> association_generation]]
          /\ association_context' = c
          /\ caller' = [caller EXCEPT ![t] = [@ EXCEPT !.at = "authenticate", !.context = c]]
    OBVIOUS
  <2>2. c \in Contexts /\ caller[t].ap \in AccessPoints
    BY DEF FreeBlocks, CallerLocals, ThreadTypeOK, CallerRecords, APOrNone
  <2>3. DeviceTypeOK'
    BY <2>1, <2>2
    DEF DeviceTypeOK, APOrNone, ContextOrNone, u80211_set_device_state, DeviceStates,
        AttemptStates, Results
  <2>4. WorkTypeOK'
    BY <2>1, <2>2 DEF WorkTypeOK, ContextRecords, APOrNone, DeviceTypeOK
  <2>5. ThreadTypeOK'
    <3>1. caller \in [Callers -> CallerRecords] BY DEF ThreadTypeOK
    <3>2. [caller[t] EXCEPT !.at = "authenticate", !.context = c] \in CallerRecords
      BY <2>2, <3>1 DEF CallerRecords, CallerPlaces, ContextOrNone
    <3> QED BY <2>1, <3>1, <3>2 DEF ThreadTypeOK
  <2>6. ReferenceTypeOK' BY <2>2, HoldType DEF ReferenceTypeOK
  <2>7. AttemptOwnership'
    BY <2>1, <2>2, ConstantsAssumption
    DEF AttemptOwnership, u80211_set_device_state, AttemptStates, LinkedStates, NotBusy,
        WorkTypeOK
  <2>8. CleanupLocals' BY DEF CleanupLocals
  <2>9. CallerLocals'
    <3>1. c # None /\ caller[t].ap # None
      BY <2>2, ConstantsAssumption
    <3> HIDE DEF AssociatePublish
    <3> QED BY <2>1, <3>1 DEF CallerLocals, ThreadTypeOK, CallerRecords
  <2> QED BY <2>3, <2>4, <2>5, <2>6, <2>7, <2>8, <2>9
<1>4. CASE AssociateReturn(t)
  <2> USE <1>4 DEF AssociateReturn
  <2>1. DeviceTypeOK' BY DeviceFrame
  <2>2. WorkTypeOK' BY DEF WorkTypeOK, ArmTimeout
  <2>3. ThreadTypeOK'
    BY DEF ThreadTypeOK, CallerRecords, CallerPlaces, APOrNone, ContextOrNone, IdleCaller
  <2>4. ReferenceTypeOK' BY DEF ReferenceTypeOK, refVars, UseOfDestroyed
  <2>5. AttemptOwnership' /\ CleanupLocals' BY AttemptFrame, CleanupFrame DEF deviceVars
  <2>6. CallerLocals' BY DEF CallerLocals, IdleCaller, ThreadTypeOK
  <2> QED BY <2>1, <2>2, <2>3, <2>4, <2>5, <2>6
<1> QED BY <1>1, <1>2, <1>3, <1>4

\* The other callers.
LEMMA OtherCallerSteps ==
  ASSUME Ownership, NEW t \in Callers,
         \/ DeauthenticateBegin(t) \/ DeauthenticateEnd(t)
         \/ WaitBegin(t) \/ WaitEnd(t)
         \/ TransmitBegin(t) \/ TransmitEnd(t)
  PROVE  Ownership'
<1> USE DEF Ownership, TypeOK
<1>1. CASE DeauthenticateBegin(t)
  <2> USE <1>1 DEF DeauthenticateBegin
  <2>1. DeviceTypeOK'
    BY DEF DeviceTypeOK, attemptVars, u80211_set_device_state, DeviceStates, LinkedStates
  <2>2. WorkTypeOK' /\ ReferenceTypeOK' BY WorkFrame, ReferenceFrame
  <2>3. ThreadTypeOK' BY DEF ThreadTypeOK, CallerRecords, CallerPlaces
  <2>4. AttemptOwnership'
    BY DEF AttemptOwnership, attemptVars, workVars, u80211_set_device_state, AttemptStates,
           LinkedStates
  <2>5. CleanupLocals' BY CleanupFrame DEF workVars
  <2>6. CallerLocals' BY DEF CallerLocals, ThreadTypeOK, CallerRecords
  <2> QED BY <2>1, <2>2, <2>3, <2>4, <2>5, <2>6
<1>2. CASE DeauthenticateEnd(t)
  <2> USE <1>2 DEF DeauthenticateEnd
  <2>1. association_generation' \in Generations BY GenerationType DEF DeviceTypeOK
  <2>2. DeviceTypeOK' BY <2>1 DEF DeviceTypeOK, linkVars, DeviceStates, APOrNone
  <2>3. WorkTypeOK' BY WorkFrame
  <2>4. ThreadTypeOK'
    BY DEF ThreadTypeOK, CallerRecords, CallerPlaces, APOrNone, ContextOrNone, IdleCaller
  <2>5. ReferenceTypeOK' BY ReleaseType DEF ReferenceTypeOK
  <2>6. AttemptOwnership'
    BY DEF AttemptOwnership, linkVars, workVars, AttemptStates, LinkedStates
  <2>7. CleanupLocals' BY DEF CleanupLocals, workVars
  <2>8. CallerLocals' BY DEF CallerLocals, IdleCaller, ThreadTypeOK
  <2> QED BY <2>2, <2>3, <2>4, <2>5, <2>6, <2>7, <2>8
<1>3. CASE WaitBegin(t)
  <2> USE <1>3 DEF WaitBegin
  <2>1. DeviceTypeOK' /\ WorkTypeOK' /\ ReferenceTypeOK'
    BY DeviceFrame, WorkFrame, ReferenceFrame
  <2>2. ThreadTypeOK' BY DEF ThreadTypeOK, CallerRecords, CallerPlaces
  <2>3. AttemptOwnership' /\ CleanupLocals'
    BY AttemptFrame, CleanupFrame DEF deviceVars, workVars
  <2>4. CallerLocals' BY DEF CallerLocals, ThreadTypeOK, CallerRecords
  <2> QED BY <2>1, <2>2, <2>3, <2>4
<1>4. CASE WaitEnd(t)
  <2> USE <1>4 DEF WaitEnd
  <2>1. DeviceTypeOK' /\ WorkTypeOK' /\ ReferenceTypeOK'
    BY DeviceFrame, WorkFrame, ReferenceFrame
  <2>2. ThreadTypeOK'
    BY DEF ThreadTypeOK, CallerRecords, CallerPlaces, APOrNone, ContextOrNone, IdleCaller
  <2>3. AttemptOwnership' /\ CleanupLocals'
    BY AttemptFrame, CleanupFrame DEF deviceVars, workVars
  <2>4. CallerLocals' BY DEF CallerLocals, IdleCaller, ThreadTypeOK
  <2> QED BY <2>1, <2>2, <2>3, <2>4
<1>5. CASE TransmitBegin(t)
  <2> USE <1>5 DEF TransmitBegin
  <2>1. ap \in AccessPoints BY DEF DeviceTypeOK, APOrNone
  <2>2. DeviceTypeOK' /\ WorkTypeOK' BY DeviceFrame, WorkFrame
  <2>3. ThreadTypeOK'
    BY <2>1
    DEF ThreadTypeOK, CallerRecords, CallerPlaces, APOrNone, ContextOrNone, IdleCaller
  <2>4. ReferenceTypeOK' BY <2>1, HoldType DEF ReferenceTypeOK
  <2>5. AttemptOwnership' /\ CleanupLocals'
    BY AttemptFrame, CleanupFrame DEF deviceVars, workVars
  <2>6. CallerLocals'
    BY <2>1 DEF CallerLocals, IdleCaller, ThreadTypeOK, CallerRecords
  <2> QED BY <2>2, <2>3, <2>4, <2>5, <2>6
<1>6. CASE TransmitEnd(t)
  <2> USE <1>6 DEF TransmitEnd
  <2>1. DeviceTypeOK' /\ WorkTypeOK' BY DeviceFrame, WorkFrame
  <2>2. ThreadTypeOK'
    BY DEF ThreadTypeOK, CallerRecords, CallerPlaces, APOrNone, ContextOrNone, IdleCaller
  <2>3. ReferenceTypeOK' BY ReleaseType DEF ReferenceTypeOK
  <2>4. AttemptOwnership' /\ CleanupLocals'
    BY AttemptFrame, CleanupFrame DEF deviceVars, workVars
  <2>5. CallerLocals' BY DEF CallerLocals, IdleCaller, ThreadTypeOK
  <2> QED BY <2>1, <2>2, <2>3, <2>4, <2>5
<1> QED BY <1>1, <1>2, <1>3, <1>4, <1>5, <1>6

-----------------------------------------------------------------------------
(***************************************************************************)
(* The steps of a receiver.                                                *)
(***************************************************************************)

\* The duplicate filter, and the handler that only enqueues the cleanup.
LEMMA FilterSteps ==
  ASSUME Ownership, NEW r \in Receivers,
         \/ \E sequence_control \in SequenceControls, retry \in BOOLEAN :
              \/ \E frame \in Frames : ReceiveResponse(r, frame, sequence_control, retry)
              \/ \E from \in AccessPoints : ReceiveData(r, from, sequence_control, retry)
         \/ ReceiverEnqueuesCleanup(r)
  PROVE  Ownership'
<1> USE DEF Ownership, TypeOK
<1>1. ASSUME NEW sequence_control \in SequenceControls, NEW retry \in BOOLEAN,
             NEW frame \in Frames, ReceiveResponse(r, frame, sequence_control, retry)
      PROVE  Ownership'
  <2> USE <1>1 DEF ReceiveResponse
  <2>1. DeviceTypeOK' BY DEF DeviceTypeOK, linkVars, attemptVars, NotDuplicate
  <2>2. WorkTypeOK' /\ ReferenceTypeOK' BY WorkFrame, ReferenceFrame
  <2>3. ThreadTypeOK' BY DEF ThreadTypeOK, ReceiverRecords
  <2>4. AttemptOwnership' /\ CleanupLocals' BY AttemptFrame, CleanupFrame DEF workVars
  <2>5. CallerLocals' BY CallerFrame
  <2> QED BY <2>1, <2>2, <2>3, <2>4, <2>5
<1>2. ASSUME NEW sequence_control \in SequenceControls, NEW retry \in BOOLEAN,
             NEW from \in AccessPoints, ReceiveData(r, from, sequence_control, retry)
      PROVE  Ownership'
  <2> USE <1>2 DEF ReceiveData
  <2>1. DeviceTypeOK' BY DEF DeviceTypeOK, linkVars, attemptVars, NotDuplicate
  <2>2. WorkTypeOK' /\ ThreadTypeOK' /\ ReferenceTypeOK'
    BY WorkFrame, ThreadFrame, ReferenceFrame
  <2>3. AttemptOwnership' /\ CleanupLocals' BY AttemptFrame, CleanupFrame DEF workVars
  <2>4. CallerLocals' BY CallerFrame DEF threadVars
  <2> QED BY <2>1, <2>2, <2>3, <2>4
<1>3. CASE ReceiverEnqueuesCleanup(r)
  <2> USE <1>3 DEF ReceiverEnqueuesCleanup
  <2>1. DeviceTypeOK' /\ ReferenceTypeOK' BY DeviceFrame, ReferenceFrame
  <2>2. WorkTypeOK' BY DEF WorkTypeOK, CleanupRecords, EnqueueCleanup
  <2>3. ThreadTypeOK' BY DEF ThreadTypeOK, ReceiverRecords, IdleReceiver
  <2>4. AttemptOwnership' BY AttemptFrame DEF deviceVars
  <2>5. CleanupLocals'
    BY DEF CleanupLocals, EnqueueCleanup, deviceVars, attemptVars, WorkTypeOK, CleanupRecords
  <2>6. CallerLocals' BY CallerFrame
  <2> QED BY <2>1, <2>2, <2>3, <2>4, <2>5, <2>6
<1> QED BY <1>1, <1>2, <1>3

\* Leaving a handler keeps the type of the receivers.
LEMMA ReceiverLeavesType ==
  ASSUME ThreadTypeOK, NEW r \in Receivers, NEW needed \in BOOLEAN, ReceiverLeaves(r, needed),
         UNCHANGED <<association_waiters, caller>>
  PROVE  ThreadTypeOK'
  BY DEF ThreadTypeOK, ReceiverLeaves, ReceiverRecords, IdleReceiver

\* An authentication frame: a refusal ends the attempt it finds, an acceptance
\* moves it on.
LEMMA AuthenticationSteps ==
  ASSUME Ownership, NEW r \in Receivers, ProcessAuthentication(r)
  PROVE  Ownership'
<1> USE DEF Ownership, TypeOK
<1> DEFINE frame == receiver[r].frame
<1>1. WorkTypeOK'
  <2>1. CASE AuthenticationAccepted(r, frame)
    BY <2>1
    DEF ProcessAuthentication, AuthenticationAccepted, WorkTypeOK, CompletionRecords
  <2>2. CASE AuthenticationRefused(r, frame) \/ AuthenticationIgnored(r, frame)
    BY <2>2, WorkFrame
    DEF ProcessAuthentication, AuthenticationRefused, AuthenticationIgnored, workVars
  <2> QED BY <2>1, <2>2 DEF ProcessAuthentication
<1>2. ThreadTypeOK'
  BY ReceiverLeavesType
  DEF ProcessAuthentication, AuthenticationRefused, AuthenticationAccepted,
      AuthenticationIgnored
<1>3. ReferenceTypeOK' BY ReferenceFrame DEF ProcessAuthentication
<1>4. CallerLocals' BY CallerFrame DEF ProcessAuthentication
<1>5. DeviceTypeOK' /\ AttemptOwnership' /\ CleanupLocals'
  <2>1. CASE AuthenticationRefused(r, frame)
    <3>1. state = "AUTHENTICATING" /\ state' = "DOWN" /\ ap' = None
      BY <2>1 DEF AuthenticationRefused, u80211_set_device_state
    <3>2. association_context # None BY <3>1 DEF AttemptOwnership, AttemptStates
    <3>3. EndAttempt("REJECTED") /\ "REJECTED" \in Verdicts
      BY <2>1 DEF AuthenticationRefused, Verdicts
    <3> QED
      BY <3>1, <3>2, <3>3, EndAttemptHandsOver, ConstantsAssumption
      DEF ProcessAuthentication, DeviceTypeOK, DeviceStates, APOrNone, ContextOrNone,
          AttemptOwnership, AttemptStates, LinkedStates, CleanupLocals
  <2>2. CASE AuthenticationAccepted(r, frame)
    <3>1. state = "AUTHENTICATING" /\ state' = "ASSOCIATING" /\ UNCHANGED <<ap, attemptVars>>
      BY <2>2 DEF AuthenticationAccepted, u80211_set_device_state
    <3>2. UNCHANGED <<disconnected_ap, received_sequence_control, context, cleanup>>
      BY DEF ProcessAuthentication
    <3> QED
      BY <3>1, <3>2
      DEF DeviceTypeOK, DeviceStates, attemptVars, AttemptOwnership, AttemptStates,
          LinkedStates, CleanupLocals
  <2>3. CASE AuthenticationIgnored(r, frame)
    <3>1. UNCHANGED <<deviceVars, context, cleanup>>
      BY <2>3 DEF ProcessAuthentication, AuthenticationIgnored, deviceVars
    <3> QED BY <3>1, DeviceFrame, AttemptFrame, CleanupFrame DEF deviceVars
  <2> QED BY <2>1, <2>2, <2>3 DEF ProcessAuthentication
<1> QED BY <1>1, <1>2, <1>3, <1>4, <1>5

\* An association response ends the attempt, with a link or without.
LEMMA AssociationSteps ==
  ASSUME Ownership, NEW r \in Receivers, ProcessAssociation(r)
  PROVE  Ownership'
<1> USE DEF Ownership, TypeOK
<1> DEFINE frame == receiver[r].frame
<1>1. WorkTypeOK' /\ CallerLocals' BY WorkFrame, CallerFrame DEF ProcessAssociation
<1>2. ThreadTypeOK'
  BY ReceiverLeavesType
  DEF ProcessAssociation, AssociationRefused, AssociationAccepted, AssociationIgnored
<1>3. ReferenceTypeOK'
  <2>1. CASE AssociationAccepted(r, frame)
    <3>1. ap \in AccessPoints
      BY <2>1 DEF AssociationAccepted, ResponseMatches, DeviceTypeOK, APOrNone
    <3> QED
      BY <2>1, <3>1, HoldType DEF AssociationAccepted, ProcessAssociation, ReferenceTypeOK
  <2>2. CASE AssociationRefused(r, frame) \/ AssociationIgnored(r, frame)
    BY <2>2, ReferenceFrame
    DEF AssociationRefused, AssociationIgnored, ProcessAssociation, refVars
  <2> QED BY <2>1, <2>2 DEF ProcessAssociation
<1>4. DeviceTypeOK' /\ AttemptOwnership' /\ CleanupLocals'
  <2>1. CASE AssociationRefused(r, frame) \/ AssociationAccepted(r, frame)
    <3>1. state = "ASSOCIATING" /\ ap # None /\ association_context # None
      BY <2>1 DEF AssociationRefused, AssociationAccepted, ResponseMatches
    <3>2. \/ state' = "DOWN" /\ ap' = None /\ EndAttempt("REJECTED")
          \/ state' = "ASSOCIATED" /\ ap' = ap /\ EndAttempt("SUCCESS")
      BY <2>1 DEF AssociationRefused, AssociationAccepted
    <3>3. {"REJECTED", "SUCCESS"} \subseteq Verdicts BY DEF Verdicts
    <3> QED
      BY <3>1, <3>2, <3>3, EndAttemptHandsOver, ConstantsAssumption
      DEF ProcessAssociation, workVars, DeviceTypeOK, DeviceStates, APOrNone, ContextOrNone,
          AttemptOwnership, AttemptStates, LinkedStates, CleanupLocals
  <2>2. CASE AssociationIgnored(r, frame)
    <3>1. UNCHANGED <<deviceVars, workVars>>
      BY <2>2 DEF ProcessAssociation, AssociationIgnored, deviceVars
    <3> QED
      BY <3>1, DeviceFrame, AttemptFrame, CleanupFrame DEF deviceVars, workVars
  <2> QED BY <2>1, <2>2 DEF ProcessAssociation
<1> QED BY <1>1, <1>2, <1>3, <1>4

\* A deauthentication or disassociation frame ends an attempt or a link.
LEMMA TeardownSteps ==
  ASSUME Ownership, NEW r \in Receivers, NEW address \in AccessPoints,
         NEW deauthentication \in BOOLEAN,
         association_process_teardown(r, address, deauthentication)
  PROVE  Ownership'
<1> USE DEF Ownership, TypeOK
<1>1. WorkTypeOK' /\ CallerLocals'
  BY WorkFrame, CallerFrame DEF association_process_teardown
<1>2. ThreadTypeOK' BY ReceiverLeavesType DEF association_process_teardown
<1>3. CASE TeardownAttempt(deauthentication)
  <2>1. association_context # None /\ EndAttempt("REJECTED") /\ "REJECTED" \in Verdicts
    BY <1>3 DEF TeardownAttempt, Verdicts
  <2>2. DeviceTypeOK' /\ AttemptOwnership' /\ CleanupLocals'
    BY <1>3, <2>1, EndAttemptHandsOver, ConstantsAssumption
    DEF TeardownAttempt, association_process_teardown, workVars, DeviceTypeOK, DeviceStates,
        APOrNone, ContextOrNone, AttemptOwnership, AttemptStates, LinkedStates, CleanupLocals
  <2>3. ReferenceTypeOK'
    BY <1>3, ReferenceFrame DEF TeardownAttempt, association_process_teardown, refVars
  <2> QED BY <1>1, <1>2, <2>2, <2>3
<1>4. CASE TeardownLink
  <2>1. association_generation' \in Generations
    BY <1>4, GenerationType DEF TeardownLink, DeviceTypeOK
  <2>2. DeviceTypeOK'
    BY <1>4, <2>1
    DEF TeardownLink, association_process_teardown, DeviceTypeOK, DeviceStates, APOrNone
  <2>3. AttemptOwnership' /\ CleanupLocals'
    BY <1>4
    DEF TeardownLink, association_process_teardown, workVars, AttemptOwnership,
        AttemptStates, LinkedStates, CleanupLocals
  <2>4. ReferenceTypeOK'
    <3>1. ASSUME NEW f \in [AccessPoints -> Nat]
          PROVE  [a \in AccessPoints |-> IF a = disconnected_ap THEN f[a] + 1 ELSE f[a]]
                   \in [AccessPoints -> Nat]
      OBVIOUS
    <3>2. lost' \in [AccessPoints -> Nat] BY <1>4, <3>1 DEF TeardownLink, ReferenceTypeOK
    <3> QED BY <3>2 DEF association_process_teardown, ReferenceTypeOK
  <2> QED BY <1>1, <1>2, <2>2, <2>3, <2>4
<1> QED BY <1>3, <1>4 DEF association_process_teardown

-----------------------------------------------------------------------------
(***************************************************************************)
(* The steps of the works, and of the environment.                         *)
(***************************************************************************)

\* A timer or timeout of any context, whatever the device is doing: only one
\* of the attempt in progress ends it.
LEMMA TimeoutSteps ==
  ASSUME Ownership, NEW c \in Contexts, NEW s \in AttemptStates, TimeoutStep(c, s)
  PROVE  Ownership'
<1> USE DEF Ownership, TypeOK
<1>1. CASE TimerFires(c, s)
  <2> USE <1>1 DEF TimerFires
  <2>1. DeviceTypeOK' /\ ThreadTypeOK' /\ ReferenceTypeOK'
    BY DeviceFrame, ThreadFrame, ReferenceFrame
  <2>2. WorkTypeOK' BY DEF WorkTypeOK
  <2>3. AttemptOwnership' /\ CleanupLocals' /\ CallerLocals'
    BY AttemptFrame, CleanupFrame, CallerFrame DEF deviceVars, threadVars
  <2> QED BY <2>1, <2>2, <2>3
<1>2. CASE TimeoutEnqueuesCleanup(c, s)
  <2> USE <1>2 DEF TimeoutEnqueuesCleanup
  <2>1. DeviceTypeOK' /\ ThreadTypeOK' /\ ReferenceTypeOK'
    BY DeviceFrame, ThreadFrame, ReferenceFrame
  <2>2. WorkTypeOK' BY DEF WorkTypeOK, EnqueueCleanup, CleanupRecords
  <2>3. AttemptOwnership' /\ CallerLocals'
    BY AttemptFrame, CallerFrame DEF deviceVars, threadVars
  <2>4. CleanupLocals'
    BY DEF CleanupLocals, EnqueueCleanup, deviceVars, attemptVars, WorkTypeOK, CleanupRecords
  <2> QED BY <2>1, <2>2, <2>3, <2>4
<1>3. CASE association_timeout(c, s)
  <2> USE <1>3 DEF association_timeout
  <2>1. ThreadTypeOK' /\ ReferenceTypeOK' /\ CallerLocals'
    BY ThreadFrame, ReferenceFrame, CallerFrame DEF threadVars
  <2>2. WorkTypeOK' BY DEF WorkTypeOK
  <2>3. CASE TimeoutApplies(c, s)
    <3>1. state' = "DOWN" /\ ap' = None /\ EndAttempt("TIMED_OUT")
      BY <2>3
    <3>2. association_context # None /\ "TIMED_OUT" \in Verdicts
      BY <2>3 DEF TimeoutApplies, AttemptOwnership, Verdicts
    <3>3. DeviceTypeOK' /\ AttemptOwnership' /\ CleanupLocals'
      BY <3>1, <3>2, EndAttemptHandsOver, ConstantsAssumption
      DEF DeviceTypeOK, DeviceStates, APOrNone, ContextOrNone, AttemptOwnership,
          AttemptStates, LinkedStates, CleanupLocals
    <3> QED BY <2>1, <2>2, <3>3
  <2>4. CASE ~TimeoutApplies(c, s)
    <3>1. UNCHANGED <<deviceVars, context, cleanup>> BY <2>4 DEF deviceVars
    <3>2. DeviceTypeOK' /\ AttemptOwnership' /\ CleanupLocals'
      BY <3>1, DeviceFrame, AttemptFrame, CleanupFrame DEF deviceVars
    <3> QED BY <2>1, <2>2, <3>2
  <2> QED BY <2>3, <2>4
<1> QED BY <1>1, <1>2, <1>3 DEF TimeoutStep

\* The completion work touches nothing but itself, its timer, and a fault.
LEMMA CompletionSteps ==
  ASSUME Ownership, NEW c \in Contexts, CompletionStep(c)
  PROVE  Ownership'
<1> USE DEF Ownership, TypeOK
<1>1. UNCHANGED <<deviceVars, context, cleanup, threadVars, refVars>>
  BY DEF CompletionStep, CompletionBegin, CompletionEnd
<1>2. DeviceTypeOK' /\ ThreadTypeOK' BY <1>1, DeviceFrame, ThreadFrame
<1>3. AttemptOwnership' /\ CleanupLocals' /\ CallerLocals'
  BY <1>1, AttemptFrame, CleanupFrame, CallerFrame DEF deviceVars, threadVars
<1>4. WorkTypeOK' /\ ReferenceTypeOK'
  <2>1. CASE CompletionBegin(c)
    <3>1. WorkTypeOK'
      BY <2>1 DEF CompletionBegin, WorkTypeOK, CompletionRecords, DeviceTypeOK
    <3>2. ReferenceTypeOK' BY <2>1 DEF CompletionBegin, ReferenceTypeOK, refVars
    <3> QED BY <3>1, <3>2
  <2>2. CASE CompletionEnd(c)
    <3>1. WorkTypeOK'
      BY <2>2
      DEF CompletionEnd, ArmTimeout, WorkTypeOK, CompletionRecords, IdleCompletion, APOrNone
    <3>2. ReferenceTypeOK'
      BY <2>2 DEF CompletionEnd, UseOfDestroyed, ReferenceTypeOK, refVars
    <3> QED BY <3>1, <3>2
  <2> QED BY <2>1, <2>2 DEF CompletionStep
<1> QED BY <1>2, <1>3, <1>4

\* The cleanup work handles a context that the device no longer has.
LEMMA CleanupSteps ==
  ASSUME Ownership, CleanupStep
  PROVE  Ownership'
<1> USE DEF Ownership, TypeOK
<1>1. ASSUME cleanup.context # None
      PROVE  cleanup.context \in Contexts /\ association_context = None
  BY <1>1
  DEF WorkTypeOK, CleanupRecords, ContextOrNone, CleanupLocals, AttemptOwnership
<1>2. CASE CleanupTakes
  <2> USE <1>2 DEF CleanupTakes
  <2>1. DeviceTypeOK' BY DEF DeviceTypeOK, linkVars, attemptVars, DisconnectedLeft, APOrNone
  <2>2. WorkTypeOK' BY DEF WorkTypeOK, CleanupRecords, DeviceTypeOK
  <2>3. ThreadTypeOK' /\ ReferenceTypeOK' /\ CallerLocals'
    BY ThreadFrame, ReferenceFrame, CallerFrame DEF threadVars
  <2>4. AttemptOwnership' BY AttemptFrame
  <2>5. CleanupLocals' BY DEF CleanupLocals, attemptVars
  <2> QED BY <2>1, <2>2, <2>3, <2>4, <2>5
<1>3. CASE CleanupReleases
  <2> USE <1>3 DEF CleanupReleases
  <2>1. cleanup.context \in Contexts /\ association_context = None
    BY <1>1 DEF CleanupLocals
  <2>2. DeviceTypeOK' /\ ThreadTypeOK' /\ CallerLocals'
    BY DeviceFrame, ThreadFrame, CallerFrame DEF threadVars
  <2>3. WorkTypeOK'
    BY <2>1 DEF WorkTypeOK, ContextRecords, CleanupRecords, Timeouts
  <2>4. ReferenceTypeOK' BY ReleaseType DEF ReferenceTypeOK
  <2>5. AttemptOwnership'
    BY <2>1 DEF AttemptOwnership, deviceVars, linkVars, attemptVars
  <2>6. CleanupLocals'
    BY DEF CleanupLocals, deviceVars, attemptVars, WorkTypeOK, CleanupRecords
  <2> QED BY <2>2, <2>3, <2>4, <2>5, <2>6
<1>4. CASE CleanupDestroys
  <2> USE <1>4 DEF CleanupDestroys
  <2>1. cleanup.context \in Contexts /\ association_context = None
    BY <1>1 DEF CleanupLocals
  <2>2. DeviceTypeOK' /\ ThreadTypeOK' /\ ReferenceTypeOK' /\ CallerLocals'
    BY DeviceFrame, ThreadFrame, ReferenceFrame, CallerFrame DEF threadVars
  <2>3. FreeContext \in ContextRecords
    <3>1. GenerationSize \in Nat \ {0} BY ConstantsAssumption
    <3> QED BY <3>1 DEF FreeContext, ContextRecords, APOrNone, Generations
  <2>4. WorkTypeOK'
    BY <2>1, <2>3
    DEF WorkTypeOK, CompletionRecords, IdleCompletion, CleanupRecords, Timeouts, APOrNone
  <2>5. AttemptOwnership'
    BY <2>1 DEF AttemptOwnership, deviceVars, linkVars, attemptVars
  <2>6. CleanupLocals'
    BY DEF CleanupLocals, deviceVars, attemptVars, WorkTypeOK, CleanupRecords
  <2> QED BY <2>2, <2>4, <2>5, <2>6
<1>5. CASE CleanupFinishes
  <2> USE <1>5 DEF CleanupFinishes
  <2>1. DeviceTypeOK' BY DEF DeviceTypeOK, linkVars, ContextOrNone
  <2>2. WorkTypeOK' BY DEF WorkTypeOK, CleanupRecords, APOrNone, ContextOrNone
  <2>3. association_result \in Results BY DEF DeviceTypeOK
  <2>4. ThreadTypeOK' /\ CallerLocals'
    <3>1. CASE cleanup.context # None
      <4>1. wake_association_waiters(association_result) /\ UNCHANGED receiver
        BY <3>1
      <4> HIDE <1>5
      <4> QED
        BY <2>3, <4>1
        DEF wake_association_waiters, WokenWaiters, ThreadTypeOK, CallerRecords,
            CallerPlaces, IdleCaller, APOrNone, ContextOrNone, CallerLocals
    <3>2. CASE cleanup.context = None
      BY <3>2, ThreadFrame, CallerFrame DEF threadVars
    <3> QED BY <3>1, <3>2
  <2>5. ReferenceTypeOK' BY ReleaseType DEF ReferenceTypeOK
  <2>6. AttemptOwnership' BY <1>1 DEF AttemptOwnership, linkVars
  <2>7. CleanupLocals' BY DEF CleanupLocals, WorkTypeOK, CleanupRecords
  <2> QED BY <2>1, <2>2, <2>4, <2>5, <2>6, <2>7
<1> QED BY <1>2, <1>3, <1>4, <1>5 DEF CleanupStep

\* Scans move the device between two states in which there is no attempt, and
\* the rest of the program only touches reference counts.
LEMMA EnvironmentSteps ==
  ASSUME Ownership, EnvironmentStep
  PROVE  Ownership'
<1> USE DEF Ownership, TypeOK
<1>1. CASE ScanBegin \/ ScanEnd
  <2> USE <1>1 DEF ScanBegin, ScanEnd, Scan, u80211_set_device_state
  <2>1. DeviceTypeOK' BY DEF DeviceTypeOK, attemptVars, DeviceStates
  <2>2. WorkTypeOK' /\ ThreadTypeOK' /\ ReferenceTypeOK'
    BY WorkFrame, ThreadFrame, ReferenceFrame
  <2>3. AttemptOwnership'
    BY DEF AttemptOwnership, attemptVars, workVars, AttemptStates, LinkedStates
  <2>4. CleanupLocals' /\ CallerLocals'
    BY CleanupFrame, CallerFrame DEF workVars, threadVars
  <2> QED BY <2>1, <2>2, <2>3, <2>4
<1>2. ASSUME NEW a \in AccessPoints, OutsideReleases(a) \/ OutsideFinds(a)
      PROVE  Ownership'
  <2>1. UNCHANGED <<deviceVars, workVars, threadVars, lost, fault>>
    BY <1>2 DEF OutsideReleases, OutsideFinds
  <2>2. DeviceTypeOK' /\ WorkTypeOK' /\ ThreadTypeOK'
    BY <2>1, DeviceFrame, WorkFrame, ThreadFrame
  <2>3. AttemptOwnership' /\ CleanupLocals' /\ CallerLocals'
    BY <2>1, AttemptFrame, CleanupFrame, CallerFrame DEF deviceVars, workVars, threadVars
  <2>4. ReferenceTypeOK'
    BY <1>2, <2>1, HoldType, ReleaseType
    DEF OutsideReleases, OutsideFinds, ReferenceTypeOK
  <2> QED BY <2>2, <2>3, <2>4
<1> QED BY <1>1, <1>2 DEF EnvironmentStep

-----------------------------------------------------------------------------
(***************************************************************************)
(* The invariant, and what follows from it.                                *)
(***************************************************************************)

\* Every step of the specification keeps the invariant.
LEMMA OwnershipStep == Ownership /\ [Next]_vars => Ownership'
<1> SUFFICES ASSUME Ownership, [Next]_vars PROVE Ownership' OBVIOUS
<1>1. CASE \E t \in Callers : CallerStep(t)
  BY <1>1, AssociateSteps, OtherCallerSteps DEF CallerStep, CallerProceeds
<1>2. CASE \E r \in Receivers : ReceiverStep(r)
  BY <1>2, FilterSteps, TeardownSteps, AuthenticationSteps, AssociationSteps
  DEF ReceiverStep, ReceiverProceeds
<1>3. CASE \E c \in Contexts, s \in AttemptStates : TimeoutStep(c, s)
  BY <1>3, TimeoutSteps
<1>4. CASE \E c \in Contexts : CompletionStep(c)
  BY <1>4, CompletionSteps
<1>5. CASE CleanupStep
  BY <1>5, CleanupSteps
<1>6. CASE EnvironmentStep
  BY <1>6, EnvironmentSteps
<1>7. CASE UNCHANGED vars
  <2>1. UNCHANGED <<deviceVars, workVars, threadVars, refVars, fault>> BY <1>7 DEF vars
  <2> QED
    BY <2>1, DeviceFrame, WorkFrame, ThreadFrame, ReferenceFrame, AttemptFrame,
       CleanupFrame, CallerFrame
    DEF Ownership, TypeOK, deviceVars, workVars, threadVars
<1> QED BY <1>1, <1>2, <1>3, <1>4, <1>5, <1>6, <1>7 DEF Next, Halted

\* The invariant holds of every reachable state.
THEOREM OwnershipInvariant == Spec => []Ownership
<1>1. Init => Ownership BY OwnershipInit
<1>2. Ownership /\ [Next]_vars => Ownership' BY OwnershipStep
<1> QED BY <1>1, <1>2, PTL DEF Spec

\* Every variable keeps its type; in particular the generation stays below its
\* modulus and the device never has a state outside its six.
THEOREM TypeCorrect == Spec => []TypeOK
<1>1. Ownership => TypeOK BY DEF Ownership
<1> QED BY <1>1, OwnershipInvariant, PTL

\* The device has a context exactly while an attempt is in progress, and it is
\* that attempt's: handlers that run late, twice or at the same time never
\* leave an attempt without its context or with that of another.
THEOREM AttemptOwned == Spec => []AttemptOwnership
<1>1. Ownership => AttemptOwnership BY DEF Ownership
<1> QED BY <1>1, OwnershipInvariant, PTL

\* What HandOver says of one step.
HandedOver ==
  /\ association_context # None /\ association_context' # association_context
       => association_cleanup_context' = association_context
  /\ association_cleanup_context # None
       => association_cleanup_context' \in {association_cleanup_context, None}

\* A handler that ends an attempt hands its context over and overwrites no
\* other that waits for its cleanup.
LEMMA EndAttemptKeepsBoth ==
  ASSUME Ownership, association_context # None, NEW result \in Verdicts, EndAttempt(result)
  PROVE  HandedOver
  BY EndAttemptHandsOver DEF HandedOver, Ownership, AttemptOwnership

\* No step loses a context: one that leaves the device goes to the cleanup, and
\* one that waits for its cleanup is not replaced by another.
LEMMA OwnershipHandsOver == Ownership /\ [Next]_vars => HandedOver
<1>1. ASSUME Ownership, Next PROVE HandedOver
  <2> USE <1>1 DEF Ownership
  <2>1. ASSUME UNCHANGED <<association_context, association_cleanup_context>> PROVE HandedOver
    BY <2>1 DEF HandedOver
  <2>2. ASSUME NEW t \in Callers, CallerStep(t) PROVE HandedOver
    <3>1. CASE AssociatePublish(t)
      <4>1. state = "DOWN" /\ association_cleanup_context' = association_cleanup_context
        BY <3>1 DEF AssociatePublish, u80211_set_device_state
      <4>2. association_context = None BY <4>1 DEF AttemptOwnership, AttemptStates
      <4> QED BY <4>1, <4>2 DEF HandedOver
    <3>2. CASE ~AssociatePublish(t)
      <4>1. UNCHANGED <<association_context, association_cleanup_context>>
        BY <2>2, <3>2
        DEF CallerStep, CallerProceeds, AssociateEnter, AssociateFail, AssociateReturn,
            DeauthenticateBegin, DeauthenticateEnd, WaitBegin, WaitEnd, TransmitBegin,
            TransmitEnd, deviceVars, attemptVars
      <4> QED BY <4>1, <2>1
    <3> QED BY <3>1, <3>2
  <2>3. ASSUME NEW r \in Receivers, ReceiverStep(r) PROVE HandedOver
    <3>1. CASE ProcessAuthentication(r)
      <4>1. CASE AuthenticationRefused(r, receiver[r].frame)
        <5>1. state = "AUTHENTICATING" /\ EndAttempt("REJECTED")
          BY <4>1 DEF AuthenticationRefused, u80211_set_device_state
        <5>2. association_context # None /\ "REJECTED" \in Verdicts
          BY <5>1 DEF AttemptOwnership, AttemptStates, Verdicts
        <5> QED BY <5>1, <5>2, EndAttemptKeepsBoth
      <4>2. CASE ~AuthenticationRefused(r, receiver[r].frame)
        BY <3>1, <4>2, <2>1
        DEF ProcessAuthentication, AuthenticationAccepted, AuthenticationIgnored, attemptVars
      <4> QED BY <4>1, <4>2
    <3>2. CASE ProcessAssociation(r)
      <4>1. CASE AssociationIgnored(r, receiver[r].frame)
        BY <4>1, <2>1 DEF AssociationIgnored, attemptVars
      <4>2. CASE ~AssociationIgnored(r, receiver[r].frame)
        <5>1. /\ association_context # None
              /\ EndAttempt("REJECTED") \/ EndAttempt("SUCCESS")
          BY <3>2, <4>2
          DEF ProcessAssociation, AssociationRefused, AssociationAccepted, ResponseMatches
        <5>2. "REJECTED" \in Verdicts /\ "SUCCESS" \in Verdicts BY DEF Verdicts
        <5> QED BY <5>1, <5>2, EndAttemptKeepsBoth
      <4> QED BY <4>1, <4>2
    <3>3. ASSUME NEW address \in AccessPoints, NEW deauthentication \in BOOLEAN,
                 association_process_teardown(r, address, deauthentication)
          PROVE  HandedOver
      <4>1. CASE TeardownAttempt(deauthentication)
        <5>1. association_context # None /\ EndAttempt("REJECTED") /\ "REJECTED" \in Verdicts
          BY <4>1 DEF TeardownAttempt, Verdicts
        <5> QED BY <5>1, EndAttemptKeepsBoth
      <4>2. CASE TeardownLink
        BY <4>2, <2>1 DEF TeardownLink
      <4> QED BY <3>3, <4>1, <4>2 DEF association_process_teardown
    <3>4. ASSUME \/ ReceiverEnqueuesCleanup(r)
                 \/ \E sequence_control \in SequenceControls, retry \in BOOLEAN :
                      \/ \E frame \in Frames :
                           ReceiveResponse(r, frame, sequence_control, retry)
                      \/ \E from \in AccessPoints :
                           ReceiveData(r, from, sequence_control, retry)
          PROVE  HandedOver
      BY <3>4, <2>1
      DEF ReceiverEnqueuesCleanup, ReceiveResponse, ReceiveData, deviceVars, attemptVars
    <3> QED BY <2>3, <3>1, <3>2, <3>3, <3>4 DEF ReceiverStep, ReceiverProceeds
  <2>4. ASSUME NEW c \in Contexts, NEW s \in AttemptStates, TimeoutStep(c, s)
        PROVE  HandedOver
    <3>1. CASE association_timeout(c, s) /\ TimeoutApplies(c, s)
      <4>1. EndAttempt("TIMED_OUT") /\ "TIMED_OUT" \in Verdicts
        BY <3>1 DEF association_timeout, Verdicts
      <4>2. association_context # None BY <3>1 DEF TimeoutApplies, AttemptOwnership
      <4> QED BY <4>1, <4>2, EndAttemptKeepsBoth
    <3>2. CASE ~(association_timeout(c, s) /\ TimeoutApplies(c, s))
      BY <2>4, <3>2, <2>1
      DEF TimeoutStep, TimerFires, TimeoutEnqueuesCleanup, association_timeout, deviceVars,
          attemptVars
    <3> QED BY <3>1, <3>2
  <2>5. ASSUME NEW c \in Contexts, CompletionStep(c) PROVE HandedOver
    BY <2>5, <2>1 DEF CompletionStep, CompletionBegin, CompletionEnd, deviceVars, attemptVars
  <2>6. CASE CleanupStep
    BY <2>6, <2>1
    DEF CleanupStep, CleanupTakes, CleanupReleases, CleanupDestroys, CleanupFinishes,
        deviceVars, attemptVars, HandedOver
  <2>7. CASE EnvironmentStep
    BY <2>7, <2>1
    DEF EnvironmentStep, ScanBegin, ScanEnd, Scan, OutsideReleases, OutsideFinds,
        deviceVars, attemptVars
  <2> QED BY <1>1, <2>1, <2>2, <2>3, <2>4, <2>5, <2>6, <2>7
    DEF Next, Halted, vars, deviceVars, attemptVars
<1>2. CASE UNCHANGED vars BY <1>2 DEF vars, deviceVars, attemptVars, HandedOver
<1> QED BY <1>1, <1>2

\* No behaviour loses a context.
THEOREM NoContextLost == Spec => HandOver
<1>1. Ownership /\ [Next]_vars => [HandedOver]_vars BY OwnershipHandsOver
<1> QED BY <1>1, OwnershipInvariant, PTL DEF Spec, HandOver, HandedOver

-----------------------------------------------------------------------------
(***************************************************************************)
(* What a step does to the device.                                         *)
(***************************************************************************)

AttemptBegins ==
  /\ state = "DOWN" /\ state' = "AUTHENTICATING"
  /\ ~association_cleanup_pending /\ UNCHANGED association_cleanup_pending

AttemptGoesOn ==
  /\ state = "AUTHENTICATING" /\ state' = "ASSOCIATING"
  /\ UNCHANGED <<association_cleanup_pending, association_result>>

AttemptFinishes ==
  /\ state \in AttemptStates
  /\ state' = "DOWN" \/ (state' = "ASSOCIATED" /\ association_result' = "SUCCESS")
  /\ association_cleanup_pending' /\ association_result' \in Verdicts

LinkGoes ==
  /\ state \in LinkedStates /\ state' \in {"DEAUTHENTICATING", "DOWN"}
  /\ UNCHANGED <<association_cleanup_pending, association_result>>

ScanMoves ==
  /\ {state, state'} = {"DOWN", "SCANNING"}
  /\ UNCHANGED <<association_cleanup_pending, association_result>>

CleanupIsOver ==
  /\ cleanup.context # None /\ ~association_cleanup_pending'
  /\ wake_association_waiters(association_result)
  /\ UNCHANGED <<state, association_result>>

NothingMoves == UNCHANGED <<state, association_cleanup_pending, association_result>>

DeviceMove ==
  \/ AttemptBegins \/ AttemptGoesOn \/ AttemptFinishes \/ LinkGoes \/ ScanMoves
  \/ CleanupIsOver \/ NothingMoves

\* The device goes through its states in no other way than this.
LEMMA DeviceMoves == Ownership /\ [Next]_vars => DeviceMove
<1> SUFFICES ASSUME Ownership, [Next]_vars PROVE DeviceMove OBVIOUS
<1> USE DEF Ownership
<1>1. ASSUME NEW t \in Callers, CallerStep(t) PROVE DeviceMove
  <2>1. CASE AssociatePublish(t)
    BY <2>1 DEF AssociatePublish, u80211_set_device_state, NotBusy, AttemptBegins, DeviceMove
  <2>2. CASE DeauthenticateBegin(t)
    BY <2>2
    DEF DeauthenticateBegin, u80211_set_device_state, attemptVars, LinkGoes, LinkedStates, DeviceMove
  <2>3. CASE DeauthenticateEnd(t)
    BY <2>3
    DEF DeauthenticateEnd, linkVars, LinkGoes, LinkedStates, NothingMoves, DeviceMove
  <2>4. CASE ~(AssociatePublish(t) \/ DeauthenticateBegin(t) \/ DeauthenticateEnd(t))
    BY <1>1, <2>4
    DEF CallerStep, CallerProceeds, AssociateEnter, AssociateFail, AssociateReturn, WaitBegin,
        WaitEnd, TransmitBegin, TransmitEnd, deviceVars, linkVars, attemptVars, NothingMoves,
        DeviceMove
  <2> QED BY <2>1, <2>2, <2>3, <2>4
<1>2. ASSUME NEW r \in Receivers, ReceiverStep(r) PROVE DeviceMove
  <2>1. CASE ProcessAuthentication(r)
    BY <2>1
    DEF ProcessAuthentication, AuthenticationRefused, AuthenticationAccepted,
        AuthenticationIgnored, u80211_set_device_state, EndAttempt, schedule_association_cleanup,
        Verdict, Verdicts, linkVars, attemptVars, AttemptStates, AttemptFinishes, AttemptGoesOn,
        NothingMoves, DeviceMove
  <2>2. CASE ProcessAssociation(r)
    BY <2>2
    DEF ProcessAssociation, AssociationRefused, AssociationAccepted, AssociationIgnored,
        ResponseMatches, EndAttempt, schedule_association_cleanup, Verdict, Verdicts, linkVars,
        attemptVars, AttemptStates, AttemptFinishes, NothingMoves, DeviceMove
  <2>3. ASSUME NEW address \in AccessPoints, NEW deauthentication \in BOOLEAN,
               association_process_teardown(r, address, deauthentication)
        PROVE  DeviceMove
    BY <2>3
    DEF association_process_teardown, TeardownAttempt, TeardownLink, EndAttempt,
        schedule_association_cleanup, Verdict, Verdicts, LinkedStates, AttemptFinishes,
        LinkGoes, DeviceMove
  <2>4. ASSUME \/ ReceiverEnqueuesCleanup(r)
               \/ \E sequence_control \in SequenceControls, retry \in BOOLEAN :
                    \/ \E frame \in Frames : ReceiveResponse(r, frame, sequence_control, retry)
                    \/ \E from \in AccessPoints : ReceiveData(r, from, sequence_control, retry)
        PROVE  DeviceMove
    BY <2>4
    DEF ReceiverEnqueuesCleanup, ReceiveResponse, ReceiveData, deviceVars, linkVars, attemptVars,
        NothingMoves, DeviceMove
  <2> QED BY <1>2, <2>1, <2>2, <2>3, <2>4 DEF ReceiverStep, ReceiverProceeds
<1>3. ASSUME NEW c \in Contexts, NEW s \in AttemptStates, TimeoutStep(c, s) PROVE DeviceMove
  BY <1>3
  DEF TimeoutStep, TimerFires, TimeoutEnqueuesCleanup, association_timeout, TimeoutApplies,
      EndAttempt, schedule_association_cleanup, Verdict, Verdicts, deviceVars, linkVars,
      attemptVars, AttemptFinishes, NothingMoves, DeviceMove
<1>4. ASSUME NEW c \in Contexts, CompletionStep(c) PROVE DeviceMove
  BY <1>4
  DEF CompletionStep, CompletionBegin, CompletionEnd, deviceVars, linkVars, attemptVars,
      NothingMoves, DeviceMove
<1>5. CASE CleanupStep
  <2>1. CASE CleanupFinishes /\ cleanup.context # None
    BY <2>1 DEF CleanupFinishes, linkVars, CleanupIsOver, DeviceMove
  <2>2. CASE ~(CleanupFinishes /\ cleanup.context # None)
    BY <1>5, <2>2
    DEF CleanupStep, CleanupTakes, CleanupReleases, CleanupDestroys, CleanupFinishes, deviceVars,
        linkVars, attemptVars, NothingMoves, DeviceMove
  <2> QED BY <2>1, <2>2
<1>6. CASE EnvironmentStep
  BY <1>6
  DEF EnvironmentStep, ScanBegin, ScanEnd, Scan, u80211_set_device_state, OutsideReleases,
      OutsideFinds, deviceVars, linkVars, attemptVars, ScanMoves, NothingMoves, DeviceMove
<1>7. CASE UNCHANGED vars
  BY <1>7 DEF vars, deviceVars, linkVars, attemptVars, NothingMoves, DeviceMove
<1> QED BY <1>1, <1>2, <1>3, <1>4, <1>5, <1>6, <1>7 DEF Next, Halted

-----------------------------------------------------------------------------
(***************************************************************************)
(* What a step does to the callers.                                        *)
(***************************************************************************)

\* A caller that neither waits nor is woken goes elsewhere.
CallerProceedsTo(t, next) ==
  /\ caller' = [caller EXCEPT ![t] = next]
  /\ caller[t].at # "waiting" /\ next.at \notin {"waiting", "woken"}
  /\ UNCHANGED association_waiters

CallersWoken == cleanup.context # None /\ wake_association_waiters(association_result)

CallerMove ==
  \/ UNCHANGED <<association_waiters, caller>>
  \/ \E t \in Callers : WaitBegin(t) \/ \E next \in CallerRecords : CallerProceedsTo(t, next)
  \/ CallersWoken

\* Callers begin to wait in one way, and are woken in one way.
LEMMA CallerMoves == Ownership /\ [Next]_vars => CallerMove
<1> SUFFICES ASSUME Ownership, [Next]_vars PROVE CallerMove OBVIOUS
<1> USE DEF Ownership, TypeOK
<1>1. ASSUME NEW t \in Callers, CallerStep(t) PROVE CallerMove
  <2>1. ASSUME NEW next, caller' = [caller EXCEPT ![t] = next],
               caller[t].at # "waiting", next.at \notin {"waiting", "woken"},
               UNCHANGED association_waiters
        PROVE  CallerMove
    <3>1. caller'[t] = next BY <2>1 DEF ThreadTypeOK
    <3>2. caller'[t] \in CallerRecords BY OwnershipStep DEF ThreadTypeOK
    <3> QED BY <2>1, <3>1, <3>2 DEF CallerProceedsTo, CallerMove
  <2>2. CASE WaitBegin(t)
    BY <2>2 DEF CallerMove
  <2>3. CASE \/ AssociateFail(t) \/ AssociateReturn(t) \/ DeauthenticateEnd(t) \/ WaitEnd(t)
             \/ TransmitEnd(t)
    BY <2>1, <2>3
    DEF AssociateFail, AssociateReturn, DeauthenticateEnd, WaitEnd, TransmitEnd, IdleCaller
  <2>4. ASSUME NEW a \in AccessPoints, AssociateEnter(t, a) PROVE CallerMove
    BY <2>1, <2>4 DEF AssociateEnter, IdleCaller
  <2>5. CASE AssociatePublish(t)
    <3>1. PICK c \in FreeBlocks :
            caller' = [caller EXCEPT ![t] = [@ EXCEPT !.at = "authenticate", !.context = c]]
      BY <2>5 DEF AssociatePublish
    <3>2. caller[t] \in CallerRecords BY DEF ThreadTypeOK
    <3> QED BY <2>1, <2>5, <3>1, <3>2 DEF AssociatePublish, CallerRecords
  <2>6. CASE DeauthenticateBegin(t) \/ TransmitBegin(t)
    <3>1. caller[t] \in CallerRecords BY DEF ThreadTypeOK
    <3> QED
      BY <2>1, <2>6, <3>1 DEF DeauthenticateBegin, TransmitBegin, IdleCaller, CallerRecords
  <2> QED BY <1>1, <2>2, <2>3, <2>4, <2>5, <2>6 DEF CallerStep, CallerProceeds
<1>2. CASE CleanupStep
  BY <1>2
  DEF CleanupStep, CleanupTakes, CleanupReleases, CleanupDestroys, CleanupFinishes, threadVars,
      CallersWoken, CallerMove
<1>3. CASE UNCHANGED vars
  BY <1>3 DEF vars, threadVars, CallerMove
<1>4. CASE UNCHANGED <<association_waiters, caller>>
  BY <1>4 DEF CallerMove
<1>5. ASSUME NEW r \in Receivers, ReceiverStep(r) PROVE UNCHANGED <<association_waiters, caller>>
  BY <1>5
  DEF ReceiverStep, ReceiverProceeds, ProcessAuthentication, ProcessAssociation,
      ReceiverEnqueuesCleanup, ReceiveResponse, ReceiveData, association_process_teardown,
      threadVars
<1>6. ASSUME NEW c \in Contexts, NEW s \in AttemptStates, TimeoutStep(c, s) \/ CompletionStep(c)
      PROVE  UNCHANGED <<association_waiters, caller>>
  BY <1>6
  DEF TimeoutStep, TimerFires, TimeoutEnqueuesCleanup, association_timeout, CompletionStep,
      CompletionBegin, CompletionEnd, threadVars
<1>7. CASE EnvironmentStep
  BY <1>7
  DEF EnvironmentStep, ScanBegin, ScanEnd, Scan, OutsideReleases, OutsideFinds, threadVars,
      CallerMove
<1>8. "AUTHENTICATING" \in AttemptStates BY DEF AttemptStates
<1> QED BY <1>1, <1>2, <1>3, <1>4, <1>5, <1>6, <1>7, <1>8 DEF Next, Halted

-----------------------------------------------------------------------------
(***************************************************************************)
(* Waiters are served, with a verdict.                                     *)
(***************************************************************************)

\* Nobody starts to wait for nothing, and what a waiter waits for ends only by
\* waking it, or by handing it over to something else that will.
LEMMA WaitersStep == Ownership /\ WaitersServed /\ [Next]_vars => WaitersServed'
<1> SUFFICES ASSUME Ownership, WaitersServed, [Next]_vars PROVE WaitersServed' OBVIOUS
<1> USE DEF Ownership, TypeOK
<1>1. CallerMove BY CallerMoves
<1>2. DeviceMove BY DeviceMoves
<1>3. CASE CallersWoken
  BY <1>3
  DEF CallersWoken, wake_association_waiters, WokenWaiters, WaitersServed, IdleCaller
<1>4. ASSUME NEW t \in Callers, WaitBegin(t) PROVE WaitersServed'
  BY <1>4 DEF WaitBegin, WaitersServed, deviceVars, linkVars, attemptVars, ThreadTypeOK, CallerRecords
<1>5. ASSUME ~CallersWoken,
             \/ UNCHANGED <<association_waiters, caller>>
             \/ \E t \in Callers, next \in CallerRecords : CallerProceedsTo(t, next)
      PROVE  WaitersServed'
  <2>1. association_waiters' = {t \in Callers : caller'[t].at = "waiting"}
    BY <1>5 DEF WaitersServed, CallerProceedsTo, ThreadTypeOK
  <2>2. association_waiters' = association_waiters BY <1>5 DEF CallerProceedsTo
  <2>3. association_waiters # {} => state' \in AttemptStates \/ association_cleanup_pending'
    BY <1>2, <1>5
    DEF WaitersServed, DeviceMove, AttemptBegins, AttemptGoesOn, AttemptFinishes, LinkGoes,
        ScanMoves, CleanupIsOver, CallersWoken, NothingMoves, AttemptStates, LinkedStates
  <2> QED BY <2>1, <2>2, <2>3 DEF WaitersServed
<1> QED BY <1>1, <1>3, <1>4, <1>5 DEF CallerMove

\* Whoever ends an attempt or its cleanup leaves the verdict there for waiters to
\* be woken with, and only a new attempt takes it back.
LEMMA VerdictStep == Ownership /\ VerdictSound /\ [Next]_vars => VerdictSound'
<1> SUFFICES ASSUME Ownership, VerdictSound, [Next]_vars PROVE VerdictSound' OBVIOUS
<1> USE DEF Ownership, TypeOK
<1>1. CallerMove BY CallerMoves
<1>2. DeviceMove BY DeviceMoves
<1>3. /\ association_cleanup_pending' => association_result' \in Verdicts
      /\ state' \in LinkedStates => association_result' = "SUCCESS"
  BY <1>2
  DEF VerdictSound, DeviceMove, AttemptBegins, AttemptGoesOn, AttemptFinishes, LinkGoes,
      ScanMoves, CleanupIsOver, NothingMoves, AttemptStates, LinkedStates
<1>4. ASSUME NEW u \in Callers, caller'[u].at = "woken" PROVE caller'[u].result \in Verdicts
  <2>1. CASE CallersWoken
    <3>1. association_result \in Verdicts
      BY <2>1 DEF CallersWoken, CleanupLocals, AttemptOwnership, VerdictSound
    <3> QED
      BY <1>4, <2>1, <3>1
      DEF CallersWoken, wake_association_waiters, WokenWaiters, VerdictSound, IdleCaller
  <2>2. CASE UNCHANGED <<association_waiters, caller>>
    BY <1>4, <2>2 DEF VerdictSound
  <2>3. ASSUME NEW t \in Callers, WaitBegin(t) PROVE caller'[u].result \in Verdicts
    BY <1>4, <2>3 DEF WaitBegin, VerdictSound, ThreadTypeOK, CallerRecords
  <2>4. ASSUME NEW t \in Callers, NEW next \in CallerRecords, CallerProceedsTo(t, next)
        PROVE  caller'[u].result \in Verdicts
    BY <1>4, <2>4 DEF CallerProceedsTo, VerdictSound, ThreadTypeOK
  <2> QED BY <1>1, <2>1, <2>2, <2>3, <2>4 DEF CallerMove
<1> QED BY <1>3, <1>4 DEF VerdictSound

-----------------------------------------------------------------------------
(***************************************************************************)
(* Nothing that was handed over is forgotten.                              *)
(***************************************************************************)

\* The cleanup work will run, now or once somebody has come to enqueue it.
CleanupComes == cleanup.pending \/ SomeoneEnqueuesCleanup

\* A request to run the cleanup is never lost but in the run that takes it.
LEMMA CleanupKeepsComing ==
  ASSUME Ownership, [Next]_vars, CleanupComes, ~CleanupTakes
  PROVE  CleanupComes'
<1> USE DEF Ownership, TypeOK
<1>1. CASE CleanupStep
  BY <1>1
  DEF CleanupComes, SomeoneEnqueuesCleanup, CleanupStep, CleanupReleases, CleanupDestroys,
      CleanupFinishes, threadVars, WorkTypeOK, CleanupRecords
<1>2. ASSUME NEW r \in Receivers, ReceiverStep(r) PROVE CleanupComes'
  <2>1. CASE ReceiverEnqueuesCleanup(r)
    BY <2>1 DEF ReceiverEnqueuesCleanup, EnqueueCleanup, CleanupComes, WorkTypeOK, CleanupRecords
  <2>2. CASE ~ReceiverEnqueuesCleanup(r)
    <3>1. /\ receiver[r].at # "enqueue" /\ \A q \in Receivers \ {r} : receiver'[q] = receiver[q]
          /\ UNCHANGED <<cleanup, timeout>>
      BY <1>2, <2>2
      DEF ReceiverStep, ReceiverProceeds, ProcessAuthentication, AuthenticationRefused,
          AuthenticationAccepted, AuthenticationIgnored, ProcessAssociation, AssociationRefused,
          AssociationAccepted, AssociationIgnored, ReceiverLeaves, ReceiveResponse, ReceiveData,
          association_process_teardown, workVars, threadVars, ThreadTypeOK
    <3> QED BY <3>1 DEF CleanupComes, SomeoneEnqueuesCleanup
  <2> QED BY <2>1, <2>2
<1>3. ASSUME NEW c \in Contexts, NEW s \in AttemptStates, TimeoutStep(c, s) PROVE CleanupComes'
  <2>1. CASE TimeoutEnqueuesCleanup(c, s)
    BY <2>1 DEF TimeoutEnqueuesCleanup, EnqueueCleanup, CleanupComes, WorkTypeOK, CleanupRecords
  <2>2. CASE TimerFires(c, s)
    BY <2>2
    DEF TimerFires, threadVars, CleanupComes, SomeoneEnqueuesCleanup, WorkTypeOK, Timeouts
  <2>3. CASE association_timeout(c, s)
    <3>1. /\ UNCHANGED <<cleanup, receiver>> /\ timeout[<<c, s>>] # "enqueue"
          /\ \A k \in Timeouts \ {<<c, s>>} : timeout'[k] = timeout[k]
      BY <2>3 DEF association_timeout, threadVars, WorkTypeOK, Timeouts
    <3> QED BY ONLY <3>1, CleanupComes DEF CleanupComes, SomeoneEnqueuesCleanup, Timeouts
  <2> QED BY <1>3, <2>1, <2>2, <2>3 DEF TimeoutStep
<1>4. ASSUME NEW c \in Contexts, CompletionStep(c) PROVE CleanupComes'
  <2>1. CASE CompletionBegin(c)
    <3>1. UNCHANGED <<cleanup, receiver, timeout>>
      BY <2>1 DEF CompletionBegin, threadVars
    <3> QED BY ONLY <3>1, CleanupComes DEF CleanupComes, SomeoneEnqueuesCleanup
  <2>2. CASE CompletionEnd(c)
    <3>1. /\ UNCHANGED <<cleanup, receiver>>
          /\ \A k \in Timeouts : timeout[k] = "enqueue" => timeout'[k] = "enqueue"
      BY <2>2 DEF CompletionEnd, ArmTimeout, threadVars, WorkTypeOK
    <3> QED BY ONLY <3>1, CleanupComes DEF CleanupComes, SomeoneEnqueuesCleanup
  <2> QED BY <1>4, <2>1, <2>2 DEF CompletionStep
<1>5. ASSUME NEW t \in Callers, CallerStep(t) PROVE CleanupComes'
  <2>1. CASE AssociateReturn(t)
    BY <2>1
    DEF AssociateReturn, ArmTimeout, CleanupComes, SomeoneEnqueuesCleanup, WorkTypeOK, Timeouts
  <2>2. CASE ~AssociateReturn(t)
    BY <1>5, <2>2
    DEF CallerStep, CallerProceeds, AssociateEnter, AssociateFail, AssociatePublish,
        DeauthenticateBegin, DeauthenticateEnd, WaitBegin, WaitEnd, TransmitBegin, TransmitEnd,
        workVars, CleanupComes, SomeoneEnqueuesCleanup
  <2> QED BY <2>1, <2>2
<1>6. CASE EnvironmentStep
  BY <1>6
  DEF EnvironmentStep, ScanBegin, ScanEnd, Scan, OutsideReleases, OutsideFinds, workVars,
      threadVars, CleanupComes, SomeoneEnqueuesCleanup
<1>7. CASE UNCHANGED vars
  BY <1>7 DEF vars, workVars, threadVars, CleanupComes, SomeoneEnqueuesCleanup
<1> QED BY <1>1, <1>2, <1>3, <1>4, <1>5, <1>6, <1>7 DEF Next, Halted

\* The work that is handed something has been, or will be, told.
LEMMA HandingOverAnnounces ==
  ASSUME Ownership, [Next]_vars,
         \/ association_cleanup_pending' /\ ~association_cleanup_pending
         \/ disconnected_ap' \notin {disconnected_ap, None}
  PROVE  SomeoneEnqueuesCleanup'
<1> USE DEF Ownership, TypeOK
<1>1. ASSUME NEW t \in Callers, CallerStep(t) PROVE FALSE
  <2>1. disconnected_ap' \in {disconnected_ap, None} /\ UNCHANGED association_cleanup_pending
    BY <1>1
    DEF CallerStep, CallerProceeds, AssociateEnter, AssociateFail, AssociatePublish,
        AssociateReturn, DeauthenticateBegin, DeauthenticateEnd, WaitBegin, WaitEnd,
        TransmitBegin, TransmitEnd, deviceVars, attemptVars
  <2> QED BY <2>1
<1>2. ASSUME NEW r \in Receivers, ReceiverStep(r) PROVE SomeoneEnqueuesCleanup'
  <2>1. receiver'[r].at = "enqueue"
    <3>1. CASE ProcessAuthentication(r) \/ ProcessAssociation(r)
      BY <3>1
      DEF ProcessAuthentication, AuthenticationRefused, AuthenticationAccepted,
          AuthenticationIgnored, ProcessAssociation, AssociationRefused, AssociationAccepted,
          AssociationIgnored, ReceiverLeaves, IdleReceiver, attemptVars, ThreadTypeOK
    <3>2. ASSUME NEW address \in AccessPoints, NEW deauthentication \in BOOLEAN,
                 association_process_teardown(r, address, deauthentication)
          PROVE  receiver'[r].at = "enqueue"
      BY <3>2 DEF association_process_teardown, ReceiverLeaves, IdleReceiver, ThreadTypeOK
    <3>3. CASE ~(ProcessAuthentication(r) \/ ProcessAssociation(r))
      BY <1>2, <3>2, <3>3
      DEF ReceiverStep, ReceiverProceeds, ReceiverEnqueuesCleanup, ReceiveResponse, ReceiveData,
          deviceVars, attemptVars
    <3> QED BY <3>1, <3>3
  <2> QED BY <2>1 DEF SomeoneEnqueuesCleanup
<1>3. ASSUME NEW c \in Contexts, NEW s \in AttemptStates, TimeoutStep(c, s)
      PROVE  SomeoneEnqueuesCleanup'
  <2>1. association_timeout(c, s) /\ TimeoutApplies(c, s)
    BY <1>3
    DEF TimeoutStep, TimerFires, TimeoutEnqueuesCleanup, association_timeout, deviceVars,
        attemptVars
  <2> QED
    BY <2>1 DEF association_timeout, SomeoneEnqueuesCleanup, WorkTypeOK, Timeouts
<1>4. CASE CleanupStep
  <2>1. /\ disconnected_ap' \in {disconnected_ap, None}
        /\ association_cleanup_pending' => association_cleanup_pending
    BY <1>4
    DEF CleanupStep, CleanupTakes, CleanupReleases, CleanupDestroys, CleanupFinishes,
        DisconnectedLeft, deviceVars, attemptVars
  <2> QED BY <2>1
<1>5. CASE (\E c \in Contexts : CompletionStep(c)) \/ EnvironmentStep \/ UNCHANGED vars
  <2>1. UNCHANGED <<disconnected_ap, association_cleanup_pending>>
    BY <1>5
    DEF CompletionStep, CompletionBegin, CompletionEnd, EnvironmentStep, ScanBegin, ScanEnd,
        Scan, OutsideReleases, OutsideFinds, vars, deviceVars, attemptVars
  <2> QED BY <2>1
<1> QED BY <1>1, <1>2, <1>3, <1>4, <1>5 DEF Next, Halted

\* What the cleanup work has taken stays with it until it is done with it.
LEMMA CleanupKeepsContext ==
  ASSUME Ownership, [Next]_vars, ~CleanupTakes,
         association_cleanup_pending, association_cleanup_pending',
         cleanup.context = association_cleanup_context
  PROVE  cleanup'.context = association_cleanup_context'
<1> USE DEF Ownership, TypeOK
<1>1. association_cleanup_context # None BY DEF AttemptOwnership
<1>2. association_cleanup_context' = association_cleanup_context
  <2>1. HandedOver BY OwnershipHandsOver
  <2>2. association_cleanup_context' # None BY OwnershipStep DEF AttemptOwnership
  <2> QED BY <1>1, <2>1, <2>2 DEF HandedOver
<1>3. cleanup'.context = cleanup.context
  <2>1. CASE CleanupStep
    BY <1>1, <2>1
    DEF CleanupStep, CleanupReleases, CleanupDestroys, CleanupFinishes, WorkTypeOK, CleanupRecords
  <2>2. CASE EnqueueCleanup
    BY <2>2 DEF EnqueueCleanup, WorkTypeOK, CleanupRecords
  <2>3. CASE ~CleanupStep
    <3>1. UNCHANGED cleanup \/ EnqueueCleanup
      BY <2>3
      DEF Next, Halted, vars, CallerStep, CallerProceeds, AssociateEnter, AssociateFail,
          AssociatePublish, AssociateReturn, DeauthenticateBegin, DeauthenticateEnd, WaitBegin,
          WaitEnd, TransmitBegin, TransmitEnd, ReceiverStep, ReceiverProceeds,
          ReceiverEnqueuesCleanup, ReceiveResponse, ReceiveData, ProcessAuthentication,
          ProcessAssociation, association_process_teardown, TimeoutStep, TimerFires,
          association_timeout, TimeoutEnqueuesCleanup, CompletionStep, CompletionBegin,
          CompletionEnd, EnvironmentStep, ScanBegin, ScanEnd, Scan, OutsideReleases,
          OutsideFinds, workVars
    <3> QED BY <2>2, <3>1
  <2> QED BY <2>1, <2>3
<1> QED BY <1>2, <1>3

\* Nobody forgets the cleanup of what was handed over.
LEMMA NotLostStep == Ownership /\ CleanupNotLost /\ [Next]_vars => CleanupNotLost'
<1> SUFFICES ASSUME Ownership, CleanupNotLost, [Next]_vars PROVE CleanupNotLost' OBVIOUS
<1>1. CASE CleanupTakes
  BY <1>1 DEF CleanupTakes, DisconnectedLeft, attemptVars, CleanupNotLost
<1>2. CASE ~CleanupTakes
  <2>1. ASSUME association_cleanup_pending'
        PROVE  CleanupComes' \/ cleanup'.context = association_cleanup_context'
    <3>1. CASE ~association_cleanup_pending
      BY <2>1, <3>1, HandingOverAnnounces DEF CleanupComes
    <3>2. CASE association_cleanup_pending
      BY <1>2, <2>1, <3>2, CleanupKeepsComing, CleanupKeepsContext
      DEF CleanupNotLost, CleanupComes
    <3> QED BY <3>1, <3>2
  <2>2. ASSUME disconnected_ap' # None PROVE CleanupComes'
    <3>1. CASE disconnected_ap' = disconnected_ap
      BY <1>2, <2>2, <3>1, CleanupKeepsComing DEF CleanupNotLost, CleanupComes
    <3>2. CASE disconnected_ap' # disconnected_ap
      BY <2>2, <3>2, HandingOverAnnounces DEF CleanupComes
    <3> QED BY <3>1, <3>2
  <2> QED BY <2>1, <2>2 DEF CleanupNotLost, CleanupComes
<1> QED BY <1>1, <1>2

\* A registered device has no waiters, no verdict and nothing to clean up.
LEMMA ServiceInit == Init => Service
  BY DEF Init, Service, WaitersServed, VerdictSound, CleanupNotLost, IdleCaller, LinkedStates

\* Every step keeps all three promises.
LEMMA ServiceStep == Ownership /\ Service /\ [Next]_vars => Service'
  BY WaitersStep, VerdictStep, NotLostStep DEF Service

\* What waiters and the cleanup are promised holds of every reachable state.
THEOREM ServiceInvariant == Spec => []Service
<1>1. Init => Service BY ServiceInit
<1>2. Ownership /\ Service /\ [Next]_vars => Service' BY ServiceStep
<1> QED BY <1>1, <1>2, OwnershipInvariant, PTL DEF Spec

\* A thread that waits has an attempt, or the cleanup of one, that will wake it.
THEOREM AssociationWaitersServed == Spec => []WaitersServed
<1>1. Service => WaitersServed BY DEF Service
<1> QED BY <1>1, ServiceInvariant, PTL

\* Waiters are woken with a verdict, and a link exists only after a success.
THEOREM VerdictsSound == Spec => []VerdictSound
<1>1. Service => VerdictSound BY DEF Service
<1> QED BY <1>1, ServiceInvariant, PTL

\* The cleanup of what was handed over is with the work, queued or announced.
THEOREM CleanupsNotLost == Spec => []CleanupNotLost
<1>1. Service => CleanupNotLost BY DEF Service
<1> QED BY <1>1, ServiceInvariant, PTL

-----------------------------------------------------------------------------
(***************************************************************************)
(* Where the contexts and their works are.                                 *)
(***************************************************************************)

\* A step that starts no work, and at most hands over the context of an attempt.
LEMMA CustodyKept ==
  ASSUME Ownership, Custody, UNCHANGED context,
         cleanup'.at = cleanup.at, cleanup'.context = cleanup.context,
         \A c \in Contexts :
           /\ completion'[c].at # "idle" => completion[c].at # "idle"
           /\ \A s \in AttemptStates :
                /\ timeout'[<<c, s>>] # "idle" => timeout[<<c, s>>] # "idle"
                /\ timeout'[<<c, s>>] = "armed" => timeout[<<c, s>>] = "armed",
         \/ UNCHANGED <<association_context, association_cleanup_context>>
         \/ association_context # None /\ \E result \in Verdicts : EndAttempt(result)
  PROVE  Custody'
<1> USE DEF Ownership, Custody
<1>1. {association_context, association_cleanup_context} \ {None}
        = {association_context', association_cleanup_context'} \ {None}
  BY EndAttemptHandsOver DEF AttemptOwnership
<1>2. \A c \in Contexts : c # None BY ConstantsAssumption
<1>3. WorksOwned'
  BY <1>1, <1>2 DEF WorksOwned
<1>4. association_cleanup_context' # None /\ cleanup'.context = None
        => context'[association_cleanup_context'].status = "live"
  <2>1. CASE UNCHANGED <<association_context, association_cleanup_context>>
    BY <2>1 DEF ContextStages, Alive
  <2>2. ASSUME NEW result \in Verdicts, association_context # None, EndAttempt(result)
        PROVE  context'[association_cleanup_context'].status = "live"
    <3>1. association_cleanup_context' = association_context BY <2>2, EndAttemptHandsOver
    <3>2. context[association_context].status = "live" BY <2>2 DEF AttemptOwnership
    <3> QED BY <3>1, <3>2
  <2> QED BY <2>1, <2>2
<1>5. ContextStages'
  BY <1>1, <1>2, <1>4 DEF ContextStages, Alive
<1> QED BY <1>3, <1>5

\* The four handlers that start a work or a timer do so for a context that is whole.
LEMMA StartingSteps ==
  ASSUME Ownership, Custody,
         \/ \E t \in Callers : AssociateReturn(t)
         \/ \E r \in Receivers :
              /\ receiver[r].at = "process" /\ ProcessAuthentication(r)
              /\ AuthenticationAccepted(r, receiver[r].frame)
         \/ \E c \in Contexts : CompletionEnd(c)
  PROVE  Custody'
<1> USE DEF Ownership, TypeOK, Custody
<1>1. ASSUME NEW c \in Contexts, NEW s \in AttemptStates, Alive(c), ArmTimeout(c, s),
             \A d \in Contexts : completion'[d].at # "idle" => completion[d].at # "idle",
             UNCHANGED <<association_context, association_cleanup_context, context, cleanup>>
      PROVE  Custody'
  BY <1>1 DEF ArmTimeout, WorksOwned, ContextStages, Alive, WorkTypeOK, Timeouts
<1>2. "AUTHENTICATING" \in AttemptStates /\ "ASSOCIATING" \in AttemptStates
  BY DEF AttemptStates
<1>3. ASSUME NEW t \in Callers, AssociateReturn(t) PROVE Custody'
  <2>1. caller[t].context \in Contexts
    BY <1>3
    DEF AssociateReturn, CallerLocals, ThreadTypeOK, CallerRecords, ContextOrNone
  <2>2. CASE Alive(caller[t].context)
    BY <1>1, <1>2, <1>3, <2>1, <2>2 DEF AssociateReturn, deviceVars, attemptVars
  <2>3. CASE ~Alive(caller[t].context)
    BY <1>3, <2>3, CustodyKept DEF AssociateReturn, deviceVars, attemptVars
  <2> QED BY <2>2, <2>3
<1>4. ASSUME NEW r \in Receivers, ProcessAuthentication(r),
             AuthenticationAccepted(r, receiver[r].frame)
      PROVE  Custody'
  <2>1. association_context \in Contexts /\ Alive(association_context)
    BY <1>4
    DEF AuthenticationAccepted, u80211_set_device_state, AttemptStates, AttemptOwnership,
        DeviceTypeOK, ContextOrNone, Alive
  <2>2. UNCHANGED <<association_context, association_cleanup_context, context, timeout, cleanup>>
    BY <1>4 DEF ProcessAuthentication, AuthenticationAccepted, attemptVars
  <2>3. \A c \in Contexts \ {association_context} : completion'[c] = completion[c]
    BY <1>4, <2>1 DEF AuthenticationAccepted, WorkTypeOK
  <2> QED BY <2>1, <2>2, <2>3 DEF WorksOwned, ContextStages, Alive
<1>5. ASSUME NEW c \in Contexts, CompletionEnd(c) PROVE Custody'
  <2>1. \A d \in Contexts : completion'[d].at # "idle" => completion[d].at # "idle"
    BY <1>5 DEF CompletionEnd, IdleCompletion, WorkTypeOK
  <2>2. CASE Alive(c)
    BY <1>1, <1>2, <1>5, <2>1, <2>2 DEF CompletionEnd, deviceVars, attemptVars
  <2>3. CASE ~Alive(c)
    BY <1>5, <2>1, <2>3, CustodyKept DEF CompletionEnd, deviceVars, attemptVars
  <2> QED BY <2>2, <2>3
<1> QED BY <1>3, <1>4, <1>5

\* A block that is allocated has no works, and belongs to the new attempt.
LEMMA PublishCustody ==
  ASSUME Ownership, Custody, NEW t \in Callers, AssociatePublish(t)
  PROVE  Custody'
<1> USE DEF Ownership, TypeOK, Custody
<1>1. PICK c \in FreeBlocks :
        /\ context' = [context EXCEPT ![c] = [status |-> "live", ap |-> caller[t].ap,
                                              generation |-> association_generation]]
        /\ association_context' = c
  BY DEF AssociatePublish
<1>2. /\ c \in Contexts /\ context[c].status = "free"
      /\ association_context = None /\ association_cleanup_context = None
      /\ cleanup.context = None /\ cleanup.at \notin {"release", "join"}
      /\ UNCHANGED <<association_cleanup_context, completion, timeout, cleanup>>
  BY DEF FreeBlocks, AssociatePublish, u80211_set_device_state, NotBusy, AttemptOwnership,
         AttemptStates, CleanupLocals
<1>3. \A d \in Contexts \ {c} : context'[d] = context[d] BY <1>1 DEF WorkTypeOK
<1>4. context'[c].status = "live" BY <1>1, <1>2 DEF WorkTypeOK
<1>5. WorksOwned'
  BY <1>1, <1>2, <1>3, <1>4, ConstantsAssumption DEF WorksOwned
<1>6. ContextStages'
  BY <1>1, <1>2, <1>3, <1>4, ConstantsAssumption DEF ContextStages, Alive
<1> QED BY <1>5, <1>6

\* The cleanup takes a context through its stages, and lets go of it when there is
\* nothing left that works with it.
LEMMA CleanupCustody ==
  ASSUME Ownership, Custody, CleanupStep
  PROVE  Custody'
<1> USE DEF Ownership, TypeOK, Custody
<1>1. cleanup \in CleanupRecords BY DEF WorkTypeOK
<1>2. CASE CleanupTakes
  <2>1. UNCHANGED <<association_context, association_cleanup_context, context, completion, timeout>>
    BY <1>2 DEF CleanupTakes, attemptVars
  <2>2. /\ cleanup.context = None /\ cleanup'.context = association_cleanup_context
        /\ cleanup'.at = IF association_cleanup_context = None THEN "finish" ELSE "release"
    BY <1>2 DEF CleanupTakes, CleanupLocals
  <2> QED BY <2>1, <2>2 DEF WorksOwned, ContextStages, Alive
<1>3. ASSUME \/ cleanup.at \in {"release", "join"}
             \/ cleanup.at = "finish" /\ cleanup.context # None
      PROVE  /\ cleanup.context \in Contexts /\ cleanup.context # None
             /\ cleanup.context = association_cleanup_context
             /\ association_context = None
  BY <1>1, <1>3 DEF CleanupRecords, ContextOrNone, CleanupLocals, AttemptOwnership
<1>4. CASE CleanupReleases
  <2> DEFINE d == cleanup.context
  <2>1. /\ cleanup.at = "release" /\ d \in Contexts /\ d # None
        /\ association_context = None /\ association_cleanup_context = d
    BY <1>3, <1>4 DEF CleanupReleases
  <2>2. /\ association_context' = None /\ association_cleanup_context' = d
        /\ cleanup'.at = "join" /\ cleanup'.context = d /\ UNCHANGED completion
        /\ context'[d].status = "closing"
        /\ \A c \in Contexts \ {d} : context'[c] = context[c]
        /\ context[d].status = "live"
    BY <1>1, <1>4, <2>1
    DEF CleanupReleases, deviceVars, attemptVars, CleanupRecords, WorkTypeOK, ContextRecords,
        ContextStages, Alive
  <2>3. \A c \in Contexts, s \in AttemptStates :
          /\ timeout'[<<c, s>>] # "idle" => timeout[<<c, s>>] # "idle"
          /\ timeout'[<<c, s>>] = "armed" => timeout[<<c, s>>] = "armed" /\ c # d
    BY <1>4 DEF CleanupReleases, WorkTypeOK, Timeouts
  <2> HIDE DEF d
  <2>4. WorksOwned' BY <2>2, <2>3, <2>1 DEF WorksOwned
  <2>5. ContextStages' BY <2>2, <2>3, <2>1 DEF ContextStages, Alive
  <2> QED BY <2>4, <2>5
<1>5. CASE CleanupDestroys
  <2> DEFINE d == cleanup.context
  <2>1. /\ cleanup.at = "join" /\ d \in Contexts /\ d # None
        /\ association_context = None /\ association_cleanup_context = d
    BY <1>3, <1>5 DEF CleanupDestroys
  <2>2. /\ association_context' = None /\ association_cleanup_context' = d
        /\ cleanup'.at = "finish" /\ cleanup'.context = d
        /\ context'[d].status = "free" /\ context[d].status = "closing"
        /\ \A c \in Contexts \ {d} : context'[c] = context[c]
    BY <1>1, <1>5, <2>1
    DEF CleanupDestroys, deviceVars, attemptVars, CleanupRecords, WorkTypeOK, FreeContext,
        ContextStages
  <2>3. /\ completion'[d].at = "idle"
        /\ \A c \in Contexts \ {d} : completion'[c] = completion[c]
    BY <1>5, <2>1 DEF CleanupDestroys, Joined, WorkTypeOK, CompletionRecords, IdleCompletion
  <2>4. \A c \in Contexts, s \in AttemptStates :
          timeout'[<<c, s>>] = IF c = d THEN "idle" ELSE timeout[<<c, s>>]
    <3>1. ASSUME NEW s \in AttemptStates PROVE timeout[<<d, s>>] \in {"idle", "queued"}
      <4>1. timeout[<<d, s>>] # "enqueue" BY <1>5 DEF CleanupDestroys, Joined
      <4>2. timeout[<<d, s>>] # "armed" BY <2>2, <2>1 DEF ContextStages, Alive
      <4>3. timeout[<<d, s>>] \in {"idle", "armed", "queued", "enqueue"}
        BY <2>1 DEF WorkTypeOK, Timeouts
      <4> QED BY <4>1, <4>2, <4>3
    <3> QED BY <1>5, <3>1 DEF CleanupDestroys, Timeouts
  <2> HIDE DEF d
  <2>5. WorksOwned'
    <3> SUFFICES ASSUME NEW c \in Contexts,
                        \/ completion'[c].at # "idle"
                        \/ \E s \in AttemptStates : timeout'[<<c, s>>] # "idle"
                 PROVE  /\ c \in {association_context', association_cleanup_context'}
                        /\ context'[c].status # "free"
      BY DEF WorksOwned
    <3>1. c # d BY <2>3, <2>4
    <3>2. completion[c].at # "idle" \/ \E s \in AttemptStates : timeout[<<c, s>>] # "idle"
      BY <2>3, <2>4, <3>1
    <3> QED BY <2>2, <2>1, <3>1, <3>2 DEF WorksOwned
  <2>6. ContextStages' BY <2>2, <2>1, <2>4 DEF ContextStages, Alive
  <2> QED BY <2>5, <2>6
<1>6. CASE CleanupFinishes
  <2>1. /\ UNCHANGED <<association_context, context, completion, timeout>>
        /\ cleanup'.at = "idle" /\ cleanup'.context = None
    BY <1>1, <1>6 DEF CleanupFinishes, CleanupRecords
  <2>2. CASE cleanup.context = None
    <3>1. UNCHANGED association_cleanup_context BY <1>6, <2>2 DEF CleanupFinishes
    <3> QED BY <2>1, <2>2, <3>1 DEF WorksOwned, ContextStages, Alive
  <2>3. CASE cleanup.context # None
    <3>1. /\ association_cleanup_context' = None
          /\ association_cleanup_context = cleanup.context
          /\ context[cleanup.context].status = "free"
      BY <1>3, <1>6, <2>3 DEF CleanupFinishes, ContextStages
    <3> QED BY <2>1, <3>1 DEF WorksOwned, ContextStages, Alive
  <2> QED BY <2>2, <2>3
<1> QED BY <1>2, <1>4, <1>5, <1>6 DEF CleanupStep

\* Every step leaves the works with a context that is not free.
LEMMA CustodyStep == Ownership /\ Custody /\ [Next]_vars => Custody'
<1> SUFFICES ASSUME Ownership, Custody, [Next]_vars PROVE Custody' OBVIOUS
<1> USE DEF Ownership, TypeOK
<1>1. ASSUME UNCHANGED <<association_context, association_cleanup_context, context, completion,
                         timeout>>,
             UNCHANGED cleanup \/ EnqueueCleanup
      PROVE  Custody'
  BY <1>1, CustodyKept DEF EnqueueCleanup, WorkTypeOK, CleanupRecords
<1>2. ASSUME NEW t \in Callers, CallerStep(t) PROVE Custody'
  <2>1. CASE ~(AssociatePublish(t) \/ AssociateReturn(t))
    BY <1>1, <1>2, <2>1
    DEF CallerStep, CallerProceeds, AssociateEnter, AssociateFail, DeauthenticateBegin,
        DeauthenticateEnd, WaitBegin, WaitEnd, TransmitBegin, TransmitEnd, deviceVars,
        attemptVars, workVars
  <2> QED BY <2>1, PublishCustody, StartingSteps
<1>3. ASSUME NEW r \in Receivers, ReceiverStep(r) PROVE Custody'
  <2>1. CASE ProcessAuthentication(r)
    <3>1. CASE AuthenticationAccepted(r, receiver[r].frame)
      BY <2>1, <3>1, StartingSteps DEF ProcessAuthentication
    <3>2. CASE AuthenticationIgnored(r, receiver[r].frame)
      BY <1>1, <2>1, <3>2 DEF ProcessAuthentication, AuthenticationIgnored, attemptVars
    <3>3. CASE AuthenticationRefused(r, receiver[r].frame)
      <4>1. EndAttempt("REJECTED") /\ association_context # None /\ "REJECTED" \in Verdicts
        BY <3>3
        DEF AuthenticationRefused, u80211_set_device_state, AttemptOwnership, AttemptStates,
            Verdicts
      <4>2. UNCHANGED <<context, completion, timeout, cleanup>>
        BY <2>1, <3>3 DEF ProcessAuthentication, AuthenticationRefused
      <4> QED BY <4>1, <4>2, CustodyKept
    <3> QED BY <2>1, <3>1, <3>2, <3>3 DEF ProcessAuthentication
  <2>2. CASE ProcessAssociation(r)
    <3>1. UNCHANGED <<context, completion, timeout, cleanup>>
      BY <2>2 DEF ProcessAssociation, workVars
    <3>2. CASE AssociationIgnored(r, receiver[r].frame)
      BY <1>1, <3>1, <3>2 DEF AssociationIgnored, attemptVars
    <3>3. CASE ~AssociationIgnored(r, receiver[r].frame)
      <4>1. association_context # None /\ \E result \in Verdicts : EndAttempt(result)
        BY <2>2, <3>3
        DEF ProcessAssociation, AssociationRefused, AssociationAccepted, ResponseMatches, Verdicts
      <4> QED BY <3>1, <4>1, CustodyKept
    <3> QED BY <3>2, <3>3
  <2>3. ASSUME NEW address \in AccessPoints, NEW deauthentication \in BOOLEAN,
               association_process_teardown(r, address, deauthentication)
        PROVE  Custody'
    <3>1. UNCHANGED <<context, completion, timeout, cleanup>>
      BY <2>3 DEF association_process_teardown, workVars
    <3>2. CASE TeardownAttempt(deauthentication)
      BY <3>1, <3>2, CustodyKept DEF TeardownAttempt, Verdicts
    <3>3. CASE TeardownLink
      BY <1>1, <3>1, <3>3 DEF TeardownLink
    <3> QED BY <2>3, <3>2, <3>3 DEF association_process_teardown
  <2>4. CASE \/ ReceiverEnqueuesCleanup(r)
             \/ \E sequence_control \in SequenceControls, retry \in BOOLEAN :
                  \/ \E frame \in Frames : ReceiveResponse(r, frame, sequence_control, retry)
                  \/ \E from \in AccessPoints : ReceiveData(r, from, sequence_control, retry)
    BY <1>1, <2>4
    DEF ReceiverEnqueuesCleanup, ReceiveResponse, ReceiveData, deviceVars, attemptVars, workVars
  <2> QED BY <1>3, <2>1, <2>2, <2>3, <2>4 DEF ReceiverStep, ReceiverProceeds
<1>4. ASSUME NEW c \in Contexts, NEW s \in AttemptStates, TimeoutStep(c, s) PROVE Custody'
  <2>1. /\ UNCHANGED <<context, completion>> /\ (UNCHANGED cleanup \/ EnqueueCleanup)
        /\ timeout[<<c, s>>] # "idle"
        /\ \E value \in {"idle", "queued", "enqueue"} :
             timeout' = [timeout EXCEPT ![<<c, s>>] = value]
        /\ \/ UNCHANGED <<association_context, association_cleanup_context>>
           \/ association_context # None /\ \E result \in Verdicts : EndAttempt(result)
    <3>1. CASE association_timeout(c, s) /\ TimeoutApplies(c, s)
      <4>1. c # None BY ConstantsAssumption
      <4> QED BY <3>1, <4>1 DEF association_timeout, TimeoutApplies, Verdicts
    <3>2. CASE ~(association_timeout(c, s) /\ TimeoutApplies(c, s))
      BY <1>4, <3>2
      DEF TimeoutStep, TimerFires, TimeoutEnqueuesCleanup, association_timeout, deviceVars,
          attemptVars
    <3> QED BY <3>1, <3>2
  <2>2. cleanup'.at = cleanup.at /\ cleanup'.context = cleanup.context
    BY <2>1 DEF EnqueueCleanup, WorkTypeOK, CleanupRecords
  <2>3. \A d \in Contexts, u \in AttemptStates :
          /\ timeout'[<<d, u>>] # "idle" => timeout[<<d, u>>] # "idle"
          /\ timeout'[<<d, u>>] = "armed" => timeout[<<d, u>>] = "armed"
    BY <2>1 DEF WorkTypeOK, Timeouts
  <2> QED BY <2>1, <2>2, <2>3, CustodyKept
<1>5. ASSUME NEW c \in Contexts, CompletionStep(c) PROVE Custody'
  <2>1. CASE CompletionBegin(c)
    <3>1. UNCHANGED <<association_context, association_cleanup_context, context, timeout, cleanup>>
      BY <2>1 DEF CompletionBegin, deviceVars, attemptVars
    <3>2. \A d \in Contexts : completion'[d].at # "idle" => completion[d].at # "idle"
      BY <2>1 DEF CompletionBegin, WorkTypeOK
    <3> QED BY <3>1, <3>2, CustodyKept
  <2>2. CASE CompletionEnd(c)
    BY <2>2, StartingSteps
  <2> QED BY <1>5, <2>1, <2>2 DEF CompletionStep
<1>6. CASE CleanupStep
  BY <1>6, CleanupCustody
<1>7. CASE EnvironmentStep \/ UNCHANGED vars
  BY <1>1, <1>7
  DEF EnvironmentStep, ScanBegin, ScanEnd, Scan, OutsideReleases, OutsideFinds, vars,
      deviceVars, attemptVars, workVars
<1> QED BY <1>2, <1>3, <1>4, <1>5, <1>6, <1>7 DEF Next, Halted

\* A registered device has no contexts.
LEMMA CustodyInit == Init => Custody
<1> SUFFICES ASSUME Init PROVE Custody OBVIOUS
<1>1. \A c \in Contexts :
        /\ completion[c].at = "idle" /\ context[c].status = "free"
        /\ \A s \in AttemptStates : timeout[<<c, s>>] = "idle"
  BY DEF Init, FreeContext, IdleCompletion, Timeouts
<1>2. association_cleanup_context = None /\ cleanup.at = "idle" BY DEF Init
<1> QED BY <1>1, <1>2 DEF Custody, WorksOwned, ContextStages

\* Where contexts and works are, in every reachable state.
THEOREM CustodyInvariant == Spec => []Custody
<1>1. Init => Custody BY CustodyInit
<1>2. Ownership /\ Custody /\ [Next]_vars => Custody' BY CustodyStep
<1> QED BY <1>1, <1>2, OwnershipInvariant, PTL DEF Spec

\* No work outlives its context: one that is queued or runs belongs to the attempt
\* in progress or to the one whose cleanup is not over, and is not freed.
THEOREM WorksStayOwned == Spec => []WorksOwned
<1>1. Custody => WorksOwned BY DEF Custody
<1> QED BY <1>1, CustodyInvariant, PTL

=============================================================================
