----------------------------- MODULE Association -----------------------------
(***************************************************************************)
(* The association state machine of src/association.c, with the works and  *)
(* timers it asks the kernel for, the packet receivers that drive it and   *)
(* the API callers that start, await, use and end an association.          *)
(*                                                                         *)
(* One action is one critical section of association_spinlock, or one      *)
(* kernel call made outside of it, so every window the code leaves between *)
(* "unlock" and the next effect is a window here.  A receiver may be given *)
(* any frame of any access point at any time, which covers lost, repeated, *)
(* late and reordered answers.                                             *)
(*                                                                         *)
(* A definition named X_Y, with a capital Y, is X with a defect.  No       *)
(* action uses it: the properties are tested by putting it in X's place.   *)
(***************************************************************************)
EXTENDS Integers, FiniteSets

CONSTANTS
  AccessPoints,      \* u80211_ap_t objects, told apart by their MAC address
  Contexts,          \* heap blocks an association context can occupy
  Callers,           \* threads that call the public API
  Receivers,         \* CPUs that run u80211_process_packet
  Frames,            \* the answers that can be received, see Responses
  SequenceControls,  \* values of the sequence control field of a frame
  GenerationSize,    \* association_generation is counted modulo this number
  None               \* the NULL pointer, and an invalid sequence control

AttemptStates == {"AUTHENTICATING", "ASSOCIATING"}
LinkedStates == {"ASSOCIATED", "DEAUTHENTICATING"}
DeviceStates == AttemptStates \cup LinkedStates \cup {"DOWN", "SCANNING"}
Verdicts == {"SUCCESS", "REJECTED", "TIMED_OUT"}
Results == Verdicts \cup {"UNKNOWN_ERROR"}

\* The frames that answer an attempt.  A "mismatch" is an authentication
\* frame of another algorithm or of another stage of the exchange.
Responses ==
  [kind : {"authentication"}, from : AccessPoints, status : {"ok", "refused", "mismatch"}]
    \cup [kind : {"association"}, from : AccessPoints, status : {"ok", "refused"}]

ASSUME ConstantsAssumption ==
  /\ Frames \subseteq Responses
  /\ GenerationSize \in Nat \ {0}
  /\ None \notin AccessPoints \cup Contexts \cup SequenceControls \cup Frames \cup Results
  /\ IsFiniteSet(Contexts) /\ IsFiniteSet(Callers)

VARIABLES
  \* u80211_device_t
  state, ap, disconnected_ap,
  association_context, association_cleanup_context, association_cleanup_pending,
  association_generation, association_result, association_waiters,
  received_sequence_control,
  \* u80211_association_context_t; a "closing" one has lost its timers and its
  \* access point, but not yet its works
  context,
  \* completion_work, with the pointer u80211_send_association_request uses
  completion,
  \* the two timeouts, each a timer and its work, by the state they expect
  timeout,
  \* association_cleanup_work: is it pending, and where is its callback
  cleanup,
  caller, receiver,
  \* u80211_ap_t.refcount; the access points for which code outside this module
  \* (the BSS cache, the user) holds a reference; references nobody can drop
  refcount, outside, lost,
  \* the kind of destroyed object that was used last, if one was; "null" or
  \* "crash" once the program has stopped
  fault

linkVars == <<state, ap>>
attemptVars == <<association_context, association_cleanup_context,
                 association_cleanup_pending, association_generation, association_result>>
deviceVars == <<linkVars, attemptVars, disconnected_ap, received_sequence_control>>
workVars == <<context, completion, timeout, cleanup>>
threadVars == <<association_waiters, caller, receiver>>
refVars == <<refcount, outside, lost>>
vars == <<deviceVars, workVars, threadVars, refVars, fault>>

Timeouts == Contexts \X AttemptStates

APOrNone == AccessPoints \cup {None}
ContextOrNone == Contexts \cup {None}
Generations == 0 .. GenerationSize - 1

ContextRecords ==
  [status : {"free", "live", "closing"}, ap : APOrNone, generation : Generations]
CompletionRecords == [at : {"idle", "pending", "sending"}, ap : APOrNone]
CleanupRecords ==
  [pending : BOOLEAN, at : {"idle", "release", "join", "finish"}, context : ContextOrNone,
   ap : APOrNone]
CallerPlaces ==
  {"idle", "associate", "authenticate", "waiting", "woken", "deauthenticate", "transmit"}
CallerRecords ==
  [at : CallerPlaces, ap : APOrNone, context : ContextOrNone, result : Results \cup {None}]
ReceiverRecords == [at : {"idle", "process", "enqueue"}, frame : Frames \cup {None}]

DeviceTypeOK ==
  /\ state \in DeviceStates
  /\ ap \in APOrNone
  /\ disconnected_ap \in APOrNone
  /\ association_context \in ContextOrNone
  /\ association_cleanup_context \in ContextOrNone
  /\ association_cleanup_pending \in BOOLEAN
  /\ association_generation \in Generations
  /\ association_result \in Results
  /\ received_sequence_control \in SequenceControls \cup {None}

WorkTypeOK ==
  /\ context \in [Contexts -> ContextRecords]
  /\ completion \in [Contexts -> CompletionRecords]
  /\ timeout \in [Timeouts -> {"idle", "armed", "queued", "enqueue"}]
  /\ cleanup \in CleanupRecords

ThreadTypeOK ==
  /\ association_waiters \subseteq Callers
  /\ caller \in [Callers -> CallerRecords]
  /\ receiver \in [Receivers -> ReceiverRecords]

ReferenceTypeOK ==
  /\ refcount \in [AccessPoints -> Int]
  /\ outside \subseteq AccessPoints
  /\ lost \in [AccessPoints -> Nat]
  /\ fault \in {"none", "timer", "access point", "null", "crash"}

TypeOK == DeviceTypeOK /\ WorkTypeOK /\ ThreadTypeOK /\ ReferenceTypeOK

FreeContext == [status |-> "free", ap |-> None, generation |-> 0]
IdleCompletion == [at |-> "idle", ap |-> None]
IdleCaller == [at |-> "idle", ap |-> None, context |-> None, result |-> None]
IdleReceiver == [at |-> "idle", frame |-> None]

\* u80211_register_device, and a first scan that found every access point.
Init ==
  /\ state = "DOWN"
  /\ ap = None /\ disconnected_ap = None
  /\ association_context = None
  /\ association_cleanup_context = None
  /\ association_cleanup_pending = FALSE
  /\ association_generation = 0
  /\ association_result = "UNKNOWN_ERROR"
  /\ association_waiters = {}
  /\ received_sequence_control = None
  /\ context = [c \in Contexts |-> FreeContext]
  /\ completion = [c \in Contexts |-> IdleCompletion]
  /\ timeout = [w \in Timeouts |-> "idle"]
  /\ cleanup = [pending |-> FALSE, at |-> "idle", context |-> None, ap |-> None]
  /\ caller = [t \in Callers |-> IdleCaller]
  /\ receiver = [r \in Receivers |-> IdleReceiver]
  /\ refcount = [a \in AccessPoints |-> 1]
  /\ outside = AccessPoints
  /\ lost = [a \in AccessPoints |-> 0]
  /\ fault = "none"

-----------------------------------------------------------------------------
(***************************************************************************)
(* Shared steps of the handlers.                                           *)
(***************************************************************************)

u80211_ap_hold(a) == refcount' = [refcount EXCEPT ![a] = @ + 1]

\* u80211_ap_release on each non-NULL pointer of the set.
ReleaseAll(pointers) ==
  refcount' = [a \in AccessPoints |-> IF a \in pointers THEN refcount[a] - 1 ELSE refcount[a]]

\* An atomic compare-and-exchange that succeeds.
u80211_set_device_state(old, new) == state = old /\ state' = new

NextGeneration_Unbounded == association_generation' = association_generation + 1
NextGeneration == association_generation' = (association_generation + 1) % GenerationSize

Verdict_Forgotten(result) == UNCHANGED association_result
Verdict(result) == association_result' = result

schedule_association_cleanup_KeepsContext(c) ==
  /\ UNCHANGED association_context
  /\ association_cleanup_context' = c
  /\ association_cleanup_pending' = TRUE

schedule_association_cleanup(c) ==
  /\ association_context' = None
  /\ association_cleanup_context' = c
  /\ association_cleanup_pending' = TRUE

\* What every handler that ends the attempt in progress does, success apart.
EndAttempt(result) ==
  /\ schedule_association_cleanup(association_context)
  /\ NextGeneration
  /\ Verdict(result)

\* A request for a work that is pending already is ignored.
EnqueueCleanup_IgnoredWhileRunning ==
  cleanup' = [cleanup EXCEPT !.pending = @ \/ cleanup.at = "idle"]
EnqueueCleanup == cleanup' = [cleanup EXCEPT !.pending = TRUE]

ArmTimeout_OnlyFirst(c, s) ==
  timeout' = [timeout EXCEPT ![<<c, s>>] = IF @ = "idle" /\ s = "AUTHENTICATING" THEN "armed" ELSE @]
ArmTimeout(c, s) == timeout' = [timeout EXCEPT ![<<c, s>>] = IF @ = "idle" THEN "armed" ELSE @]

\* A context is whole until its cleanup frees the first of its timers.
Alive(c) == context[c].status = "live"

\* Undefined behaviour: the program stops, or goes on as if nothing happened.
UseOfDestroyed(objects) ==
  IF objects = {} THEN UNCHANGED fault ELSE fault' \in objects \cup {"crash"}

-----------------------------------------------------------------------------
(***************************************************************************)
(* u80211_associate.                                                       *)
(***************************************************************************)

\* release_disconnected_ap, then the allocations.  The release of a pointer
\* that no other thread can reach any more is part of the step that took it.
AssociateEnter(t, a) ==
  /\ caller[t].at = "idle"
  /\ a \in outside
  /\ ReleaseAll({disconnected_ap})
  /\ disconnected_ap' = None
  /\ caller' = [caller EXCEPT ![t] = [IdleCaller EXCEPT !.at = "associate", !.ap = a]]
  /\ UNCHANGED <<linkVars, attemptVars, received_sequence_control, workVars,
                 association_waiters, receiver, outside, lost, fault>>

\* ENOMEM from any of the allocations, or BUSY.
AssociateFail(t) ==
  /\ caller[t].at = "associate"
  /\ caller' = [caller EXCEPT ![t] = IdleCaller]
  /\ UNCHANGED <<deviceVars, workVars, association_waiters, receiver, refVars, fault>>

\* The allocator may return any free block.  Blocks that a caller still points
\* to are not reused, so that a late use of one is seen as what it is.
FreeBlocks ==
  {c \in Contexts : context[c].status = "free" /\ \A t \in Callers : caller[t].context # c}

NotBusy_CleanupIgnored == TRUE
NotBusy == ~association_cleanup_pending

\* The critical section that publishes the attempt.
AssociatePublish(t) ==
  /\ caller[t].at = "associate"
  /\ NotBusy
  /\ u80211_set_device_state("DOWN", "AUTHENTICATING")
  /\ \E c \in FreeBlocks :
       /\ context' = [context EXCEPT ![c] = [status |-> "live", ap |-> caller[t].ap,
                                             generation |-> association_generation]]
       /\ association_context' = c
       /\ caller' = [caller EXCEPT ![t] = [@ EXCEPT !.at = "authenticate", !.context = c]]
  /\ association_result' = "UNKNOWN_ERROR"
  /\ ap' = caller[t].ap
  /\ received_sequence_control' = None
  /\ u80211_ap_hold(caller[t].ap)
  /\ UNCHANGED <<disconnected_ap, association_cleanup_context, association_cleanup_pending,
                 association_generation, completion, timeout, cleanup,
                 association_waiters, receiver, outside, lost, fault>>

\* After the lock: set_channel, the authentication frame, the timer.  Any
\* answer, and the cleanup it leads to, may have come before.
AssociateReturn(t) ==
  /\ caller[t].at = "authenticate"
  /\ IF Alive(caller[t].context)
       THEN ArmTimeout(caller[t].context, "AUTHENTICATING") /\ UNCHANGED fault
       ELSE UseOfDestroyed({"timer"}) /\ UNCHANGED timeout
  /\ caller' = [caller EXCEPT ![t] = IdleCaller]
  /\ UNCHANGED <<deviceVars, context, completion, cleanup, association_waiters, receiver,
                 refVars>>

-----------------------------------------------------------------------------
(***************************************************************************)
(* u80211_deauthenticate, u80211_wait_for_association_completion, and what *)
(* u80211_transmit_buffer does with the link.  A call that returns at once *)
(* changes nothing and is no action.                                       *)
(***************************************************************************)

DeauthenticateBegin(t) ==
  /\ caller[t].at = "idle"
  /\ ap # None
  /\ u80211_set_device_state("ASSOCIATED", "DEAUTHENTICATING")
  /\ caller' = [caller EXCEPT ![t].at = "deauthenticate"]
  /\ UNCHANGED <<ap, attemptVars, disconnected_ap, received_sequence_control, workVars,
                 association_waiters, receiver, refVars, fault>>

\* The second critical section, after the frame was sent.
DeauthenticateEnd(t) ==
  /\ caller[t].at = "deauthenticate"
  /\ IF ap # None /\ state = "DEAUTHENTICATING"
       THEN /\ state' = "DOWN"
            /\ ap' = None
            /\ NextGeneration
            /\ ReleaseAll({ap})
       ELSE UNCHANGED <<linkVars, association_generation, refcount>>
  /\ caller' = [caller EXCEPT ![t] = IdleCaller]
  /\ UNCHANGED <<association_context, association_cleanup_context,
                 association_cleanup_pending, association_result, disconnected_ap,
                 received_sequence_control, workVars, association_waiters, receiver,
                 outside, lost, fault>>

WaitBegin(t) ==
  /\ caller[t].at = "idle"
  /\ state \in AttemptStates \/ association_cleanup_pending
  /\ association_waiters' = association_waiters \cup {t}
  /\ caller' = [caller EXCEPT ![t].at = "waiting"]
  /\ UNCHANGED <<deviceVars, workVars, receiver, refVars, fault>>

WaitEnd(t) ==
  /\ caller[t].at = "woken"
  /\ caller' = [caller EXCEPT ![t] = IdleCaller]
  /\ UNCHANGED <<deviceVars, workVars, association_waiters, receiver, refVars, fault>>

WokenWaiters_OnlyFirst ==
  IF association_waiters = {} THEN {} ELSE {CHOOSE t \in association_waiters : TRUE}
WokenWaiters == association_waiters

wake_association_waiters(result) ==
  /\ association_waiters' = association_waiters \ WokenWaiters
  /\ caller' = [t \in Callers |->
       IF t \in WokenWaiters THEN [IdleCaller EXCEPT !.at = "woken", !.result = result]
                             ELSE caller[t]]

TransmitBegin(t) ==
  /\ caller[t].at = "idle"
  /\ state = "ASSOCIATED" /\ ap # None
  /\ u80211_ap_hold(ap)
  /\ caller' = [caller EXCEPT ![t] = [IdleCaller EXCEPT !.at = "transmit", !.ap = ap]]
  /\ UNCHANGED <<deviceVars, workVars, association_waiters, receiver, outside, lost, fault>>

TransmitEnd(t) ==
  /\ caller[t].at = "transmit"
  /\ ReleaseAll({caller[t].ap})
  /\ caller' = [caller EXCEPT ![t] = IdleCaller]
  /\ UNCHANGED <<deviceVars, workVars, association_waiters, receiver, outside, lost, fault>>

-----------------------------------------------------------------------------
(***************************************************************************)
(* Packet receivers.                                                       *)
(***************************************************************************)

ExpectedState(kind) ==
  CASE kind = "authentication" -> "AUTHENTICATING"
    [] kind = "association" -> "ASSOCIATING"
    [] kind = "data" -> "ASSOCIATED"

\* u80211_association_is_duplicate, for a frame that it does not drop.  (One
\* that it drops changes nothing.)
NotDuplicate(from, kind, sequence_control, retry) ==
  IF state = ExpectedState(kind) /\ ap = from
    THEN /\ ~(retry /\ received_sequence_control = sequence_control)
         /\ received_sequence_control' = sequence_control
    ELSE UNCHANGED received_sequence_control

\* An answer passes the filter.  What it says is processed in a later step.
ReceiveResponse(r, frame, sequence_control, retry) ==
  /\ receiver[r].at = "idle"
  /\ NotDuplicate(frame.from, frame.kind, sequence_control, retry)
  /\ receiver' = [receiver EXCEPT ![r] = [at |-> "process", frame |-> frame]]
  /\ UNCHANGED <<linkVars, attemptVars, disconnected_ap, workVars, association_waiters,
                 caller, refVars, fault>>

ReceiveData(r, from, sequence_control, retry) ==
  /\ receiver[r].at = "idle"
  /\ NotDuplicate(from, "data", sequence_control, retry)
  /\ UNCHANGED <<linkVars, attemptVars, disconnected_ap, workVars, threadVars, refVars, fault>>

\* Leaves the lock, with the cleanup still to be enqueued or not.
ReceiverLeaves(r, cleanup_needed) ==
  receiver' = [receiver EXCEPT ![r] =
    IF cleanup_needed THEN [IdleReceiver EXCEPT !.at = "enqueue"] ELSE IdleReceiver]

\* u80211_association_process_authentication: the station is refused ...
AuthenticationRefused(r, frame) ==
  /\ ap = frame.from /\ frame.status = "refused"
  /\ u80211_set_device_state("AUTHENTICATING", "DOWN")
  /\ ap' = None
  /\ EndAttempt("REJECTED")
  /\ ReceiverLeaves(r, TRUE)
  /\ UNCHANGED completion

\* ... or accepted, and the association request is left to a work ...
AuthenticationAccepted(r, frame) ==
  /\ ap = frame.from /\ frame.status = "ok"
  /\ u80211_set_device_state("AUTHENTICATING", "ASSOCIATING")
  /\ completion' = [completion EXCEPT ![association_context].at = IF @ = "idle" THEN "pending" ELSE @]
  /\ ReceiverLeaves(r, FALSE)
  /\ UNCHANGED <<ap, attemptVars>>

\* ... or the frame is not what the state expects.
AuthenticationIgnored(r, frame) ==
  /\ ap # frame.from \/ frame.status = "mismatch" \/ state # "AUTHENTICATING"
  /\ ReceiverLeaves(r, FALSE)
  /\ UNCHANGED <<linkVars, attemptVars, completion>>

ProcessAuthentication(r) ==
  /\ receiver[r].at = "process"
  /\ receiver[r].frame.kind = "authentication"
  /\ \/ AuthenticationRefused(r, receiver[r].frame)
     \/ AuthenticationAccepted(r, receiver[r].frame)
     \/ AuthenticationIgnored(r, receiver[r].frame)
  /\ UNCHANGED <<disconnected_ap, received_sequence_control, context, timeout, cleanup,
                 association_waiters, caller, refVars, fault>>

\* u80211_association_process_response.
ResponseMatches(frame) ==
  /\ association_context # None /\ ap # None
  /\ context[association_context].ap = frame.from
  /\ state = "ASSOCIATING"

AssociationRefused(r, frame) ==
  /\ ResponseMatches(frame) /\ frame.status = "refused"
  /\ state' = "DOWN"
  /\ ap' = None
  /\ EndAttempt("REJECTED")
  /\ ReceiverLeaves(r, TRUE)
  /\ UNCHANGED refcount

AssociationAccepted(r, frame) ==
  /\ ResponseMatches(frame) /\ frame.status = "ok"
  /\ state' = "ASSOCIATED"
  /\ u80211_ap_hold(ap)
  /\ EndAttempt("SUCCESS")
  /\ ReceiverLeaves(r, TRUE)
  /\ UNCHANGED ap

AssociationIgnored(r, frame) ==
  /\ ~ResponseMatches(frame)
  /\ ReceiverLeaves(r, FALSE)
  /\ UNCHANGED <<linkVars, attemptVars, refcount>>

ProcessAssociation(r) ==
  /\ receiver[r].at = "process"
  /\ receiver[r].frame.kind = "association"
  /\ \/ AssociationRefused(r, receiver[r].frame)
     \/ AssociationAccepted(r, receiver[r].frame)
     \/ AssociationIgnored(r, receiver[r].frame)
  /\ UNCHANGED <<disconnected_ap, received_sequence_control, workVars, association_waiters,
                 caller, outside, lost, fault>>

\* association_process_teardown ends an attempt (deauthentication only; that an
\* attempt could have no context, line 129, AttemptOwnership excludes) ...
TeardownAttempt(deauthentication) ==
  /\ deauthentication
  /\ state \in AttemptStates /\ association_context # None
  /\ EndAttempt("REJECTED")
  /\ UNCHANGED <<disconnected_ap, lost>>

\* ... or a link, whose reference is left to the cleanup work.  A pointer that
\* still waits there is overwritten, and its reference with it.
TeardownLink ==
  /\ state = "ASSOCIATED"
  /\ disconnected_ap' = ap
  /\ lost' = [a \in AccessPoints |-> IF a = disconnected_ap THEN lost[a] + 1 ELSE lost[a]]
  /\ NextGeneration
  /\ UNCHANGED <<association_context, association_cleanup_context,
                 association_cleanup_pending, association_result>>

association_process_teardown(r, address, deauthentication) ==
  /\ receiver[r].at = "idle"
  /\ ap = address
  /\ TeardownAttempt(deauthentication) \/ TeardownLink
  /\ state' = "DOWN"
  /\ ap' = None
  /\ ReceiverLeaves(r, TRUE)
  /\ UNCHANGED <<received_sequence_control, workVars, association_waiters, caller,
                 refcount, outside, fault>>

\* Outside the lock, at last.
ReceiverEnqueuesCleanup(r) ==
  /\ receiver[r].at = "enqueue"
  /\ EnqueueCleanup
  /\ receiver' = [receiver EXCEPT ![r] = IdleReceiver]
  /\ UNCHANGED <<deviceVars, context, completion, timeout, association_waiters, caller,
                 refVars, fault>>

-----------------------------------------------------------------------------
(***************************************************************************)
(* The works and timers of a context.                                      *)
(***************************************************************************)

TimerFires(c, s) ==
  /\ timeout[<<c, s>>] = "armed"
  /\ timeout' = [timeout EXCEPT ![<<c, s>>] = "queued"]
  /\ UNCHANGED <<deviceVars, context, completion, cleanup, threadVars, refVars, fault>>

\* The attempt that a timeout of the context may end is the one in progress.
TimeoutApplies(c, s) ==
  /\ association_context = c
  /\ ap # None
  /\ association_generation = context[c].generation
  /\ state = s

association_timeout(c, s) ==
  /\ timeout[<<c, s>>] = "queued"
  /\ IF TimeoutApplies(c, s)
       THEN /\ state' = "DOWN"
            /\ ap' = None
            /\ EndAttempt("TIMED_OUT")
            /\ timeout' = [timeout EXCEPT ![<<c, s>>] = "enqueue"]
       ELSE /\ timeout' = [timeout EXCEPT ![<<c, s>>] = "idle"]
            /\ UNCHANGED <<linkVars, attemptVars>>
  /\ UNCHANGED <<disconnected_ap, received_sequence_control, context, completion, cleanup,
                 threadVars, refVars, fault>>

TimeoutEnqueuesCleanup(c, s) ==
  /\ timeout[<<c, s>>] = "enqueue"
  /\ EnqueueCleanup
  /\ timeout' = [timeout EXCEPT ![<<c, s>>] = "idle"]
  /\ UNCHANGED <<deviceVars, context, completion, threadVars, refVars, fault>>

\* auth_completion_work: u80211_send_association_request reads device->ap
\* without the lock and dereferences what it finds ...
CompletionBegin(c) ==
  /\ completion[c].at = "pending"
  /\ IF ap = None
       THEN fault' = "null" /\ UNCHANGED completion
       ELSE completion' = [completion EXCEPT ![c] = [at |-> "sending", ap |-> ap]] /\ UNCHANGED fault
  /\ UNCHANGED <<deviceVars, context, timeout, cleanup, threadVars, refVars>>

\* ... until the frame is built; then the timer is armed, if it still exists.
CompletionEnd(c) ==
  /\ completion[c].at = "sending"
  /\ IF Alive(c) THEN ArmTimeout(c, "ASSOCIATING") ELSE UNCHANGED timeout
  /\ UseOfDestroyed((IF Alive(c) THEN {} ELSE {"timer"}) \cup
                    (IF refcount[completion[c].ap] > 0 THEN {} ELSE {"access point"}))
  /\ completion' = [completion EXCEPT ![c] = IdleCompletion]
  /\ UNCHANGED <<deviceVars, context, cleanup, threadVars, refVars>>

-----------------------------------------------------------------------------
(***************************************************************************)
(* cleanup_association.                                                    *)
(***************************************************************************)

DisconnectedLeft_NotCleared == disconnected_ap
DisconnectedLeft == None

CleanupTakes ==
  /\ cleanup.pending /\ cleanup.at = "idle"
  /\ cleanup' = [pending |-> FALSE,
                 at |-> IF association_cleanup_context = None THEN "finish" ELSE "release",
                 context |-> association_cleanup_context,
                 ap |-> disconnected_ap]
  /\ disconnected_ap' = DisconnectedLeft
  /\ UNCHANGED <<linkVars, attemptVars, received_sequence_control, context, completion,
                 timeout, threadVars, refVars, fault>>

\* The access point is released, and the timers are freed: one that is armed
\* no longer fires.
CleanupReleases ==
  /\ cleanup.at = "release"
  /\ ReleaseAll({context[cleanup.context].ap})
  /\ context' = [context EXCEPT ![cleanup.context].status = "closing"]
  /\ timeout' = [w \in Timeouts |->
       IF w[1] = cleanup.context /\ timeout[w] = "armed" THEN "idle" ELSE timeout[w]]
  /\ cleanup' = [cleanup EXCEPT !.at = "join"]
  /\ UNCHANGED <<deviceVars, completion, threadVars, outside, lost, fault>>

\* u80211_kernel_free_work waits for a callback that runs.
Joined_NoWait(c) == TRUE
Joined(c) ==
  /\ completion[c].at # "sending"
  /\ \A s \in AttemptStates : timeout[<<c, s>>] # "enqueue"

\* The works are freed: those that are only queued are cancelled.
CleanupDestroys ==
  /\ cleanup.at = "join"
  /\ Joined(cleanup.context)
  /\ completion' = [completion EXCEPT ![cleanup.context] =
                      IF @.at = "pending" THEN IdleCompletion ELSE @]
  /\ timeout' = [w \in Timeouts |->
       IF w[1] = cleanup.context /\ timeout[w] = "queued" THEN "idle" ELSE timeout[w]]
  /\ context' = [context EXCEPT ![cleanup.context] = FreeContext]
  /\ cleanup' = [cleanup EXCEPT !.at = "finish"]
  /\ UNCHANGED <<deviceVars, threadVars, refVars, fault>>

CleanupFinishes ==
  /\ cleanup.at = "finish"
  /\ ReleaseAll({cleanup.ap})
  /\ IF cleanup.context # None
       THEN /\ association_cleanup_context' = None
            /\ association_cleanup_pending' = FALSE
            /\ wake_association_waiters(association_result)
       ELSE UNCHANGED <<association_cleanup_context, association_cleanup_pending,
                        association_waiters, caller>>
  /\ cleanup' = [cleanup EXCEPT !.at = "idle", !.context = None, !.ap = None]
  /\ UNCHANGED <<linkVars, association_context, association_generation, association_result,
                 disconnected_ap, received_sequence_control, context, completion, timeout,
                 receiver, outside, lost, fault>>

-----------------------------------------------------------------------------
(***************************************************************************)
(* What the rest of the program does to the state: a scan takes the device *)
(* out of DOWN and back, and the owners of other references drop them; a   *)
(* later scan may find the access point again.                             *)
(***************************************************************************)

Scan(old, new) ==
  /\ u80211_set_device_state(old, new)
  /\ UNCHANGED <<ap, attemptVars, disconnected_ap, received_sequence_control, workVars,
                 threadVars, refVars, fault>>

ScanBegin == Scan("DOWN", "SCANNING")
ScanEnd == Scan("SCANNING", "DOWN")

\* A caller keeps its reference for as long as u80211_associate runs.
OutsideReleases(a) ==
  /\ a \in outside
  /\ \A t \in Callers : caller[t].at \in {"associate", "authenticate"} => caller[t].ap # a
  /\ outside' = outside \ {a}
  /\ ReleaseAll({a})
  /\ UNCHANGED <<deviceVars, workVars, threadVars, lost, fault>>

\* As with contexts, the block of an access point is not reused while a work
\* still points to it.
OutsideFinds(a) ==
  /\ state = "SCANNING"
  /\ refcount[a] = 0
  /\ \A c \in Contexts : completion[c].ap # a
  /\ outside' = outside \cup {a}
  /\ u80211_ap_hold(a)
  /\ UNCHANGED <<deviceVars, workVars, threadVars, lost, fault>>

-----------------------------------------------------------------------------
CallerProceeds(t) ==
  \/ AssociateFail(t) \/ AssociatePublish(t) \/ AssociateReturn(t)
  \/ DeauthenticateEnd(t) \/ WaitEnd(t) \/ TransmitEnd(t)

CallerStep(t) ==
  \/ \E a \in AccessPoints : AssociateEnter(t, a)
  \/ DeauthenticateBegin(t) \/ WaitBegin(t) \/ TransmitBegin(t)
  \/ CallerProceeds(t)

ReceiverProceeds(r) ==
  ProcessAuthentication(r) \/ ProcessAssociation(r) \/ ReceiverEnqueuesCleanup(r)

ReceiverStep(r) ==
  \/ \E sequence_control \in SequenceControls, retry \in BOOLEAN :
       \/ \E frame \in Frames : ReceiveResponse(r, frame, sequence_control, retry)
       \/ \E from \in AccessPoints : ReceiveData(r, from, sequence_control, retry)
  \/ \E address \in AccessPoints, deauthentication \in BOOLEAN :
       association_process_teardown(r, address, deauthentication)
  \/ ReceiverProceeds(r)

TimeoutStep(c, s) ==
  TimerFires(c, s) \/ association_timeout(c, s) \/ TimeoutEnqueuesCleanup(c, s)

CompletionStep(c) == CompletionBegin(c) \/ CompletionEnd(c)

CleanupStep == CleanupTakes \/ CleanupReleases \/ CleanupDestroys \/ CleanupFinishes

EnvironmentStep ==
  \/ ScanBegin \/ ScanEnd
  \/ \E a \in AccessPoints : OutsideReleases(a) \/ OutsideFinds(a)

Running == fault \notin {"null", "crash"}

\* A program that has stopped stays where it is.
Halted == ~Running /\ UNCHANGED vars

Next ==
  \/ /\ Running
     /\ \/ \E t \in Callers : CallerStep(t)
        \/ \E r \in Receivers : ReceiverStep(r)
        \/ \E c \in Contexts, s \in AttemptStates : TimeoutStep(c, s)
        \/ \E c \in Contexts : CompletionStep(c)
        \/ CleanupStep
        \/ EnvironmentStep
  \/ Halted

Spec == Init /\ [][Next]_vars

\* A thread that runs goes on, a work that is queued is run, a timer that is
\* armed fires.  Nothing makes a caller call, a frame arrive or anyone else
\* drop a reference.
FairSpec ==
  /\ Spec
  /\ \A t \in Callers : WF_vars(Running /\ CallerProceeds(t))
  /\ \A r \in Receivers : WF_vars(Running /\ ReceiverProceeds(r))
  /\ \A c \in Contexts, s \in AttemptStates : WF_vars(Running /\ TimeoutStep(c, s))
  /\ \A c \in Contexts : WF_vars(Running /\ CompletionStep(c))
  /\ WF_vars(Running /\ CleanupStep)

-----------------------------------------------------------------------------
(***************************************************************************)
(* Safety.                                                                 *)
(***************************************************************************)

\* The device has a context exactly while an attempt is in progress; that
\* context is whole and about the device's access point, and the cleanup of any
\* earlier one is over.  So the handlers that find an attempt need no test for
\* a missing context, and no answer or timeout is charged to another attempt.
AttemptOwnership ==
  /\ association_context # None <=> state \in AttemptStates
  /\ ap # None <=> state \in AttemptStates \cup LinkedStates
  /\ association_cleanup_pending <=> association_cleanup_context # None
  /\ association_context # None =>
       /\ ~association_cleanup_pending
       /\ context[association_context] =
            [status |-> "live", ap |-> ap, generation |-> association_generation]

SomeoneEnqueuesCleanup ==
  \/ \E r \in Receivers : receiver[r].at = "enqueue"
  \/ \E w \in Timeouts : timeout[w] = "enqueue"

\* Handlers hand over under the lock and enqueue the cleanup after it, and a
\* request for a work that is pending is ignored.  Still, whatever was handed
\* over is with the work, or the work is queued, or somebody is about to queue
\* it: otherwise the device would stay BUSY, or a reference be kept.
CleanupNotLost ==
  /\ association_cleanup_pending =>
       \/ cleanup.pending \/ SomeoneEnqueuesCleanup
       \/ cleanup.context = association_cleanup_context
  /\ disconnected_ap # None => cleanup.pending \/ SomeoneEnqueuesCleanup

\* A thread that waits has an attempt, or the cleanup of one, that will wake it.
WaitersServed ==
  /\ association_waiters = {t \in Callers : caller[t].at = "waiting"}
  /\ association_waiters # {} => state \in AttemptStates \/ association_cleanup_pending

\* A waiter is given the verdict on an attempt, never the UNKNOWN_ERROR the
\* attempt started with, and a link exists only after a success.
VerdictSound ==
  /\ association_cleanup_pending => association_result \in Verdicts
  /\ state \in LinkedStates => association_result = "SUCCESS"
  /\ \A t \in Callers : caller[t].at = "woken" => caller[t].result \in Verdicts

\* A work that is queued or runs belongs to the attempt in progress or to the
\* one whose cleanup is not over, and has not been freed.
WorksOwned ==
  \A c \in Contexts :
    completion[c].at # "idle" \/ (\E s \in AttemptStates : timeout[<<c, s>>] # "idle") =>
      /\ c \in {association_context, association_cleanup_context}
      /\ context[c].status # "free"

\* Who holds a reference to an access point: places, contexts and callers.
PlaceHolds(place, a) ==
  CASE place = "outside" -> a \in outside
    [] place = "device" -> state \in LinkedStates /\ ap = a
    [] place = "disconnected" -> disconnected_ap = a
    [] place = "cleanup" -> cleanup.ap = a

PlaceHolders(a) ==
  {place \in {"outside", "device", "disconnected", "cleanup"} : PlaceHolds(place, a)}

ContextHolders(a) == {c \in Contexts : Alive(c) /\ context[c].ap = a}

CallerHolders(a) == {t \in Callers : caller[t].at = "transmit" /\ caller[t].ap = a}

\* Every reference is held by exactly one place, except for those that a
\* second disconnection has overwritten: nothing is released twice, and
\* nothing else leaks.
ReferencesExact ==
  \A a \in AccessPoints :
    refcount[a] = Cardinality(PlaceHolders(a)) + Cardinality(ContextHolders(a))
                    + Cardinality(CallerHolders(a)) + lost[a]

\* A context leaves the device only to be cleaned up, and one that waits for
\* its cleanup is never replaced by another.
HandOver ==
  [][/\ association_context # None /\ association_context' # association_context
          => association_cleanup_context' = association_context
     /\ association_cleanup_context # None
          => association_cleanup_context' \in {association_cleanup_context, None}]_vars

\* Who meets a destroyed object, or an access point that is gone, is a caller or
\* a work of an attempt that has already ended, whatever else is under way.
AttemptInProgressIsSafe ==
  [][fault' # fault =>
       \/ \E t \in Callers : AssociateReturn(t) /\ caller[t].context # association_context
       \/ \E c \in Contexts \ {association_context} : CompletionStep(c)]_vars

-----------------------------------------------------------------------------
(***************************************************************************)
(* What the safety properties rest on: where the threads are says what     *)
(* they hold.                                                              *)
(***************************************************************************)

\* The cleanup work has a context between its two critical sections, and it is
\* the one that waits for cleanup.
CleanupLocals ==
  /\ cleanup.at = "idle" => cleanup.context = None
  /\ cleanup.at \in {"release", "join"} => cleanup.context # None
  /\ cleanup.context # None => cleanup.context = association_cleanup_context

CallerLocals ==
  \A t \in Callers :
    /\ caller[t].at \in {"associate", "authenticate", "transmit"} => caller[t].ap # None
    /\ caller[t].at = "authenticate" => caller[t].context # None

\* The inductive invariant behind AttemptOwnership and HandOver.
Ownership == TypeOK /\ AttemptOwnership /\ CleanupLocals /\ CallerLocals

\* A context that is not free is the device's or waits for its cleanup, which
\* goes through its stages in order; only a whole one has armed timers.
ContextStages ==
  /\ \A c \in Contexts :
       /\ context[c].status # "free" => c \in {association_context, association_cleanup_context}
       /\ \A s \in AttemptStates : timeout[<<c, s>>] = "armed" => Alive(c)
  /\ association_cleanup_context # None /\ cleanup.context = None
       => Alive(association_cleanup_context)
  /\ cleanup.at = "release" => Alive(cleanup.context)
  /\ cleanup.at = "join" => context[cleanup.context].status = "closing"
  /\ cleanup.at = "finish" /\ cleanup.context # None
       => context[cleanup.context].status = "free"

\* Given Ownership these are inductive: what waiters and the cleanup are
\* promised, and where the works and the contexts are.
Service == WaitersServed /\ VerdictSound /\ CleanupNotLost
Custody == WorksOwned /\ ContextStages

\* The cleanup work has taken its access point, and a request that is built in
\* the attempt in progress is for the access point of the attempt.
AccessPointLocals ==
  /\ cleanup.at = "idle" => cleanup.ap = None
  /\ \A c \in Contexts :
       completion[c].at = "sending" /\ c = association_context => completion[c].ap = ap

\* Inductive given all of the above.
Accounts == ReferencesExact /\ AccessPointLocals

-----------------------------------------------------------------------------
(***************************************************************************)
(* Liveness, for a program that is not stopped by a fault.                 *)
(***************************************************************************)

\* An attempt that nobody answers, or that is answered in part, ends.
AttemptEnds == state \in AttemptStates ~> (state \notin AttemptStates \/ ~Running)

\* u80211_wait_for_association_completion returns.
WaitReturns ==
  \A t \in Callers : caller[t].at = "waiting" ~> (caller[t].at = "idle" \/ ~Running)

\* The reference to the access point of a link that it ended is given back,
\* which is what the association test polls for.
DisconnectedReleased == disconnected_ap # None ~> (disconnected_ap = None \/ ~Running)

-----------------------------------------------------------------------------
(***************************************************************************)
(* What comments of the repository say and the code does not do.           *)
(***************************************************************************)

\* kernel_interface.h: u80211_kernel_free_timer "cancels and frees the timer",
\* so that no delayed work may be requested with it afterwards.
TimersUsedWhileAllocated == fault # "timer"

\* association.c, of the access point of a context: "this keeps a reference",
\* so that the work that builds the association request finds it there ...
RequestFindsAccessPoint == fault # "null"

\* ... and can use it until the frame is built.
RequestKeepsAccessPoint == fault # "access point"

=============================================================================
