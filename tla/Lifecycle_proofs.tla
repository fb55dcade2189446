--------------------------- MODULE Lifecycle_proofs ---------------------------
(***************************************************************************)
(* The safety properties of Lifecycle, for any set of hooks registered for *)
(* any phases, and its refinement of ContractCall.                         *)
(***************************************************************************)
EXTENDS Lifecycle, TLAPS

-----------------------------------------------------------------------------
(* The inductive invariant.  Each part is named for what it keeps track of. *)

\* rejection is the state of the Promise.all of the current phase.
RejectionInv ==
  /\ rejection # None => /\ rejection \in Rejected
                         /\ PhaseOf[rejection] = pc \/ pc = "rejected"
  /\ \A h \in Rejected : PhaseOf[h] = pc => rejection # None

\* No phase is entered twice: the phases ahead of the call have not started.
AheadInv ==
  /\ pc = "middlewares" => Idle("onInit")
  /\ pc \in {"middlewares", "onInit"} => Idle("onBefore")
  /\ pc \in {"middlewares", "onInit", "onBefore", "zenroom"} => Idle("onSuccess")
  /\ pc \in {"middlewares", "onInit", "onBefore", "zenroom", "onSuccess"} => Idle("onAfter")
  /\ pc \in {"middlewares", "onInit", "onBefore", "zenroom", "onSuccess", "onAfter"} =>
       Idle("onError")
  /\ pc \in {"middlewares", "onInit", "onBefore", "zenroom", "onSuccess", "onAfter",
             "onError"} => Idle("onFinish")
  /\ pc \in {"middlewares", "onInit", "onBefore", "zenroom", "onSuccess", "onAfter",
             "onError", "onFinish"} => Idle("onException")

\* Getting past a normal phase means that all of its hooks have resolved.
BehindInv ==
  /\ pc \in {"onBefore", "zenroom", "onSuccess", "onAfter"} => Resolved("onInit")
  /\ pc \in {"zenroom", "onSuccess", "onAfter"} => Resolved("onBefore")
  /\ pc \in {"onSuccess", "onAfter"} => zenroom_result
  /\ pc = "onAfter" => Resolved("onSuccess") /\ outcome.result

\* Until something is caught there is no error anywhere.
UncaughtInv ==
  /\ pc \in {"middlewares", "onInit", "onBefore", "zenroom", "onSuccess", "onAfter"} =>
       /\ caught = None /\ zenroom_errors = None
       /\ outcome.error = None /\ outcome.message = "none"
  /\ pc \in {"middlewares", "onInit", "onBefore", "zenroom"} => ~zenroom_result

\* A call on its way out without an error has done all of its work.
CleanInv ==
  pc \in {"onFinish", "returned"} /\ caught = None /\ outcome.error = None =>
    /\ Resolved("onInit") /\ Resolved("onBefore")
    /\ Resolved("onSuccess") /\ Resolved("onAfter")
    /\ pc = "returned" => Resolved("onFinish")
    /\ Idle("onError") /\ Idle("onException")
    /\ zenroom_errors = None
    /\ outcome.result

\* Every recorded error is one that happened.
ErrorInv ==
  /\ zenroom_errors # None => zenroom_errors \in Rejected \cup {Zenroom}
  /\ caught \notin {None, Arguments} => caught \in Rejected \/ caught = zenroom_errors
  /\ caught = Arguments => pc \in {"onException", "rejected"}
  /\ outcome.error \notin {None, Arguments} =>
       outcome.error \in Rejected \/ outcome.error = zenroom_errors
  /\ outcome.error = Arguments => pc = "returned"
  /\ pc = "onError" => caught # None /\ caught = zenroom_errors
  /\ pc = "onException" => caught # None
  /\ pc = "returned" => caught = None
  /\ pc = "rejected" => rejection # None
  /\ outcome.message = "zenroom execution error" => outcome.error = zenroom_errors
  /\ outcome.message = "unexpected exception" => pc = "returned" /\ Resolved("onException")

FinishInv ==
  pc \in {"onFinish", "onException"} \cup Settled /\ ZenroomRan =>
    \A h \in HooksOf("onFinish") : status[h] # "idle"

IInv == /\ TypeOK
        /\ RejectionInv /\ AheadInv /\ BehindInv /\ UncaughtInv
        /\ CleanInv /\ ErrorInv /\ FinishInv
        /\ PhaseBarrier /\ PhaseOrder

-----------------------------------------------------------------------------
\* The initial state is typed.
LEMMA InitTypeOK == Init => TypeOK
<1> SUFFICES ASSUME Init
             PROVE  TypeOK
  OBVIOUS
<1> USE DEF Init, TypeOK, HookPhases, Sources, Settled, Messages
<1>1. outcome \in [result : BOOLEAN, error : Sources \cup {None}, message : Messages]
  OBVIOUS
<1>2. status \in [Hooks -> {"unregistered", "idle", "running", "resolved", "rejected"}]
  OBVIOUS
<1> QED
  BY <1>1, <1>2

\* The variables of a call keep their types.
THEOREM TypeCorrect == Spec => []TypeOK
<1> USE RegistrationAssumption DEF TypeOK, HookPhases, Sources, Settled, Messages
<1>1. Init => TypeOK
  BY InitTypeOK
<1>2. TypeOK /\ [Next]_vars => TypeOK'
  <2> SUFFICES ASSUME TypeOK, [Next]_vars
               PROVE  TypeOK'
    OBVIOUS
  <2> USE DEF Enter, Started, HooksOf, CatchError, PhaseRejected
  <2>1. ASSUME NEW h \in Hooks, Register(h)
        PROVE  TypeOK'
    BY <2>1 DEF Register
  <2>2. ASSUME NEW h \in Hooks, Hook(h)
        PROVE  TypeOK'
    BY <2>2 DEF Hook, HookResolves, HookRejects
  <2>3. CASE Begin
    BY <2>3 DEF Begin
  <2>4. CASE InitDone \/ BeforeDone \/ EarlyFailure
    BY <2>4 DEF InitDone, BeforeDone, EarlyFailure
  <2>5. CASE ArgumentsFail \/ ZenroomSucceeds \/ ZenroomFails
    BY <2>5 DEF ArgumentsFail, ZenroomSucceeds, ZenroomFails
  <2>6. CASE SuccessDone \/ AfterDone \/ LateFailure
    BY <2>6 DEF SuccessDone, AfterDone, LateFailure
  <2>7. CASE ErrorDone \/ ErrorHookFailed
    BY <2>7 DEF ErrorDone, ErrorHookFailed
  <2>8. CASE FinishDone \/ FinishHookFailed
    BY <2>8 DEF FinishDone, FinishHookFailed
  <2>9. CASE ExceptionDone \/ ExceptionHookFailed
    BY <2>9 DEF ExceptionDone, ExceptionHookFailed
  <2>10. CASE UNCHANGED vars
    <3> HIDE DEF TypeOK, HookPhases, Sources, Settled, Messages
    <3> QED
      BY <2>10 DEF vars, TypeOK, Sources
  <2> QED
    BY <2>1, <2>2, <2>3, <2>4, <2>5, <2>6, <2>7, <2>8, <2>9, <2>10 DEF Next, Call
<1>3. QED
  BY <1>1, <1>2, PTL DEF Spec

\* What the settling of a hook leaves alone: the call itself, and every phase
\* whose hooks have all resolved or not started (the hook is not one of them).
LEMMA HookEffect ==
  ASSUME TypeOK, NEW h \in Hooks, Hook(h)
  PROVE  /\ status[h] = "running"
         /\ UNCHANGED <<pc, caught, zenroom_result, zenroom_errors, outcome>>
         /\ rejection # None => rejection' = rejection
         /\ PhaseOf[h] \in HookPhases
         /\ \A p \in HookPhases : Resolved(p) => Resolved(p)' /\ p # PhaseOf[h]
         /\ \A p \in HookPhases : Idle(p) => Idle(p)' /\ p # PhaseOf[h]
<1> USE RegistrationAssumption DEF TypeOK, Hook, HookResolves, HookRejects
<1>1. /\ status[h] = "running"
      /\ UNCHANGED <<pc, caught, zenroom_result, zenroom_errors, outcome>>
      /\ rejection # None => rejection' = rejection
  OBVIOUS
<1>2. PhaseOf[h] \in HookPhases
  OBVIOUS
<1>3. status' \in [Hooks -> {"unregistered", "idle", "running", "resolved", "rejected"}]
  OBVIOUS
<1>4. status'[h] \in {"resolved", "rejected"} /\ \A g \in Hooks \ {h} : status'[g] = status[g]
  OBVIOUS
<1> HIDE DEF Hook, HookResolves, HookRejects
<1>5. \A p \in HookPhases : HooksOf(p)' = HooksOf(p)
  BY <1>1, <1>4 DEF HooksOf
<1>6. h \in HooksOf(PhaseOf[h])
  BY <1>1 DEF HooksOf
<1>7. ASSUME NEW p \in HookPhases, Resolved(p)
      PROVE  Resolved(p)' /\ p # PhaseOf[h]
  BY <1>1, <1>4, <1>5, <1>6, <1>7 DEF Resolved, HooksOf
<1>8. ASSUME NEW p \in HookPhases, Idle(p)
      PROVE  Idle(p)' /\ p # PhaseOf[h]
  BY <1>1, <1>4, <1>5, <1>6, <1>8 DEF Idle, HooksOf
<1> QED
  BY <1>1, <1>2, <1>7, <1>8

\* rejection belongs to the current phase: entering a phase clears it.
LEMMA RejectionInvStep == TypeOK /\ TypeOK' /\ IInv /\ [Next]_vars => RejectionInv'
<1> SUFFICES ASSUME TypeOK, TypeOK', IInv, [Next]_vars
             PROVE  RejectionInv'
  OBVIOUS
<1> USE RegistrationAssumption
        DEF TypeOK, HookPhases, Settled, HooksOf, Rejected, Idle, Resolved, Enter,
            Started, CatchError, AllResolved, PhaseRejected, ZenroomRan,
            IInv, RejectionInv, AheadInv
<1>1. ASSUME NEW h \in Hooks, Register(h)
      PROVE  RejectionInv'
  BY <1>1 DEF Register
<1>2. ASSUME NEW h \in Hooks, Hook(h)
      PROVE  RejectionInv'
  BY <1>2 DEF Hook, HookResolves, HookRejects
<1>3. CASE Begin
  BY <1>3 DEF Begin
<1>4. CASE InitDone \/ BeforeDone \/ EarlyFailure
  BY <1>4 DEF InitDone, BeforeDone, EarlyFailure
<1>5. CASE ArgumentsFail \/ ZenroomSucceeds \/ ZenroomFails
  BY <1>5 DEF ArgumentsFail, ZenroomSucceeds, ZenroomFails
<1>6. CASE SuccessDone \/ AfterDone \/ LateFailure
  BY <1>6 DEF SuccessDone, AfterDone, LateFailure
<1>7. CASE ErrorDone \/ ErrorHookFailed
  BY <1>7 DEF ErrorDone, ErrorHookFailed
<1>8. CASE FinishDone \/ FinishHookFailed
  BY <1>8 DEF FinishDone, FinishHookFailed
<1>9. CASE ExceptionDone \/ ExceptionHookFailed
  BY <1>9 DEF ExceptionDone, ExceptionHookFailed
<1>10. CASE UNCHANGED vars
  BY <1>10 DEF vars
<1> QED
  BY <1>1, <1>2, <1>3, <1>4, <1>5, <1>6, <1>7, <1>8, <1>9, <1>10 DEF Next, Call

\* The call only moves forward, and only the phase it enters is started.
LEMMA AheadInvStep == TypeOK /\ TypeOK' /\ IInv /\ [Next]_vars => AheadInv'
<1> SUFFICES ASSUME TypeOK, TypeOK', IInv, [Next]_vars
             PROVE  AheadInv'
  OBVIOUS
<1> USE RegistrationAssumption
        DEF TypeOK, HookPhases, Settled, HooksOf, Rejected, Idle, Resolved, Enter,
            Started, CatchError, AllResolved, PhaseRejected, ZenroomRan,
            IInv, AheadInv
<1>1. ASSUME NEW h \in Hooks, Register(h)
      PROVE  AheadInv'
  BY <1>1 DEF Register
<1>2. ASSUME NEW h \in Hooks, Hook(h)
      PROVE  AheadInv'
  BY <1>2 DEF Hook, HookResolves, HookRejects
<1>3. CASE Begin
  BY <1>3 DEF Begin
<1>4. CASE InitDone \/ BeforeDone \/ EarlyFailure
  BY <1>4 DEF InitDone, BeforeDone, EarlyFailure
<1>5. CASE ArgumentsFail \/ ZenroomSucceeds \/ ZenroomFails
  BY <1>5 DEF ArgumentsFail, ZenroomSucceeds, ZenroomFails
<1>6. CASE SuccessDone \/ AfterDone \/ LateFailure
  BY <1>6 DEF SuccessDone, AfterDone, LateFailure
<1>7. CASE ErrorDone \/ ErrorHookFailed
  BY <1>7 DEF ErrorDone, ErrorHookFailed
<1>8. CASE FinishDone \/ FinishHookFailed
  BY <1>8 DEF FinishDone, FinishHookFailed
<1>9. CASE ExceptionDone \/ ExceptionHookFailed
  BY <1>9 DEF ExceptionDone, ExceptionHookFailed
<1>10. CASE UNCHANGED vars
  BY <1>10 DEF vars
<1> QED
  BY <1>1, <1>2, <1>3, <1>4, <1>5, <1>6, <1>7, <1>8, <1>9, <1>10 DEF Next, Call

\* A normal phase is left for the next one only when all its hooks resolved.
LEMMA BehindInvStep == TypeOK /\ TypeOK' /\ IInv /\ [Next]_vars => BehindInv'
<1> SUFFICES ASSUME TypeOK, TypeOK', IInv, [Next]_vars
             PROVE  BehindInv'
  OBVIOUS
<1> USE RegistrationAssumption
        DEF TypeOK, HookPhases, Settled, HooksOf, Rejected, Idle, Resolved, Enter,
            Started, CatchError, AllResolved, PhaseRejected, ZenroomRan,
            IInv, BehindInv, AheadInv
<1>1. ASSUME NEW h \in Hooks, Register(h)
      PROVE  BehindInv'
  BY <1>1 DEF Register
<1>2. ASSUME NEW h \in Hooks, Hook(h)
      PROVE  BehindInv'
  BY <1>2 DEF Hook, HookResolves, HookRejects
<1>3. CASE Begin
  BY <1>3 DEF Begin
<1>4. CASE InitDone \/ BeforeDone \/ EarlyFailure
  BY <1>4 DEF InitDone, BeforeDone, EarlyFailure
<1>5. CASE ArgumentsFail \/ ZenroomSucceeds \/ ZenroomFails
  <2>1. CASE ZenroomSucceeds
    BY <2>1 DEF ZenroomSucceeds
  <2>2. CASE ZenroomFails
    BY <2>2 DEF ZenroomFails
  <2>3. CASE ArgumentsFail
    BY <2>3 DEF ArgumentsFail
  <2> QED
    BY <1>5, <2>1, <2>2, <2>3
<1>6. CASE SuccessDone \/ AfterDone \/ LateFailure
  BY <1>6 DEF SuccessDone, AfterDone, LateFailure
<1>7. CASE ErrorDone \/ ErrorHookFailed
  BY <1>7 DEF ErrorDone, ErrorHookFailed
<1>8. CASE FinishDone \/ FinishHookFailed
  BY <1>8 DEF FinishDone, FinishHookFailed
<1>9. CASE ExceptionDone \/ ExceptionHookFailed
  BY <1>9 DEF ExceptionDone, ExceptionHookFailed
<1>10. CASE UNCHANGED vars
  BY <1>10 DEF vars
<1> QED
  BY <1>1, <1>2, <1>3, <1>4, <1>5, <1>6, <1>7, <1>8, <1>9, <1>10 DEF Next, Call

\* Errors are recorded by the catches only, and those leave the normal phases.
LEMMA UncaughtInvStep == TypeOK /\ TypeOK' /\ IInv /\ [Next]_vars => UncaughtInv'
<1> SUFFICES ASSUME TypeOK, TypeOK', IInv, [Next]_vars
             PROVE  UncaughtInv'
  OBVIOUS
<1> USE RegistrationAssumption
        DEF TypeOK, HookPhases, Settled, HooksOf, Rejected, Idle, Resolved, Enter,
            Started, CatchError, AllResolved, PhaseRejected, ZenroomRan,
            IInv, UncaughtInv
<1>1. ASSUME NEW h \in Hooks, Register(h)
      PROVE  UncaughtInv'
  BY <1>1 DEF Register
<1>2. ASSUME NEW h \in Hooks, Hook(h)
      PROVE  UncaughtInv'
  BY <1>2 DEF Hook, HookResolves, HookRejects
<1>3. CASE Begin
  BY <1>3 DEF Begin
<1>4. CASE InitDone \/ BeforeDone \/ EarlyFailure
  BY <1>4 DEF InitDone, BeforeDone, EarlyFailure
<1>5. CASE ArgumentsFail \/ ZenroomSucceeds \/ ZenroomFails
  BY <1>5 DEF ArgumentsFail, ZenroomSucceeds, ZenroomFails
<1>6. CASE SuccessDone \/ AfterDone \/ LateFailure
  BY <1>6 DEF SuccessDone, AfterDone, LateFailure
<1>7. CASE ErrorDone \/ ErrorHookFailed
  BY <1>7 DEF ErrorDone, ErrorHookFailed
<1>8. CASE FinishDone \/ FinishHookFailed
  BY <1>8 DEF FinishDone, FinishHookFailed
<1>9. CASE ExceptionDone \/ ExceptionHookFailed
  BY <1>9 DEF ExceptionDone, ExceptionHookFailed
<1>10. CASE UNCHANGED vars
  BY <1>10 DEF vars
<1> QED
  BY <1>1, <1>2, <1>3, <1>4, <1>5, <1>6, <1>7, <1>8, <1>9, <1>10 DEF Next, Call

\* onFinish is reached without an error from onAfter only, and left for
\* "returned" only when its own hooks resolved.
LEMMA CleanInvStep == TypeOK /\ TypeOK' /\ IInv /\ [Next]_vars => CleanInv'
<1> SUFFICES ASSUME TypeOK, TypeOK', IInv, [Next]_vars
             PROVE  CleanInv'
  OBVIOUS
<1> USE RegistrationAssumption
        DEF TypeOK, HookPhases, Settled, HooksOf, Rejected, Idle, Resolved, Enter,
            Started, CatchError, AllResolved, PhaseRejected, ZenroomRan,
            IInv, CleanInv, AheadInv, BehindInv, UncaughtInv, ErrorInv
<1>1. ASSUME NEW h \in Hooks, Register(h)
      PROVE  CleanInv'
  BY <1>1 DEF Register
<1>2. ASSUME NEW h \in Hooks, Hook(h)
      PROVE  CleanInv'
  <2> HIDE DEF Resolved, Idle, TypeOK
  <2> QED
    BY <1>2, HookEffect
<1>3. CASE Begin
  BY <1>3 DEF Begin
<1>4. CASE InitDone \/ BeforeDone \/ EarlyFailure
  BY <1>4 DEF InitDone, BeforeDone, EarlyFailure
<1>5. CASE ArgumentsFail \/ ZenroomSucceeds \/ ZenroomFails
  BY <1>5 DEF ArgumentsFail, ZenroomSucceeds, ZenroomFails
<1>6. CASE SuccessDone \/ AfterDone \/ LateFailure
  <2>1. CASE SuccessDone
    BY <2>1 DEF SuccessDone
  <2>2. CASE AfterDone
    BY <2>2 DEF AfterDone
  <2>3. CASE LateFailure
    BY <2>3 DEF LateFailure
  <2> QED
    BY <1>6, <2>1, <2>2, <2>3
<1>7. CASE ErrorDone \/ ErrorHookFailed
  <2>1. CASE ErrorDone
    BY <2>1 DEF ErrorDone
  <2>2. CASE ErrorHookFailed
    BY <2>2 DEF ErrorHookFailed
  <2> QED
    BY <1>7, <2>1, <2>2
<1>8. CASE FinishDone \/ FinishHookFailed
  BY <1>8 DEF FinishDone, FinishHookFailed
<1>9. CASE ExceptionDone \/ ExceptionHookFailed
  <2>1. CASE ExceptionDone
    BY <2>1 DEF ExceptionDone
  <2>2. CASE ExceptionHookFailed
    BY <2>2 DEF ExceptionHookFailed
  <2> QED
    BY <1>9, <2>1, <2>2
<1>10. CASE UNCHANGED vars
  BY <1>10 DEF vars
<1> QED
  BY <1>1, <1>2, <1>3, <1>4, <1>5, <1>6, <1>7, <1>8, <1>9, <1>10 DEF Next, Call

\* After Zenroom has run, every way out leads through onFinish.
LEMMA FinishInvStep == TypeOK /\ TypeOK' /\ IInv /\ [Next]_vars => FinishInv'
<1> SUFFICES ASSUME TypeOK, TypeOK', IInv, [Next]_vars
             PROVE  FinishInv'
  OBVIOUS
<1> USE RegistrationAssumption
        DEF TypeOK, HookPhases, Settled, HooksOf, Rejected, Idle, Resolved, Enter,
            Started, CatchError, AllResolved, PhaseRejected, ZenroomRan,
            IInv, FinishInv, UncaughtInv, AheadInv
<1>1. ASSUME NEW h \in Hooks, Register(h)
      PROVE  FinishInv'
  BY <1>1 DEF Register
<1>2. ASSUME NEW h \in Hooks, Hook(h)
      PROVE  FinishInv'
  BY <1>2 DEF Hook, HookResolves, HookRejects
<1>3. CASE Begin
  BY <1>3 DEF Begin
<1>4. CASE InitDone \/ BeforeDone \/ EarlyFailure
  BY <1>4 DEF InitDone, BeforeDone, EarlyFailure
<1>5. CASE ArgumentsFail \/ ZenroomSucceeds \/ ZenroomFails
  BY <1>5 DEF ArgumentsFail, ZenroomSucceeds, ZenroomFails
<1>6. CASE SuccessDone \/ AfterDone \/ LateFailure
  BY <1>6 DEF SuccessDone, AfterDone, LateFailure
<1>7. CASE ErrorDone \/ ErrorHookFailed
  BY <1>7 DEF ErrorDone, ErrorHookFailed
<1>8. CASE FinishDone \/ FinishHookFailed
  BY <1>8 DEF FinishDone, FinishHookFailed
<1>9. CASE ExceptionDone \/ ExceptionHookFailed
  BY <1>9 DEF ExceptionDone, ExceptionHookFailed
<1>10. CASE UNCHANGED vars
  BY <1>10 DEF vars
<1> QED
  BY <1>1, <1>2, <1>3, <1>4, <1>5, <1>6, <1>7, <1>8, <1>9, <1>10 DEF Next, Call

\* A phase is started only after the ones it counts on have resolved.
LEMMA PhaseOrderStep == TypeOK /\ TypeOK' /\ IInv /\ [Next]_vars => PhaseOrder'
<1> SUFFICES ASSUME TypeOK, TypeOK', IInv, [Next]_vars
             PROVE  PhaseOrder'
  OBVIOUS
<1> USE RegistrationAssumption
        DEF TypeOK, HookPhases, Settled, HooksOf, Rejected, Idle, Resolved, Enter,
            Started, CatchError, AllResolved, PhaseRejected, ZenroomRan,
            IInv, PhaseOrder, AheadInv, BehindInv
<1>1. ASSUME NEW h \in Hooks, Register(h)
      PROVE  PhaseOrder'
  BY <1>1 DEF Register
<1>2. ASSUME NEW h \in Hooks, Hook(h)
      PROVE  PhaseOrder'
  BY <1>2 DEF Hook, HookResolves, HookRejects
<1>3. CASE Begin
  BY <1>3 DEF Begin
<1>4. CASE InitDone \/ BeforeDone \/ EarlyFailure
  BY <1>4 DEF InitDone, BeforeDone, EarlyFailure
<1>5. CASE ArgumentsFail \/ ZenroomSucceeds \/ ZenroomFails
  <2>1. CASE ZenroomSucceeds
    BY <2>1 DEF ZenroomSucceeds
  <2>2. CASE ZenroomFails
    BY <2>2 DEF ZenroomFails
  <2>3. CASE ArgumentsFail
    BY <2>3 DEF ArgumentsFail
  <2> QED
    BY <1>5, <2>1, <2>2, <2>3
<1>6. CASE SuccessDone \/ AfterDone \/ LateFailure
  BY <1>6 DEF SuccessDone, AfterDone, LateFailure
<1>7. CASE ErrorDone \/ ErrorHookFailed
  <2>1. CASE ErrorDone
    BY <2>1 DEF ErrorDone
  <2>2. CASE ErrorHookFailed
    BY <2>2 DEF ErrorHookFailed
  <2> QED
    BY <1>7, <2>1, <2>2
<1>8. CASE FinishDone \/ FinishHookFailed
  BY <1>8 DEF FinishDone, FinishHookFailed
<1>9. CASE ExceptionDone \/ ExceptionHookFailed
  <2>1. CASE ExceptionDone
    BY <2>1 DEF ExceptionDone
  <2>2. CASE ExceptionHookFailed
    BY <2>2 DEF ExceptionHookFailed
  <2> QED
    BY <1>9, <2>1, <2>2
<1>10. CASE UNCHANGED vars
  BY <1>10 DEF vars
<1> QED
  BY <1>1, <1>2, <1>3, <1>4, <1>5, <1>6, <1>7, <1>8, <1>9, <1>10 DEF Next, Call

\* A hook that has rejected is never started again in the same call.
LEMMA RejectedGrows == TypeOK /\ TypeOK' /\ IInv /\ [Next]_vars => Rejected \subseteq Rejected'
<1> SUFFICES ASSUME TypeOK, TypeOK', IInv, [Next]_vars
             PROVE  Rejected \subseteq Rejected'
  OBVIOUS
<1> USE RegistrationAssumption
        DEF TypeOK, HookPhases, Settled, HooksOf, Rejected, Idle, Resolved, Enter,
            Started, CatchError, AllResolved, PhaseRejected, ZenroomRan,
            IInv, AheadInv
<1>1. ASSUME NEW h \in Hooks, Register(h)
      PROVE  Rejected \subseteq Rejected'
  BY <1>1 DEF Register
<1>2. ASSUME NEW h \in Hooks, Hook(h)
      PROVE  Rejected \subseteq Rejected'
  BY <1>2 DEF Hook, HookResolves, HookRejects
<1>3. CASE Begin
  BY <1>3 DEF Begin
<1>4. CASE InitDone \/ BeforeDone \/ EarlyFailure
  BY <1>4 DEF InitDone, BeforeDone, EarlyFailure
<1>5. CASE ArgumentsFail \/ ZenroomSucceeds \/ ZenroomFails
  BY <1>5 DEF ArgumentsFail, ZenroomSucceeds, ZenroomFails
<1>6. CASE SuccessDone \/ AfterDone \/ LateFailure
  BY <1>6 DEF SuccessDone, AfterDone, LateFailure
<1>7. CASE ErrorDone \/ ErrorHookFailed
  BY <1>7 DEF ErrorDone, ErrorHookFailed
<1>8. CASE FinishDone \/ FinishHookFailed
  BY <1>8 DEF FinishDone, FinishHookFailed
<1>9. CASE ExceptionDone \/ ExceptionHookFailed
  BY <1>9 DEF ExceptionDone, ExceptionHookFailed
<1>10. CASE UNCHANGED vars
  BY <1>10 DEF vars
<1> QED
  BY <1>1, <1>2, <1>3, <1>4, <1>5, <1>6, <1>7, <1>8, <1>9, <1>10 DEF Next, Call

\* What a hook rejects with is told apart from the failure of the arguments.
LEMMA RejectionIsHook == TypeOK => rejection # Arguments
BY RegistrationAssumption DEF TypeOK

\* Each catch records a rejection that has happened.
LEMMA ErrorInvStep == TypeOK /\ TypeOK' /\ IInv /\ [Next]_vars => ErrorInv'
<1> SUFFICES ASSUME TypeOK, TypeOK', IInv, [Next]_vars
             PROVE  ErrorInv'
  OBVIOUS
<1> USE RegistrationAssumption
        DEF TypeOK, HookPhases, Settled, HooksOf, Rejected, Idle, Resolved, Enter,
            Started, CatchError, AllResolved, PhaseRejected, ZenroomRan,
            IInv, ErrorInv, AheadInv, UncaughtInv, RejectionInv
<1>1. ASSUME NEW h \in Hooks, Register(h)
      PROVE  ErrorInv'
  BY <1>1 DEF Register
<1>2. ASSUME NEW h \in Hooks, Hook(h)
      PROVE  ErrorInv'
  <2>1. Rejected \subseteq Rejected'
    BY RejectedGrows
  <2> HIDE DEF Rejected, Resolved, Idle, TypeOK
  <2> QED
    BY <1>2, <2>1, HookEffect
<1>3. CASE Begin
  BY <1>3 DEF Begin
<1>4. CASE InitDone \/ BeforeDone \/ EarlyFailure
  <2>1. CASE InitDone
    BY <2>1 DEF InitDone
  <2>2. CASE BeforeDone
    BY <2>2 DEF BeforeDone
  <2>3. CASE EarlyFailure
    BY <2>3 DEF EarlyFailure
  <2> QED
    BY <1>4, <2>1, <2>2, <2>3
<1>5. CASE ArgumentsFail \/ ZenroomSucceeds \/ ZenroomFails
  <2>1. CASE ZenroomSucceeds
    BY <2>1 DEF ZenroomSucceeds
  <2>2. CASE ZenroomFails
    <3> Rejected \subseteq Rejected'
      BY RejectedGrows
    <3> rejection # None => rejection \in Rejected
      OBVIOUS
    <3> rejection # Arguments
      BY RejectionIsHook
    <3> HIDE DEF Rejected, AheadInv
    <3> QED
      BY <2>2 DEF ZenroomFails
  <2>3. CASE ArgumentsFail
    BY <2>3 DEF ArgumentsFail
  <2> QED
    BY <1>5, <2>1, <2>2, <2>3
<1>6. CASE SuccessDone \/ AfterDone \/ LateFailure
  <2>1. CASE SuccessDone
    BY <2>1 DEF SuccessDone
  <2>2. CASE AfterDone
    BY <2>2 DEF AfterDone
  <2>3. CASE LateFailure
    <3> Rejected \subseteq Rejected'
      BY RejectedGrows
    <3> rejection # None => rejection \in Rejected
      OBVIOUS
    <3> rejection # Arguments
      BY RejectionIsHook
    <3> HIDE DEF Rejected, AheadInv
    <3> QED
      BY <2>3 DEF LateFailure
  <2> QED
    BY <1>6, <2>1, <2>2, <2>3
<1>7. CASE ErrorDone \/ ErrorHookFailed
  <2>1. CASE ErrorDone
    BY <2>1 DEF ErrorDone
  <2>2. CASE ErrorHookFailed
    BY <2>2 DEF ErrorHookFailed
  <2> QED
    BY <1>7, <2>1, <2>2
<1>8. CASE FinishDone \/ FinishHookFailed
  <2>1. CASE FinishDone
    <3> Rejected \subseteq Rejected'
      BY RejectedGrows
    <3> rejection # None => rejection \in Rejected
      OBVIOUS
    <3> rejection # Arguments
      BY RejectionIsHook
    <3> HIDE DEF Rejected, AheadInv
    <3> QED
      BY <2>1 DEF FinishDone
  <2>2. CASE FinishHookFailed
    BY <2>2 DEF FinishHookFailed
  <2> QED
    BY <1>8, <2>1, <2>2
<1>9. CASE ExceptionDone \/ ExceptionHookFailed
  <2>1. CASE ExceptionDone
    BY <2>1 DEF ExceptionDone
  <2>2. CASE ExceptionHookFailed
    BY <2>2 DEF ExceptionHookFailed
  <2> QED
    BY <1>9, <2>1, <2>2
<1>10. CASE UNCHANGED vars
  BY <1>10 DEF vars
<1> QED
  BY <1>1, <1>2, <1>3, <1>4, <1>5, <1>6, <1>7, <1>8, <1>9, <1>10 DEF Next, Call

\* Entering a phase: what is still running was left behind by a rejection.
LEMMA BarrierOnEnter ==
  ASSUME TypeOK, TypeOK', IInv,
         NEW p \in HookPhases, Enter(p), Idle(p),
         pc \notin HookPhases \/ AllResolved(pc) \/ PhaseRejected(pc)
  PROVE  PhaseBarrier'
<1> USE RegistrationAssumption
        DEF TypeOK, HookPhases, HooksOf, Rejected, Running, Idle, Enter, Started,
            AllResolved, PhaseRejected, IInv, PhaseBarrier, RejectionInv
<1> SUFFICES ASSUME NEW h \in Running', PhaseOf[h] # p
             PROVE  \E g \in Rejected' : PhaseOf[g] = PhaseOf[h]
  OBVIOUS
<1>1. h \in Running
  OBVIOUS
<1>2. PICK g \in Rejected : PhaseOf[g] = PhaseOf[h]
  <2>1. CASE PhaseOf[h] = pc
    BY <1>1, <2>1
  <2>2. CASE PhaseOf[h] # pc
    BY <1>1, <2>2
  <2> QED
    BY <2>1, <2>2
<1>3. g \in Rejected'
  BY <1>2
<1> QED
  BY <1>2, <1>3

\* PhaseBarrier is preserved: by BarrierOnEnter where a phase is entered.
LEMMA PhaseBarrierStep == TypeOK /\ TypeOK' /\ IInv /\ [Next]_vars => PhaseBarrier'
<1> SUFFICES ASSUME TypeOK, TypeOK', IInv, [Next]_vars
             PROVE  PhaseBarrier'
  OBVIOUS
<1> USE RegistrationAssumption
        DEF TypeOK, HookPhases, Settled, HooksOf, Rejected, Idle, Resolved, Enter,
            Started, CatchError, AllResolved, PhaseRejected, ZenroomRan,
            IInv, Running, PhaseBarrier, AheadInv, RejectionInv
<1>1. ASSUME NEW h \in Hooks, Register(h)
      PROVE  PhaseBarrier'
  BY <1>1 DEF Register
<1>2. ASSUME NEW h \in Hooks, Hook(h)
      PROVE  PhaseBarrier'
  BY <1>2 DEF Hook, HookResolves, HookRejects
<1>3. CASE Begin
  BY <1>3 DEF Begin
<1>4. CASE InitDone \/ BeforeDone \/ EarlyFailure
  <2>1. CASE InitDone
    BY <2>1, BarrierOnEnter DEF InitDone
  <2>2. CASE BeforeDone
    BY <2>2 DEF BeforeDone
  <2>3. CASE EarlyFailure
    BY <2>3 DEF EarlyFailure
  <2> QED
    BY <1>4, <2>1, <2>2, <2>3
<1>5. CASE ArgumentsFail \/ ZenroomSucceeds \/ ZenroomFails
  <2>1. CASE ZenroomSucceeds
    BY <2>1, BarrierOnEnter DEF ZenroomSucceeds
  <2>2. CASE ZenroomFails
    BY <2>2, BarrierOnEnter DEF ZenroomFails
  <2>3. CASE ArgumentsFail
    BY <2>3, BarrierOnEnter DEF ArgumentsFail
  <2> QED
    BY <1>5, <2>1, <2>2, <2>3
<1>6. CASE SuccessDone \/ AfterDone \/ LateFailure
  <2>1. CASE SuccessDone
    BY <2>1, BarrierOnEnter DEF SuccessDone
  <2>2. CASE AfterDone
    BY <2>2, BarrierOnEnter DEF AfterDone
  <2>3. CASE LateFailure
    BY <2>3 DEF LateFailure
  <2> QED
    BY <1>6, <2>1, <2>2, <2>3
<1>7. CASE ErrorDone \/ ErrorHookFailed
  <2>1. CASE ErrorDone
    BY <2>1, BarrierOnEnter DEF ErrorDone
  <2>2. CASE ErrorHookFailed
    BY <2>2 DEF ErrorHookFailed
  <2> QED
    BY <1>7, <2>1, <2>2
<1>8. CASE FinishDone \/ FinishHookFailed
  <2>1. CASE FinishDone
    BY <2>1 DEF FinishDone
  <2>2. CASE FinishHookFailed
    BY <2>2 DEF FinishHookFailed
  <2> QED
    BY <1>8, <2>1, <2>2
<1>9. CASE ExceptionDone \/ ExceptionHookFailed
  <2>1. CASE ExceptionDone
    BY <2>1 DEF ExceptionDone
  <2>2. CASE ExceptionHookFailed
    BY <2>2 DEF ExceptionHookFailed
  <2> QED
    BY <1>9, <2>1, <2>2
<1>10. CASE UNCHANGED vars
  BY <1>10 DEF vars
<1> QED
  BY <1>1, <1>2, <1>3, <1>4, <1>5, <1>6, <1>7, <1>8, <1>9, <1>10 DEF Next, Call

\* The inductive invariant holds initially.
LEMMA InitInv == Init => IInv
<1> SUFFICES ASSUME Init, TypeOK
             PROVE  IInv
  BY InitTypeOK
<1> USE RegistrationAssumption
        DEF Init, HookPhases, Settled, HooksOf, Rejected, Running, Idle, Resolved, ZenroomRan
<1>1. RejectionInv /\ AheadInv /\ BehindInv /\ UncaughtInv
  BY DEF RejectionInv, AheadInv, BehindInv, UncaughtInv
<1>2. CleanInv /\ ErrorInv /\ FinishInv
  BY DEF CleanInv, ErrorInv, FinishInv
<1>3. PhaseBarrier /\ PhaseOrder
  BY DEF PhaseBarrier, PhaseOrder
<1> QED
  BY <1>1, <1>2, <1>3 DEF IInv

\* All parts of the invariant together are preserved by every step.
THEOREM Inductive == Spec => []IInv
<1>1. TypeOK /\ TypeOK' /\ IInv /\ [Next]_vars => IInv'
  BY RejectionInvStep, AheadInvStep, BehindInvStep, UncaughtInvStep, CleanInvStep,
     ErrorInvStep, FinishInvStep, PhaseBarrierStep, PhaseOrderStep DEF IInv
<1> QED
  BY <1>1, InitInv, TypeCorrect, PTL DEF Spec

-----------------------------------------------------------------------------
\* The invariant implies that errors are reported.
LEMMA InvNoSilentFailure == IInv => NoSilentFailure
<1> SUFFICES ASSUME IInv, pc = "returned"
             PROVE  outcome.error # None <=> Failed
  BY DEF NoSilentFailure
<1>1. ASSUME outcome.error # None
      PROVE  Failed
  BY <1>1 DEF IInv, ErrorInv, Failed
<1>2. ASSUME outcome.error = None, Failed
      PROVE  FALSE
  <2>1. caught = None
    BY DEF IInv, ErrorInv
  <2> QED
    BY <1>2, <2>1, RegistrationAssumption
       DEF IInv, CleanInv, TypeOK, Failed, Rejected, Resolved, Idle, HooksOf, HookPhases
<1> QED
  BY <1>1, <1>2

(***************************************************************************)
(* A call that returns carries an error exactly if a hook rejected or      *)
(* Zenroom failed, whatever hooks the middlewares registered.              *)
(***************************************************************************)
THEOREM ErrorsAreReported == Spec => []NoSilentFailure
BY InvNoSilentFailure, Inductive, PTL

(***************************************************************************)
(* A call that returns without an error has its result and every hook of   *)
(* the normal phases has resolved: nothing is still running.               *)
(***************************************************************************)
THEOREM CleanReturns == Spec => []CleanReturn
<1>1. IInv => CleanReturn
  BY DEF IInv, ErrorInv, CleanInv, CleanReturn
<1> QED
  BY <1>1, Inductive, PTL

\* Hooks of two phases overlap only after a hook of the earlier one rejected.
THEOREM PhasesDoNotOverlap == Spec => []PhaseBarrier
<1>1. IInv => PhaseBarrier
  BY DEF IInv
<1> QED
  BY <1>1, Inductive, PTL

\* A hook starts only when every hook of the phase before it has resolved.
THEOREM PhasesAreOrdered == Spec => []PhaseOrder
<1>1. IInv => PhaseOrder
  BY DEF IInv
<1> QED
  BY <1>1, Inductive, PTL

\* Once Zenroom has run, no call settles before the onFinish hooks started.
THEOREM FinishRunsAfterZenroom == Spec => []FinishAfterZenroom
<1>1. IInv => FinishAfterZenroom
  BY DEF IInv, FinishInv, FinishAfterZenroom, Settled
<1> QED
  BY <1>1, Inductive, PTL

\* The error a call returns is one that happened, reported the right way.
THEOREM ErrorsAreAccurate == Spec => []ErrorIsAccurate
<1>1. IInv => ErrorIsAccurate
  BY DEF IInv, ErrorInv, ErrorIsAccurate
<1> QED
  BY <1>1, Inductive, PTL

-----------------------------------------------------------------------------
(***************************************************************************)
(* Refinement.  Failed never goes back to FALSE; with that, each step of   *)
(* a call is a step of ContractCall or leaves its variables alone.         *)
(***************************************************************************)
LEMMA FailedGrows == TypeOK /\ TypeOK' /\ IInv /\ [Next]_vars /\ Failed => Failed'
<1> SUFFICES ASSUME TypeOK, TypeOK', IInv, [Next]_vars, Failed
             PROVE  Failed'
  OBVIOUS
<1>1. Rejected \subseteq Rejected'
  BY RejectedGrows
<1>2. CASE Rejected # {}
  BY <1>1, <1>2 DEF Failed
<1>3. CASE zenroom_errors = Zenroom
  <2>1. zenroom_errors' = Zenroom
    <3>1. pc \notin {"zenroom", "onSuccess", "onAfter"}
      BY <1>3, RegistrationAssumption DEF IInv, UncaughtInv
    <3> QED
      BY <1>3, <3>1
         DEF Next, Call, vars, Register, Hook, HookResolves, HookRejects, Begin,
             InitDone, BeforeDone, EarlyFailure, ArgumentsFail, ZenroomSucceeds,
             ZenroomFails, SuccessDone, AfterDone, LateFailure, ErrorDone,
             ErrorHookFailed, FinishDone, FinishHookFailed, ExceptionDone,
             ExceptionHookFailed, AllResolved, PhaseRejected
  <2> QED
    BY <2>1 DEF Failed
<1>4. CASE Arguments \in {caught, outcome.error}
  <2>1. pc \in {"onException", "rejected", "returned"}
    BY <1>4 DEF IInv, ErrorInv
  <2>2. CASE ExceptionDone
    <3>1. outcome.error # Arguments
      BY <2>2 DEF IInv, ErrorInv, ExceptionDone, AllResolved
    <3>2. outcome'.error = caught
      BY <2>2 DEF ExceptionDone, TypeOK
    <3> QED
      BY <1>4, <3>1, <3>2 DEF Failed
  <2>3. CASE ~ExceptionDone
    <3>1. caught' = caught /\ outcome' = outcome
      BY <2>1, <2>3
         DEF Next, Call, vars, Register, Hook, HookResolves, HookRejects, Begin,
             InitDone, BeforeDone, EarlyFailure, ArgumentsFail, ZenroomSucceeds,
             ZenroomFails, SuccessDone, AfterDone, LateFailure, ErrorDone,
             ErrorHookFailed, FinishDone, FinishHookFailed,
             ExceptionHookFailed, AllResolved, PhaseRejected
    <3> QED
      BY <1>4, <3>1 DEF Failed
  <2> QED
    BY <2>2, <2>3
<1> QED
  BY <1>2, <1>3, <1>4 DEF Failed

\* A call that has settled with an error or a rejection has failed, one that
\* has settled with a result has not.
AnswerInv == /\ Answer = "result" => ~Failed
             /\ Answer \in {"error", "rejection"} => Failed

LEMMA AnswerMeans == IInv => AnswerInv
<1> SUFFICES ASSUME IInv
             PROVE  AnswerInv
  OBVIOUS
<1>1. pc = "returned" => (outcome.error # None <=> Failed)
  BY InvNoSilentFailure DEF NoSilentFailure
<1>2. pc = "rejected" => Failed
  BY DEF IInv, ErrorInv, RejectionInv, Failed
<1> QED
  BY <1>1, <1>2 DEF Answer, AnswerInv

\* Once settled, a call keeps its answer; the step that settles it changes
\* no hook.
LEMMA AnswerStep ==
  ASSUME TypeOK, IInv, [Next]_vars
  PROVE  \/ Answer' = Answer
         \/ Answer = "pending" /\ Failed' = Failed
<1> USE DEF Answer, Failed, Rejected
<1>1. ASSUME NEW h \in Hooks, Register(h) \/ Hook(h)
      PROVE  Answer' = Answer
  BY <1>1 DEF Register, Hook, HookResolves, HookRejects
<1>2. CASE Begin \/ InitDone \/ BeforeDone \/ EarlyFailure
  BY <1>2 DEF Begin, InitDone, BeforeDone, EarlyFailure, AllResolved, PhaseRejected, Enter
<1>3. CASE ArgumentsFail \/ ZenroomSucceeds \/ ZenroomFails
  BY <1>3 DEF ArgumentsFail, ZenroomSucceeds, ZenroomFails, CatchError, Enter
<1>4. CASE SuccessDone \/ AfterDone \/ LateFailure
  BY <1>4 DEF SuccessDone, AfterDone, LateFailure, AllResolved, PhaseRejected, CatchError,
              Enter
<1>5. CASE ErrorDone \/ ErrorHookFailed
  BY <1>5 DEF ErrorDone, ErrorHookFailed, AllResolved, PhaseRejected, Enter
<1>6. CASE FinishDone \/ FinishHookFailed
  BY <1>6 DEF FinishDone, FinishHookFailed, AllResolved, PhaseRejected, Enter
<1>7. CASE ExceptionDone \/ ExceptionHookFailed
  <2>1. CASE ExceptionDone
    <3>1. outcome.error # Arguments
      BY <2>1 DEF IInv, ErrorInv, ExceptionDone, AllResolved
    <3>2. None # Arguments /\ outcome'.error = caught
      BY <2>1, RegistrationAssumption DEF ExceptionDone, TypeOK
    <3> QED
      BY <2>1, <3>1, <3>2 DEF ExceptionDone, AllResolved
  <2>2. CASE ExceptionHookFailed
    BY <2>2 DEF ExceptionHookFailed, PhaseRejected
  <2> QED
    BY <1>7, <2>1, <2>2
<1>8. CASE UNCHANGED vars
  BY <1>8 DEF vars
<1> QED
  BY <1>1, <1>2, <1>3, <1>4, <1>5, <1>6, <1>7, <1>8 DEF Next, Call

\* What the callers of callRestroom may rely on is what it does.
THEOREM LifecycleImplementsContractCall == Spec => ImplementsContractCall
<1>1. Init => Abstract!Init
  <2> SUFFICES ASSUME Init
               PROVE  Answer = "pending" /\ Failed = FALSE
    BY DEF Abstract!Init
  <2> QED
    BY RegistrationAssumption DEF Init, Answer, Failed, Rejected
<1>2. IInv' => AnswerInv'
  BY AnswerMeans, PTL
<1>3. TypeOK /\ TypeOK' /\ IInv /\ IInv' /\ [Next]_vars => [Abstract!Next]_(Abstract!vars)
  <2> SUFFICES ASSUME TypeOK, TypeOK', IInv, IInv', [Next]_vars
               PROVE  [Abstract!Next]_(Abstract!vars)
    OBVIOUS
  <2>1. Answer \in {"pending", "result", "error", "rejection"}
        /\ Answer' \in {"pending", "result", "error", "rejection"}
    BY DEF Answer
  <2>2. /\ Answer = "result" => ~Failed
        /\ Answer \in {"error", "rejection"} => Failed
    BY AnswerMeans DEF AnswerInv
  <2>3. /\ Answer' = "result" => ~Failed'
        /\ Answer' \in {"error", "rejection"} => Failed'
    BY <1>2 DEF AnswerInv
  <2>4. Failed => Failed'
    BY FailedGrows
  <2>5. Failed \in BOOLEAN /\ Failed' \in BOOLEAN
    BY DEF Failed
  <2>6. CASE Answer' = Answer
    <3>1. CASE Failed' = Failed
      BY <2>6, <3>1 DEF Abstract!vars
    <3>2. CASE Failed' # Failed
      <4>1. ~Failed /\ Failed' = TRUE
        BY <2>4, <2>5, <3>2
      <4>2. Answer = "pending"
        BY <2>1, <2>2, <2>3, <2>6, <4>1
      <4> QED
        BY <2>6, <4>1, <4>2 DEF Abstract!Next, Abstract!Fail
    <3> QED
      BY <3>1, <3>2
  <2>7. CASE Answer' # Answer
    <3>1. Answer = "pending" /\ Failed' = Failed
      BY <2>7, AnswerStep
    <3> QED
      BY <2>1, <2>3, <2>7, <3>1
         DEF Abstract!Next, Abstract!ReturnResult, Abstract!ReturnError
  <2> QED
    BY <2>6, <2>7
<1> QED
  BY <1>1, <1>3, TypeCorrect, Inductive, PTL DEF Spec, ImplementsContractCall, Abstract!Spec
=============================================================================
