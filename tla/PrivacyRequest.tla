--------------------------- MODULE PrivacyRequest ---------------------------
(***************************************************************************)
(* The aggregate PrivacyRequestAggregate of packages/domain: one privacy   *)
(* request, from its creation to completion or cancellation.  One action   *)
(* per method; an action's guard is the method's checks (a failed check    *)
(* throws before anything is assigned, so it is no step), its primed       *)
(* variables are the method's assignments.                                 *)
(*                                                                         *)
(* A plan's identity and content are one value of PlanDocs (planId and     *)
(* planFingerprint), its version a number.  Actors, reasons, categories    *)
(* and counts only reach the event payloads and are left out; the events   *)
(* themselves are modelled with the repository in module RequestStore.     *)
(* An attempt's attemptNumber is its position in the sequence.             *)
(***************************************************************************)
EXTENDS Naturals, Sequences

CONSTANTS
  PlanDocs,        \* (planId, planFingerprint) pairs a planner may produce
  StepIds,         \* the ids of steps an authorization may allow
  AttemptIds,      \* the attempt ids callers may offer
  Null,            \* no plan, no approval, no current attempt
  MaxPlanVersion,  \* bound: the largest plan version callers offer
  MaxVersion       \* bound: the version at which a run stops

Bindings == [doc : PlanDocs, version : 1..MaxPlanVersion]
Plans    == [binding : Bindings, requiresApproval : BOOLEAN]

ASSUME PrivacyRequestAssumption ==
  /\ MaxPlanVersion \in Nat
  /\ MaxVersion \in Nat
  /\ Null \notin AttemptIds \cup Bindings \cup Plans

VARIABLES
  status,             \* _status
  version,            \* _version
  plan,               \* the attached plan, or Null
  approval,           \* the binding that was approved, or Null
  latestPlanVersion,  \* the newest plan version ever attached
  attempts,           \* the execution attempts, oldest first
  currentAttemptId    \* _currentAttemptId

vars == <<status, version, plan, approval, latestPlanVersion, attempts,
          currentAttemptId>>

\* The request as the lifecycle sees it: its status and its attempts' ones.
lifecycle == [status   |-> status,
              attempts |-> [i \in DOMAIN attempts |-> attempts[i].status]]

L == INSTANCE RequestLifecycle WITH request <- lifecycle

Statuses == L!Statuses

Attempts ==
  [id : AttemptIds, kind : {"initial", "retry"}, binding : Bindings,
   steps : (SUBSET StepIds) \ {{}},
   status : L!OpenAttempt \cup L!ClosedAttempt, completed : BOOLEAN]

-----------------------------------------------------------------------------
(* The private helpers.                                                    *)

\* Every operator named Bad... is a wrong version of the next one: a slip that
\* some property below must notice.

CanTransition(next) == next \in L!Transitions(status)

\* record: every accepted command is one version and one event.
Record == /\ version < MaxVersion
          /\ version' = version + 1

Transition(next) == /\ CanTransition(next)
                    /\ status' = next
                    /\ Record

BindsPlan(binding) == plan # Null /\ plan.binding = binding

\* buildAttempt and appendAttempt: an unused id, authorized, not completed.
OpenNewAttempt(id, kind, binding, steps) ==
  /\ \A i \in DOMAIN attempts : attempts[i].id # id
  /\ attempts' = Append(attempts,
       [id |-> id, kind |-> kind, binding |-> binding, steps |-> steps,
        status |-> "authorized", completed |-> FALSE])
  /\ currentAttemptId' = id

\* Updates every attempt, not only the current one.
BadUpdateCurrentAttempt(s, completed) ==
  /\ attempts' = [i \in DOMAIN attempts |->
       [attempts[i] EXCEPT !.status = s, !.completed = completed]]
  /\ UNCHANGED currentAttemptId

\* updatedCurrentAttempt and applyAttemptUpdate.
UpdateCurrentAttempt(s, completed) ==
  /\ \E i \in DOMAIN attempts : attempts[i].id = currentAttemptId
  /\ attempts' = [i \in DOMAIN attempts |->
       IF attempts[i].id = currentAttemptId
         THEN [attempts[i] EXCEPT !.status = s, !.completed = completed]
         ELSE attempts[i]]
  /\ UNCHANGED currentAttemptId

\* markPartial, fail, markNeedsReview: the attempt only if it is running.
EndAttemptIf(running, s) ==
  IF running THEN UpdateCurrentAttempt(s, TRUE)
             ELSE UNCHANGED <<attempts, currentAttemptId>>

UnchangedPlan == UNCHANGED <<plan, approval, latestPlanVersion>>
UnchangedAttempts == UNCHANGED <<attempts, currentAttemptId>>

-----------------------------------------------------------------------------
(* The commands, one action for each public method.                        *)

BeginIdentityVerification ==
  /\ Transition("identity_verification_pending")
  /\ UnchangedPlan /\ UnchangedAttempts

MarkIdentityVerified ==
  /\ Transition("identity_verified")
  /\ UnchangedPlan /\ UnchangedAttempts

BeginPlanning ==
  /\ status = "identity_verified"
  /\ Transition("planning")
  /\ UnchangedPlan /\ UnchangedAttempts

\* Accepts a second plan of a version already seen.
BadAttachPlan(p) ==
  /\ status = "planning"
  /\ p.binding.version >= latestPlanVersion
  /\ plan' = p
  /\ approval' = Null
  /\ latestPlanVersion' = p.binding.version
  /\ status' = IF p.requiresApproval THEN "awaiting_approval" ELSE status
  /\ Record
  /\ UnchangedAttempts

AttachPlan(p) ==
  /\ status = "planning"
  /\ p.binding.version > latestPlanVersion
  /\ plan' = p
  /\ approval' = Null
  /\ latestPlanVersion' = p.binding.version
  /\ status' = IF p.requiresApproval THEN "awaiting_approval" ELSE status
  /\ Record
  /\ UnchangedAttempts

ApprovePlan(binding) ==
  /\ status = "awaiting_approval"
  /\ BindsPlan(binding)
  /\ approval' = binding
  /\ Record
  /\ UNCHANGED <<status, plan, latestPlanVersion>> /\ UnchangedAttempts

RejectPlan(disposition) ==
  /\ status = "awaiting_approval"
  /\ approval' = Null
  /\ IF disposition = "changes_requested"
       THEN plan' = Null /\ Transition("planning")
       ELSE plan' = plan /\ Transition("cancelled")
  /\ UNCHANGED latestPlanVersion /\ UnchangedAttempts

\* Does not ask for the approval.
BadAuthorizeExecution(binding, id, steps) ==
  /\ status \in {"planning", "awaiting_approval"}
  /\ BindsPlan(binding)
  /\ OpenNewAttempt(id, "initial", binding, steps)
  /\ Transition("execution_authorized")
  /\ UnchangedPlan

AuthorizeExecution(binding, id, steps) ==
  /\ status \in {"planning", "awaiting_approval"}
  /\ BindsPlan(binding)
  /\ status = "planning" => ~plan.requiresApproval
  /\ status = "awaiting_approval" => approval # Null
  /\ OpenNewAttempt(id, "initial", binding, steps)
  /\ Transition("execution_authorized")
  /\ UnchangedPlan

MarkExecuting ==
  /\ status = "execution_authorized"
  /\ UpdateCurrentAttempt("running", FALSE)
  /\ Transition("executing")
  /\ UnchangedPlan

Complete ==
  /\ status = "executing"
  /\ UpdateCurrentAttempt("succeeded", TRUE)
  /\ Transition("completed")
  /\ UnchangedPlan

MarkPartial ==
  /\ EndAttemptIf(status = "executing", "partially_succeeded")
  /\ Transition("partially_completed")
  /\ UnchangedPlan

Fail ==
  /\ EndAttemptIf(status = "executing", "failed")
  /\ Transition("failed")
  /\ UnchangedPlan

MarkNeedsReview ==
  /\ EndAttemptIf(status = "executing", "needs_review")
  /\ Transition("needs_review")
  /\ UnchangedPlan

\* Keeps the approval of the plan it discards.
BadRequestReplan ==
  /\ status \in L!UnsettledStatuses
  /\ plan' = Null
  /\ Transition("planning")
  /\ UNCHANGED <<approval, latestPlanVersion>> /\ UnchangedAttempts

RequestReplan ==
  /\ status \in L!UnsettledStatuses
  /\ plan' = Null
  /\ approval' = Null
  /\ Transition("planning")
  /\ UNCHANGED latestPlanVersion /\ UnchangedAttempts

\* Authorizes the previous attempt again instead of opening a new one.
BadBeginRetry(id, steps, expectedVersion) ==
  /\ status \in L!UnsettledStatuses
  /\ expectedVersion = version
  /\ plan # Null
  /\ UpdateCurrentAttempt("authorized", FALSE)
  /\ Transition("execution_authorized")
  /\ UnchangedPlan

BeginRetry(id, steps, expectedVersion) ==
  /\ status \in L!UnsettledStatuses
  /\ expectedVersion = version
  /\ plan # Null
  /\ OpenNewAttempt(id, "retry", plan.binding, steps)
  /\ Transition("execution_authorized")
  /\ UnchangedPlan

InvalidateAuthorization ==
  /\ status = "execution_authorized"
  /\ UpdateCurrentAttempt("cancelled", TRUE)
  /\ approval' = Null
  /\ Transition("awaiting_approval")
  /\ UNCHANGED <<plan, latestPlanVersion>>

AcceptRetainedOutcome ==
  /\ status \in {"partially_completed", "needs_review"}
  /\ Transition("completed")
  /\ UnchangedPlan /\ UnchangedAttempts

\* Forgets the attempt that was authorized.
BadCancel ==
  /\ Transition("cancelled")
  /\ UnchangedPlan /\ UnchangedAttempts

Cancel ==
  /\ EndAttemptIf(status = "execution_authorized", "cancelled")
  /\ Transition("cancelled")
  /\ UnchangedPlan

-----------------------------------------------------------------------------
\* The constructor and create.
Init ==
  /\ status = "created"
  /\ version = 1
  /\ plan = Null
  /\ approval = Null
  /\ latestPlanVersion = 0
  /\ attempts = << >>
  /\ currentAttemptId = Null

Next ==
  \/ BeginIdentityVerification
  \/ MarkIdentityVerified
  \/ BeginPlanning
  \/ \E p \in Plans : AttachPlan(p)
  \/ \E b \in Bindings : ApprovePlan(b)
  \/ \E d \in {"changes_requested", "plan_rejected"} : RejectPlan(d)
  \/ \E b \in Bindings, id \in AttemptIds, steps \in (SUBSET StepIds) \ {{}} :
       AuthorizeExecution(b, id, steps)
  \/ MarkExecuting
  \/ Complete
  \/ MarkPartial
  \/ Fail
  \/ MarkNeedsReview
  \/ RequestReplan
  \/ \E id \in AttemptIds, steps \in (SUBSET StepIds) \ {{}},
        v \in 1..MaxVersion : BeginRetry(id, steps, v)
  \/ InvalidateAuthorization
  \/ AcceptRetainedOutcome
  \/ Cancel

Spec == Init /\ [][Next]_vars

-----------------------------------------------------------------------------
(* The type invariant: the fields of the aggregate and their values.       *)
TypeOK ==
  /\ status \in Statuses
  /\ version \in Nat
  /\ plan \in Plans \cup {Null}
  /\ approval \in Bindings \cup {Null}
  /\ latestPlanVersion \in 0..MaxPlanVersion
  /\ attempts \in Seq(Attempts)
  /\ currentAttemptId \in AttemptIds \cup {Null}

(* The attempt a request calls current is its newest one, it is open       *)
(* exactly while the request is authorized or executing, and every older   *)
(* attempt is closed for good: the methods that end an attempt do so only  *)
(* under a test of the status, so one missing test (or one transition out  *)
(* of execution that forgets the attempt) would leave work open that       *)
(* nobody owns, which the database's one-way trigger then never closes.    *)
OpenAttemptIsCurrent ==
  /\ currentAttemptId = IF attempts = << >> THEN Null
                        ELSE attempts[Len(attempts)].id
  /\ \A i \in DOMAIN attempts :
       LET open == i = Len(attempts) /\ status \in
                     {"execution_authorized", "executing"}
       IN  /\ attempts[i].completed = ~open
           /\ attempts[i].status \in
                IF open
                  THEN IF status = "executing" THEN {"running"}
                                               ELSE {"authorized"}
                  ELSE L!ClosedAttempt

(* "Approval never applies to another plan version": an approval always    *)
(* binds the plan that is attached now, through every re-plan, rejection,  *)
(* invalidated authorization and retry.                                    *)
ApprovalBindsPlan ==
  approval # Null => plan # Null /\ plan.binding = approval

(* Nothing executes without consent: while an attempt is open, and while   *)
(* an unsettled outcome may be retried without asking again, the attached  *)
(* plan either needs no approval or holds a live one.                      *)
WorkIsApproved ==
  /\ status \in {"execution_authorized", "executing"} => plan # Null
  /\ /\ plan # Null
     /\ plan.requiresApproval
     /\ status \notin {"awaiting_approval", "cancelled"}
     => approval # Null

(* An open attempt executes the attached plan, and the attempts of a       *)
(* request move forward through its plan versions: no later attempt runs   *)
(* an older plan, and one version never stands for two plans.              *)
AttemptsFollowPlan ==
  /\ \A i \in DOMAIN attempts :
       ~attempts[i].completed => attempts[i].binding = plan.binding
  /\ \A i, j \in DOMAIN attempts : i < j =>
       \/ attempts[i].binding = attempts[j].binding
       \/ attempts[i].binding.version < attempts[j].binding.version
  /\ \A i \in DOMAIN attempts :
       attempts[i].binding.version <= latestPlanVersion

(* What makes the invariants above inductive: attempt ids are unique, the  *)
(* attached plan is the newest ever attached, and no attempt ever bound    *)
(* another plan of that version.                                           *)
AttemptIdsAreUnique ==
  \A i, j \in DOMAIN attempts : attempts[i].id = attempts[j].id => i = j

PlanIsLatest ==
  plan # Null =>
    /\ plan.binding.version = latestPlanVersion
    /\ \A i \in DOMAIN attempts :
         attempts[i].binding.version = latestPlanVersion =>
           attempts[i].binding = plan.binding

IInv == /\ TypeOK
        /\ OpenAttemptIsCurrent
        /\ ApprovalBindsPlan
        /\ WorkIsApproved
        /\ AttemptsFollowPlan
        /\ AttemptIdsAreUnique
        /\ PlanIsLatest

(* "A selective retry creates a new attempt.  It never mutates or reuses   *)
(* the previous authorization": a step keeps every attempt it found, in    *)
(* its place, with the plan and the steps it was authorized for, and a     *)
(* completed attempt keeps its outcome as well.                            *)
AttemptsAreImmutable ==
  [][/\ Len(attempts) <= Len(attempts')
     /\ \A i \in DOMAIN attempts :
          IF attempts[i].completed
            THEN attempts'[i] = attempts[i]
            ELSE [attempts'[i] EXCEPT !.status = attempts[i].status,
                                      !.completed = FALSE] = attempts[i]]_vars

(* "Cancellation never reopens a request": once completed or cancelled, no *)
(* command is accepted any more, not even one that keeps the status.       *)
TerminalIsFinal == [][status \notin L!TerminalStatuses]_vars

(* The aggregate implements the lifecycle of module RequestLifecycle.      *)
ImplementsLifecycle == L!Spec
=============================================================================
