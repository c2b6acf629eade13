------------------------ MODULE PrivacyRequestProofs ------------------------
(***************************************************************************)
(* Theorems about module PrivacyRequest, for every set of plan documents,  *)
(* steps and attempt ids and for every bound.                              *)
(***************************************************************************)
EXTENDS PrivacyRequest, TLAPS

StepScopes == (SUBSET StepIds) \ {{}}

(* The names of the moves of the transition table that a step may make.    *)
LEMMA TransitionsTyped ==
  ASSUME NEW s PROVE L!Transitions(s) \subseteq Statuses
BY DEF L!Transitions, Statuses, L!Statuses

(* A function on 1..n is a sequence of length n.                           *)
LEMMA FunctionIsSeq ==
  ASSUME NEW S, NEW n \in Nat, NEW f \in [1..n -> S]
  PROVE  f \in Seq(S) /\ Len(f) = n /\ DOMAIN f = 1..n
OBVIOUS

(* buildAttempt and appendAttempt return a well-formed list of attempts.   *)
LEMMA OpenNewAttemptTyped ==
  ASSUME TypeOK, NEW id \in AttemptIds, NEW kind \in {"initial", "retry"},
         NEW b \in Bindings, NEW steps \in StepScopes,
         OpenNewAttempt(id, kind, b, steps)
  PROVE  /\ attempts' \in Seq(Attempts)
         /\ currentAttemptId' \in AttemptIds \cup {Null}
<1> DEFINE new == [id |-> id, kind |-> kind, binding |-> b, steps |-> steps,
                   status |-> "authorized", completed |-> FALSE]
<1>1. new \in Attempts
  BY DEF Attempts, StepScopes, L!OpenAttempt, L!ClosedAttempt
<1>2. attempts' = Append(attempts, new)
  BY DEF OpenNewAttempt
<1>3. attempts \in Seq(Attempts)
  BY DEF TypeOK
<1> QED BY <1>1, <1>2, <1>3 DEF OpenNewAttempt

(* updatedCurrentAttempt and applyAttemptUpdate keep the list well formed, *)
(* of the same length.                                                     *)
LEMMA UpdateCurrentAttemptTyped ==
  ASSUME TypeOK, NEW s \in L!OpenAttempt \cup L!ClosedAttempt,
         NEW c \in BOOLEAN, UpdateCurrentAttempt(s, c)
  PROVE  /\ attempts' \in Seq(Attempts)
         /\ Len(attempts') = Len(attempts)
         /\ DOMAIN attempts' = DOMAIN attempts
         /\ currentAttemptId' = currentAttemptId
<1> DEFINE new(i) == IF attempts[i].id = currentAttemptId
                       THEN [attempts[i] EXCEPT !.status = s, !.completed = c]
                       ELSE attempts[i]
<1>1. attempts \in Seq(Attempts) /\ DOMAIN attempts = 1..Len(attempts)
  BY DEF TypeOK
<1>2. ASSUME NEW i \in 1..Len(attempts) PROVE new(i) \in Attempts
  <2>1. attempts[i] \in Attempts
    BY <1>1, <1>2
  <2> QED BY <2>1 DEF Attempts
<1>3. attempts' = [i \in 1..Len(attempts) |-> new(i)]
  BY <1>1 DEF UpdateCurrentAttempt
<1>4. Len(attempts) \in Nat
  BY <1>1
<1>5. attempts' \in [1..Len(attempts) -> Attempts]
  BY <1>2, <1>3
<1>6. /\ attempts' \in Seq(Attempts)
      /\ Len(attempts') = Len(attempts)
      /\ DOMAIN attempts' = 1..Len(attempts)
  BY <1>4, <1>5, FunctionIsSeq
<1> QED BY <1>1, <1>6 DEF UpdateCurrentAttempt

(* The two together with UNCHANGED: every way a command leaves attempts.   *)
LEMMA EndAttemptIfTyped ==
  ASSUME TypeOK, NEW s \in L!ClosedAttempt, NEW c \in BOOLEAN,
         EndAttemptIf(c, s)
  PROVE  /\ attempts' \in Seq(Attempts)
         /\ currentAttemptId' = currentAttemptId
<1>1. CASE c
  BY <1>1, UpdateCurrentAttemptTyped DEF EndAttemptIf
<1>2. CASE ~c
  BY <1>2 DEF EndAttemptIf, TypeOK
<1> QED BY <1>1, <1>2

(* Every command keeps the types.                                          *)
LEMMA TypeStep == TypeOK /\ [Next]_vars => TypeOK'
<1> SUFFICES ASSUME TypeOK, [Next]_vars PROVE TypeOK'
  OBVIOUS
<1> USE PrivacyRequestAssumption
<1> DEFINE Scalars == /\ status' \in Statuses
                      /\ version' \in Nat
           PlanFields == /\ plan' \in Plans \cup {Null}
                         /\ approval' \in Bindings \cup {Null}
                         /\ latestPlanVersion' \in 0..MaxPlanVersion
           AttemptFields == /\ attempts' \in Seq(Attempts)
                            /\ currentAttemptId' \in AttemptIds \cup {Null}
<1>t. ASSUME NEW s, Transition(s) PROVE Scalars
  BY <1>t, TransitionsTyped DEF Transition, CanTransition, Record, TypeOK
<1>p. UnchangedPlan => PlanFields
  BY DEF UnchangedPlan, TypeOK
<1>a. UnchangedAttempts => AttemptFields
  BY DEF UnchangedAttempts, TypeOK
<1>c. currentAttemptId \in AttemptIds \cup {Null}
  BY DEF TypeOK
<1>u. ASSUME NEW s \in L!OpenAttempt \cup L!ClosedAttempt, NEW c \in BOOLEAN,
             UpdateCurrentAttempt(s, c)
      PROVE  AttemptFields
  BY <1>u, <1>c, UpdateCurrentAttemptTyped
<1>e. ASSUME NEW s \in L!ClosedAttempt, NEW c \in BOOLEAN, EndAttemptIf(c, s)
      PROVE  AttemptFields
  BY <1>e, <1>c, EndAttemptIfTyped
<1>q. Scalars /\ PlanFields /\ AttemptFields => TypeOK'
  BY DEF TypeOK
<1>1. CASE BeginIdentityVerification
  BY <1>1, <1>t, <1>p, <1>a, <1>q DEF BeginIdentityVerification
<1>2. CASE MarkIdentityVerified
  BY <1>2, <1>t, <1>p, <1>a, <1>q DEF MarkIdentityVerified
<1>3. CASE BeginPlanning
  BY <1>3, <1>t, <1>p, <1>a, <1>q DEF BeginPlanning
<1>4. ASSUME NEW p \in Plans, AttachPlan(p) PROVE TypeOK'
  <2>1. p.binding.version \in 1..MaxPlanVersion
    BY <1>4 DEF Plans, Bindings
  <2>2. PlanFields
    BY <1>4, <2>1 DEF AttachPlan
  <2>3. Scalars
    BY <1>4 DEF AttachPlan, Record, TypeOK, Statuses, L!Statuses
  <2> QED BY <1>4, <1>a, <1>q, <2>2, <2>3 DEF AttachPlan
<1>5. ASSUME NEW b \in Bindings, ApprovePlan(b) PROVE TypeOK'
  <2>1. Scalars /\ PlanFields
    BY <1>5 DEF ApprovePlan, Record, TypeOK
  <2> QED BY <1>5, <1>a, <1>q, <2>1 DEF ApprovePlan
<1>6. ASSUME NEW d, RejectPlan(d) PROVE TypeOK'
  <2>1. Scalars
    BY <1>6, <1>t DEF RejectPlan
  <2>2. PlanFields
    BY <1>6 DEF RejectPlan, TypeOK
  <2> QED BY <1>6, <1>a, <1>q, <2>1, <2>2 DEF RejectPlan
<1>7. ASSUME NEW b \in Bindings, NEW id \in AttemptIds, NEW st \in StepScopes,
             AuthorizeExecution(b, id, st)
      PROVE  TypeOK'
  BY <1>7, <1>t, <1>p, <1>q, OpenNewAttemptTyped DEF AuthorizeExecution
<1>8. CASE MarkExecuting
  BY <1>8, <1>t, <1>p, <1>u, <1>q DEF MarkExecuting, L!OpenAttempt
<1>9. CASE Complete
  BY <1>9, <1>t, <1>p, <1>u, <1>q DEF Complete, L!ClosedAttempt
<1>10. CASE MarkPartial
  BY <1>10, <1>t, <1>p, <1>e, <1>q DEF MarkPartial, L!ClosedAttempt
<1>11. CASE Fail
  BY <1>11, <1>t, <1>p, <1>e, <1>q DEF Fail, L!ClosedAttempt
<1>12. CASE MarkNeedsReview
  BY <1>12, <1>t, <1>p, <1>e, <1>q DEF MarkNeedsReview, L!ClosedAttempt
<1>13. CASE RequestReplan
  <2>1. PlanFields
    BY <1>13 DEF RequestReplan, TypeOK
  <2> QED BY <1>13, <1>t, <1>a, <1>q, <2>1 DEF RequestReplan
<1>14. ASSUME NEW id \in AttemptIds, NEW st \in StepScopes, NEW v,
              BeginRetry(id, st, v)
       PROVE  TypeOK'
  <2>1. plan.binding \in Bindings
    BY <1>14 DEF BeginRetry, TypeOK, Plans
  <2> QED BY <1>14, <2>1, <1>t, <1>p, <1>q, OpenNewAttemptTyped
      DEF BeginRetry
<1>15. CASE InvalidateAuthorization
  <2>1. PlanFields
    BY <1>15 DEF InvalidateAuthorization, TypeOK
  <2> QED BY <1>15, <1>t, <1>u, <1>q, <2>1
      DEF InvalidateAuthorization, L!ClosedAttempt
<1>16. CASE AcceptRetainedOutcome
  BY <1>16, <1>t, <1>p, <1>a, <1>q DEF AcceptRetainedOutcome
<1>17. CASE Cancel
  BY <1>17, <1>t, <1>p, <1>e, <1>q DEF Cancel, L!ClosedAttempt
<1>18. CASE UNCHANGED vars
  BY <1>18 DEF vars, TypeOK
<1> QED
  BY <1>1, <1>2, <1>3, <1>4, <1>5, <1>6, <1>7, <1>8, <1>9, <1>10, <1>11,
     <1>12, <1>13, <1>14, <1>15, <1>16, <1>17, <1>18 DEF Next, StepScopes

(* A new aggregate is well typed.                                          *)
LEMMA TypeInit == Init => TypeOK
BY PrivacyRequestAssumption
   DEF Init, TypeOK, Statuses, L!Statuses

(* The aggregate's fields keep their types, whatever commands it is given  *)
(* and in whatever order.                                                  *)
THEOREM TypeCorrect == Spec => []TypeOK
BY TypeInit, TypeStep, PTL DEF Spec

-----------------------------------------------------------------------------
(* What opening and updating an attempt do to the list, given IInv.        *)

(* Appending an attempt: the list grows by one entry at its end.           *)
LEMMA OpenNewAttemptEffect ==
  ASSUME IInv, NEW id \in AttemptIds, NEW kind \in {"initial", "retry"},
         NEW b \in Bindings, NEW steps \in StepScopes,
         OpenNewAttempt(id, kind, b, steps)
  PROVE  /\ Len(attempts) \in Nat
         /\ DOMAIN attempts = 1..Len(attempts)
         /\ Len(attempts') = Len(attempts) + 1
         /\ DOMAIN attempts' = 1..(Len(attempts) + 1)
         /\ \A i \in 1..Len(attempts) : /\ attempts'[i] = attempts[i]
                                       /\ attempts[i].id # id
         /\ attempts'[Len(attempts) + 1] =
              [id |-> id, kind |-> kind, binding |-> b, steps |-> steps,
               status |-> "authorized", completed |-> FALSE]
         /\ currentAttemptId' = id
<1>1. attempts \in Seq(Attempts)
  BY DEF IInv, TypeOK
<1> QED BY <1>1 DEF OpenNewAttempt

(* Updating the current attempt: only the newest entry changes.            *)
LEMMA UpdateCurrentAttemptEffect ==
  ASSUME IInv, NEW s \in L!OpenAttempt \cup L!ClosedAttempt,
         NEW c \in BOOLEAN, UpdateCurrentAttempt(s, c)
  PROVE  /\ Len(attempts) \in Nat \ {0}
         /\ DOMAIN attempts = 1..Len(attempts)
         /\ Len(attempts') = Len(attempts)
         /\ DOMAIN attempts' = 1..Len(attempts)
         /\ \A i \in 1..Len(attempts) :
              /\ attempts'[i].id = attempts[i].id
              /\ attempts'[i].binding = attempts[i].binding
              /\ i # Len(attempts) => attempts'[i] = attempts[i]
         /\ attempts'[Len(attempts)] =
              [attempts[Len(attempts)] EXCEPT !.status = s, !.completed = c]
         /\ attempts'[Len(attempts)].status = s
         /\ attempts'[Len(attempts)].completed = c
         /\ currentAttemptId' = currentAttemptId
<1> DEFINE n == Len(attempts)
<1>1. attempts \in Seq(Attempts) /\ DOMAIN attempts = 1..n /\ n \in Nat
  BY DEF IInv, TypeOK
<1>2. n # 0 /\ attempts # << >>
  <2>1. PICK i \in DOMAIN attempts : attempts[i].id = currentAttemptId
    BY DEF UpdateCurrentAttempt
  <2>2. n # 0
    BY <1>1, <2>1
  <2> QED BY <2>2
<1>3. currentAttemptId = attempts[n].id
  BY <1>2 DEF IInv, OpenAttemptIsCurrent
<1>4. ASSUME NEW i \in 1..n
      PROVE  (attempts[i].id = currentAttemptId) <=> (i = n)
  <2>1. n \in DOMAIN attempts /\ i \in DOMAIN attempts
    BY <1>1, <1>2
  <2> QED BY <1>3, <2>1 DEF IInv, AttemptIdsAreUnique
<1>5. \A i \in 1..n : attempts[i] \in Attempts
  BY <1>1
<1>6. /\ Len(attempts') = n
      /\ DOMAIN attempts' = 1..n
  BY <1>1, UpdateCurrentAttemptTyped DEF IInv
<1>7. \A i \in 1..n : attempts'[i] =
         IF i = n THEN [attempts[i] EXCEPT !.status = s, !.completed = c]
                  ELSE attempts[i]
  BY <1>1, <1>4 DEF UpdateCurrentAttempt
<1>8. n \in 1..n
  BY <1>1, <1>2
<1>9. \A i \in 1..n : /\ attempts'[i].id = attempts[i].id
                      /\ attempts'[i].binding = attempts[i].binding
  BY <1>5, <1>7 DEF Attempts
<1>10. /\ attempts'[n].status = s
       /\ attempts'[n].completed = c
  <2>1. attempts'[n] = [attempts[n] EXCEPT !.status = s, !.completed = c]
    BY <1>7, <1>8
  <2>2. attempts[n] \in Attempts
    BY <1>5, <1>8
  <2> QED BY <2>1, <2>2 DEF Attempts
<1> QED
  BY <1>1, <1>2, <1>6, <1>7, <1>8, <1>9, <1>10 DEF UpdateCurrentAttempt

-----------------------------------------------------------------------------
(* The inductive step, by what a command does to the attempts.  Executing  *)
(* stands for the two statuses with an open attempt, Exempt for the two    *)
(* in which the attached plan may lack its approval.                       *)

Executing == {"execution_authorized", "executing"}
Exempt    == {"awaiting_approval", "cancelled"}

(* A command that moves the status outside execution and nothing else.     *)
LEMMA StatusMoveStep ==
  ASSUME IInv, TypeOK', UnchangedPlan, UnchangedAttempts,
         status \notin Executing, status' \notin Executing,
         status \in Exempt => status' \in Exempt
  PROVE  IInv'
<1> USE DEF UnchangedPlan, UnchangedAttempts, Executing, Exempt, IInv
<1>1. OpenAttemptIsCurrent'
  BY DEF OpenAttemptIsCurrent
<1>2. ApprovalBindsPlan'
  BY DEF ApprovalBindsPlan
<1>3. WorkIsApproved'
  BY DEF WorkIsApproved
<1>4. AttemptsFollowPlan'
  BY DEF AttemptsFollowPlan
<1>5. AttemptIdsAreUnique' /\ PlanIsLatest'
  BY DEF AttemptIdsAreUnique, PlanIsLatest
<1> QED BY <1>1, <1>2, <1>3, <1>4, <1>5

(* A command that drops or replaces plan and approval outside execution.   *)
LEMMA PlanChangeStep ==
  ASSUME IInv, TypeOK', UnchangedAttempts,
         status \notin Executing, status' \notin Executing,
         approval' # Null => plan' # Null /\ plan'.binding = approval',
         plan' # Null => \/ status' \in Exempt
                         \/ ~plan'.requiresApproval
                         \/ approval' # Null,
         \/ plan' \in {Null, plan} /\ latestPlanVersion' = latestPlanVersion
         \/ /\ plan' # Null
            /\ plan'.binding.version = latestPlanVersion'
            /\ latestPlanVersion' > latestPlanVersion
  PROVE  IInv'
<1> USE DEF UnchangedAttempts, Executing, Exempt, IInv
<1>0. /\ attempts \in Seq(Attempts)
      /\ latestPlanVersion \in Nat /\ latestPlanVersion' \in Nat
      /\ \A i \in DOMAIN attempts : attempts[i].binding.version \in Nat
  <2>1. attempts \in Seq(Attempts)
    BY DEF TypeOK
  <2>2. \A i \in DOMAIN attempts : attempts[i] \in Attempts
    BY <2>1
  <2> QED BY <2>1, <2>2, PrivacyRequestAssumption
      DEF TypeOK, Attempts, Bindings
<1>1. OpenAttemptIsCurrent'
  BY DEF OpenAttemptIsCurrent
<1>2. ApprovalBindsPlan'
  BY DEF ApprovalBindsPlan
<1>3. WorkIsApproved'
  BY DEF WorkIsApproved
<1>4. AttemptsFollowPlan'
  <2>1. \A i \in DOMAIN attempts : attempts[i].completed
    BY DEF OpenAttemptIsCurrent
  <2> QED BY <1>0, <2>1 DEF AttemptsFollowPlan
<1>5. AttemptIdsAreUnique'
  BY DEF AttemptIdsAreUnique
<1>6. PlanIsLatest'
  BY <1>0 DEF PlanIsLatest, AttemptsFollowPlan
<1> QED BY <1>1, <1>2, <1>3, <1>4, <1>5, <1>6

(* A command that opens an attempt for the attached plan.                  *)
LEMMA OpenAttemptStep ==
  ASSUME IInv, TypeOK', UnchangedPlan, plan # Null,
         plan.requiresApproval => approval # Null,
         status \notin Executing, status' = "execution_authorized",
         NEW id \in AttemptIds, NEW kind \in {"initial", "retry"},
         NEW steps \in StepScopes,
         OpenNewAttempt(id, kind, plan.binding, steps)
  PROVE  IInv'
<1> DEFINE n == Len(attempts)
<1>0. /\ plan \in Plans /\ plan.binding \in Bindings
      /\ approval \in Bindings \cup {Null}
      /\ latestPlanVersion \in Nat
  BY PrivacyRequestAssumption DEF IInv, TypeOK, Plans
<1>1. /\ n \in Nat
      /\ DOMAIN attempts = 1..n
      /\ Len(attempts') = n + 1
      /\ DOMAIN attempts' = 1..(n + 1)
      /\ \A i \in 1..n : attempts'[i] = attempts[i] /\ attempts[i].id # id
      /\ attempts'[n + 1].id = id
      /\ attempts'[n + 1].binding = plan.binding
      /\ attempts'[n + 1].status = "authorized"
      /\ attempts'[n + 1].completed = FALSE
      /\ currentAttemptId' = id
  <2>1. /\ n \in Nat
        /\ DOMAIN attempts = 1..n
        /\ Len(attempts') = n + 1
        /\ DOMAIN attempts' = 1..(n + 1)
        /\ \A i \in 1..n : attempts'[i] = attempts[i] /\ attempts[i].id # id
        /\ attempts'[n + 1] =
             [id |-> id, kind |-> kind, binding |-> plan.binding,
              steps |-> steps, status |-> "authorized", completed |-> FALSE]
        /\ currentAttemptId' = id
    BY <1>0, OpenNewAttemptEffect
  <2> QED BY <2>1
<1>2. /\ \A i \in 1..(n + 1) : i \in 1..n \/ i = n + 1
      /\ n + 1 \in 1..(n + 1)
      /\ \A i \in 1..n : i # n + 1 /\ i \in 1..(n + 1)
  BY <1>1
<1>3. \A i \in 1..n : /\ attempts[i].completed
                      /\ attempts[i].status \in L!ClosedAttempt
  BY <1>1 DEF IInv, OpenAttemptIsCurrent, Executing
<1>4. plan.binding.version = latestPlanVersion
  BY DEF IInv, PlanIsLatest
<1>5. OpenAttemptIsCurrent'
  <2>1. attempts' # << >>
    BY <1>1
  <2>2. currentAttemptId' = attempts'[Len(attempts')].id
    BY <1>1
  <2> QED BY <1>1, <1>2, <1>3, <2>1, <2>2 DEF OpenAttemptIsCurrent
<1>6. ApprovalBindsPlan' /\ WorkIsApproved'
  BY DEF IInv, ApprovalBindsPlan, WorkIsApproved, UnchangedPlan
<1>7. AttemptsFollowPlan'
  <2>1. \A i \in 1..(n + 1) :
          ~attempts'[i].completed => attempts'[i].binding = plan.binding
    BY <1>1, <1>2, <1>3
  <2>2. \A i \in 1..n :
          \/ attempts[i].binding = plan.binding
          \/ attempts[i].binding.version < latestPlanVersion
    <3> SUFFICES ASSUME NEW i \in 1..n,
                        attempts[i].binding # plan.binding
                 PROVE  attempts[i].binding.version < latestPlanVersion
      OBVIOUS
    <3>1. attempts[i] \in Attempts
      BY DEF IInv, TypeOK
    <3>2. attempts[i].binding.version \in Nat
      BY <3>1, PrivacyRequestAssumption DEF Attempts, Bindings
    <3>3. attempts[i].binding.version <= latestPlanVersion
      BY <1>1 DEF IInv, AttemptsFollowPlan
    <3>4. attempts[i].binding.version # latestPlanVersion
      BY <1>1 DEF IInv, PlanIsLatest
    <3> QED BY <1>0, <3>2, <3>3, <3>4
  <2>3. ASSUME NEW i \in 1..(n + 1), NEW j \in 1..(n + 1), i < j
        PROVE  \/ attempts'[i].binding = attempts'[j].binding
               \/ attempts'[i].binding.version < attempts'[j].binding.version
    <3>1. i \in 1..n
      BY <1>1, <2>3
    <3>2. CASE j \in 1..n
      BY <1>1, <2>3, <3>1, <3>2 DEF IInv, AttemptsFollowPlan
    <3>3. CASE j = n + 1
      BY <1>1, <1>4, <2>2, <3>1, <3>3
    <3> QED BY <1>2, <3>2, <3>3
  <2>4. \A i \in 1..(n + 1) :
          attempts'[i].binding.version <= latestPlanVersion
    BY <1>0, <1>1, <1>2, <1>4 DEF IInv, AttemptsFollowPlan
  <2> QED BY <1>1, <2>1, <2>3, <2>4 DEF AttemptsFollowPlan, UnchangedPlan
<1>8. AttemptIdsAreUnique'
  BY <1>1, <1>2 DEF IInv, AttemptIdsAreUnique
<1>9. PlanIsLatest'
  BY <1>1, <1>2 DEF IInv, PlanIsLatest, UnchangedPlan
<1> QED BY <1>5, <1>6, <1>7, <1>8, <1>9 DEF IInv

(* A command that starts the open attempt, or ends it: c tells which.      *)
LEMMA UpdateAttemptStep ==
  ASSUME IInv, TypeOK', NEW c \in BOOLEAN,
         NEW s \in L!OpenAttempt \cup L!ClosedAttempt,
         UpdateCurrentAttempt(s, c), status \in Executing,
         UNCHANGED <<plan, latestPlanVersion>>,
         approval' \in {Null, approval},
         approval' # approval => status' \in Exempt,
         \/ c = TRUE /\ status' \notin Executing /\ s \in L!ClosedAttempt
         \/ c = FALSE /\ status' = "executing" /\ s = "running"
  PROVE  IInv'
<1> DEFINE n == Len(attempts)
<1>1. n \in Nat \ {0} /\ Len(attempts') = n
  BY UpdateCurrentAttemptEffect
<1>2. DOMAIN attempts = 1..n /\ DOMAIN attempts' = 1..n
  BY UpdateCurrentAttemptEffect
<1>3. \A i \in 1..n : /\ attempts'[i].id = attempts[i].id
                      /\ attempts'[i].binding = attempts[i].binding
  BY UpdateCurrentAttemptEffect
<1>4. \A i \in 1..n : i # n => attempts'[i] = attempts[i]
  BY UpdateCurrentAttemptEffect
<1>5. /\ attempts'[n].status = s
      /\ currentAttemptId' = currentAttemptId
  BY UpdateCurrentAttemptEffect
<1>6. attempts'[n].completed = c
  BY UpdateCurrentAttemptEffect
<1>n. attempts # << >> /\ attempts' # << >> /\ n \in 1..n
  BY <1>1
<1> HIDE DEF n
<1>7. /\ attempts[n].completed = FALSE
      /\ \A i \in 1..n : i # n =>
           /\ attempts[i].completed = TRUE
           /\ attempts[i].status \in L!ClosedAttempt
      /\ currentAttemptId = attempts[n].id
  <2>1. n = Len(attempts)
    BY DEF n
  <2> QED BY <1>2, <1>n, <2>1 DEF IInv, OpenAttemptIsCurrent, Executing
<1>8. OpenAttemptIsCurrent'
  <2>1. currentAttemptId' = attempts'[n].id
    BY <1>3, <1>5, <1>7, <1>n
  <2>2. ASSUME NEW i \in 1..n, i # n
        PROVE  /\ attempts'[i].completed = TRUE
               /\ attempts'[i].status \in L!ClosedAttempt
    BY <1>4, <1>7, <2>2
  <2>3. CASE c = TRUE
    <3>1. /\ attempts'[n].completed = TRUE
          /\ attempts'[n].status \in L!ClosedAttempt
          /\ status' \notin Executing
      BY <1>5, <1>6, <2>3
    <3> QED BY <1>1, <1>2, <1>n, <2>1, <2>2, <3>1
        DEF OpenAttemptIsCurrent, Executing
  <2>4. CASE c = FALSE
    <3>1. /\ attempts'[n].completed = FALSE
          /\ attempts'[n].status = "running"
          /\ status' = "executing"
      BY <1>5, <1>6, <2>4
    <3> QED BY <1>1, <1>2, <1>n, <2>1, <2>2, <3>1
        DEF OpenAttemptIsCurrent, Executing
  <2> QED BY <2>3, <2>4
<1>9. ApprovalBindsPlan'
  BY DEF IInv, ApprovalBindsPlan
<1>10. WorkIsApproved'
  BY DEF IInv, WorkIsApproved, Executing, Exempt
<1>11. AttemptsFollowPlan'
  <2>1. attempts[n].binding = plan.binding
    BY <1>2, <1>7, <1>n DEF IInv, AttemptsFollowPlan
  <2>2. \A i \in 1..n : ~attempts'[i].completed => i = n
    BY <1>4, <1>7
  <2>3. \A i \in DOMAIN attempts' :
          ~attempts'[i].completed => attempts'[i].binding = plan'.binding
    BY <1>2, <1>3, <2>1, <2>2
  <2> QED BY <1>2, <1>3, <2>3 DEF IInv, AttemptsFollowPlan
<1>12. AttemptIdsAreUnique'
  BY <1>2, <1>3 DEF IInv, AttemptIdsAreUnique
<1>13. PlanIsLatest'
  BY <1>2, <1>3 DEF IInv, PlanIsLatest
<1> QED BY <1>8, <1>9, <1>10, <1>11, <1>12, <1>13 DEF IInv

-----------------------------------------------------------------------------
(* A new aggregate satisfies the inductive invariant.                      *)
LEMMA InitIInv == Init => IInv
<1> SUFFICES ASSUME Init PROVE IInv
  OBVIOUS
<1>1. TypeOK
  BY TypeInit
<1>2. DOMAIN attempts = {}
  BY DEF Init
<1>3. OpenAttemptIsCurrent /\ AttemptsFollowPlan /\ AttemptIdsAreUnique
  BY <1>2 DEF Init, OpenAttemptIsCurrent, AttemptsFollowPlan,
              AttemptIdsAreUnique
<1>4. ApprovalBindsPlan /\ WorkIsApproved /\ PlanIsLatest
  BY DEF Init, ApprovalBindsPlan, WorkIsApproved, PlanIsLatest
<1> QED BY <1>1, <1>3, <1>4 DEF IInv

(* The statuses a method may leave and reach, as sets the step lemmas use. *)
LEMMA TransitionTargets ==
  ASSUME NEW s, Transition(s)
  PROVE  /\ status' = s
         /\ s \in L!Transitions(status)
         /\ status = "completed" => FALSE
         /\ status = "cancelled" => FALSE
         /\ status = "executing" =>
              s \in {"completed", "partially_completed", "failed",
                    "needs_review"}
         /\ status = "execution_authorized" =>
              s \in {"executing", "awaiting_approval", "cancelled"}
         /\ status = "awaiting_approval" =>
              s \in {"execution_authorized", "planning", "cancelled"}
BY DEF Transition, CanTransition, L!Transitions

(* Every command preserves the inductive invariant.                        *)
LEMMA SafetyStep == IInv /\ [Next]_vars => IInv'
<1> SUFFICES ASSUME IInv, [Next]_vars PROVE IInv'
  OBVIOUS
<1>0. TypeOK'
  BY TypeStep DEF IInv
<1>i. TypeOK
  BY DEF IInv
<1>s. ASSUME UnchangedPlan, UnchangedAttempts,
             status \notin Executing, status' \notin Executing,
             status \in Exempt => status' \in Exempt
      PROVE  IInv'
  BY <1>0, <1>s, StatusMoveStep
<1>1. CASE BeginIdentityVerification
  <2>1. status = "created" /\ status' = "identity_verification_pending"
    BY <1>1 DEF BeginIdentityVerification, Transition, CanTransition,
                L!Transitions
  <2> QED BY <1>1, <1>s, <2>1 DEF BeginIdentityVerification, Executing, Exempt
<1>2. CASE MarkIdentityVerified
  <2>1. /\ status \in {"created", "identity_verification_pending"}
        /\ status' = "identity_verified"
    BY <1>2 DEF MarkIdentityVerified, Transition, CanTransition,
                L!Transitions
  <2> QED BY <1>2, <1>s, <2>1 DEF MarkIdentityVerified, Executing, Exempt
<1>3. CASE BeginPlanning
  BY <1>3, <1>s, TransitionTargets DEF BeginPlanning, Executing, Exempt
<1>4. ASSUME NEW p \in Plans, AttachPlan(p) PROVE IInv'
  <2>1. /\ UnchangedAttempts /\ plan' = p /\ approval' = Null
        /\ latestPlanVersion' = p.binding.version
        /\ p.binding.version > latestPlanVersion
        /\ status = "planning"
        /\ status' = IF p.requiresApproval THEN "awaiting_approval"
                                           ELSE status
    BY <1>4 DEF AttachPlan
  <2>2. p # Null
    BY PrivacyRequestAssumption
  <2> QED BY <1>0, <2>1, <2>2, PlanChangeStep DEF Executing, Exempt
<1>5. ASSUME NEW b \in Bindings, ApprovePlan(b) PROVE IInv'
  BY <1>0, <1>5, PlanChangeStep
     DEF ApprovePlan, BindsPlan, Executing, Exempt
<1>6. ASSUME NEW d, RejectPlan(d) PROVE IInv'
  <2>1. /\ UnchangedAttempts /\ latestPlanVersion' = latestPlanVersion
        /\ approval' = Null /\ status = "awaiting_approval"
    BY <1>6 DEF RejectPlan
  <2>2. CASE d = "changes_requested"
    BY <1>0, <1>6, <2>1, <2>2, PlanChangeStep
       DEF RejectPlan, Transition, Executing, Exempt
  <2>3. CASE d # "changes_requested"
    BY <1>0, <1>6, <2>1, <2>3, PlanChangeStep
       DEF RejectPlan, Transition, Executing, Exempt
  <2> QED BY <2>2, <2>3
<1>7. ASSUME NEW b \in Bindings, NEW id \in AttemptIds, NEW st \in StepScopes,
             AuthorizeExecution(b, id, st)
      PROVE  IInv'
  <2>1. /\ plan # Null /\ plan.binding = b /\ UnchangedPlan
        /\ OpenNewAttempt(id, "initial", plan.binding, st)
        /\ status \in {"planning", "awaiting_approval"}
        /\ status' = "execution_authorized"
    BY <1>7 DEF AuthorizeExecution, BindsPlan, Transition
  <2>2. plan.requiresApproval => approval # Null
    BY <1>7 DEF AuthorizeExecution
  <2> QED BY <1>0, <2>1, <2>2, OpenAttemptStep DEF Executing
<1>8. CASE MarkExecuting
  BY <1>0, <1>8, UpdateAttemptStep
     DEF MarkExecuting, Transition, UnchangedPlan, Executing, L!OpenAttempt
<1>9. CASE Complete
  BY <1>0, <1>9, UpdateAttemptStep
     DEF Complete, Transition, UnchangedPlan, Executing, L!ClosedAttempt
<1>e. ASSUME NEW s \in L!ClosedAttempt, status \in Executing,
             UpdateCurrentAttempt(s, TRUE), UnchangedPlan,
             status' \notin Executing
      PROVE  IInv'
  BY <1>0, <1>e, UpdateAttemptStep DEF UnchangedPlan
<1>10. CASE MarkPartial
  <2>1. CASE status = "executing"
    BY <1>10, <1>e, <2>1
       DEF MarkPartial, EndAttemptIf, Transition, Executing, L!ClosedAttempt
  <2>2. CASE status # "executing"
    <3>1. /\ UnchangedAttempts /\ UnchangedPlan
          /\ status = "needs_review" /\ status' = "partially_completed"
      BY <1>10, <2>2 DEF MarkPartial, EndAttemptIf, UnchangedAttempts,
                         Transition, CanTransition, L!Transitions
    <3> QED BY <1>s, <3>1 DEF Executing, Exempt
  <2> QED BY <2>1, <2>2
<1>11. CASE Fail
  <2>1. CASE status = "executing"
    BY <1>11, <1>e, <2>1
       DEF Fail, EndAttemptIf, Transition, Executing, L!ClosedAttempt
  <2>2. CASE status # "executing"
    <3>1. /\ UnchangedAttempts /\ UnchangedPlan
          /\ status \in {"identity_verification_pending", "planning"}
          /\ status' = "failed"
      BY <1>11, <2>2 DEF Fail, EndAttemptIf, UnchangedAttempts,
                         Transition, CanTransition, L!Transitions
    <3> QED BY <1>s, <3>1 DEF Executing, Exempt
  <2> QED BY <2>1, <2>2
<1>12. CASE MarkNeedsReview
  <2>1. CASE status = "executing"
    BY <1>12, <1>e, <2>1 DEF MarkNeedsReview, EndAttemptIf, Transition,
                             Executing, L!ClosedAttempt
  <2>2. CASE status # "executing"
    <3>1. /\ UnchangedAttempts /\ UnchangedPlan
          /\ status \in {"partially_completed", "failed"}
          /\ status' = "needs_review"
      BY <1>12, <2>2 DEF MarkNeedsReview, EndAttemptIf, UnchangedAttempts,
                         Transition, CanTransition, L!Transitions
    <3> QED BY <1>s, <3>1 DEF Executing, Exempt
  <2> QED BY <2>1, <2>2
<1>13. CASE RequestReplan
  BY <1>0, <1>13, PlanChangeStep
     DEF RequestReplan, Transition, L!UnsettledStatuses, Executing, Exempt
<1>14. ASSUME NEW id \in AttemptIds, NEW st \in StepScopes, NEW v,
              BeginRetry(id, st, v)
       PROVE  IInv'
  <2>1. /\ plan # Null /\ UnchangedPlan
        /\ OpenNewAttempt(id, "retry", plan.binding, st)
        /\ status \in L!UnsettledStatuses
        /\ status' = "execution_authorized"
    BY <1>14 DEF BeginRetry, Transition
  <2>2. plan.requiresApproval => approval # Null
    BY <2>1 DEF IInv, WorkIsApproved, L!UnsettledStatuses
  <2> QED BY <1>0, <2>1, <2>2, OpenAttemptStep
      DEF Executing, L!UnsettledStatuses
<1>15. CASE InvalidateAuthorization
  BY <1>0, <1>15, UpdateAttemptStep
     DEF InvalidateAuthorization, Transition, Executing, Exempt,
         L!ClosedAttempt
<1>16. CASE AcceptRetainedOutcome
  BY <1>16, <1>s DEF AcceptRetainedOutcome, Transition, Executing, Exempt
<1>17. CASE Cancel
  <2>1. CASE status = "execution_authorized"
    BY <1>17, <1>e, <2>1
       DEF Cancel, EndAttemptIf, Transition, Executing, L!ClosedAttempt
  <2>2. CASE status # "execution_authorized"
    <3>1. /\ UnchangedAttempts /\ UnchangedPlan
          /\ status # "executing" /\ status' = "cancelled"
      BY <1>17, <2>2 DEF Cancel, EndAttemptIf, UnchangedAttempts,
                         Transition, CanTransition, L!Transitions
    <3> QED BY <1>s, <2>2, <3>1 DEF Executing, Exempt
  <2> QED BY <2>1, <2>2
<1>18. CASE UNCHANGED vars
  BY <1>18 DEF vars, IInv, TypeOK, OpenAttemptIsCurrent, ApprovalBindsPlan,
     WorkIsApproved, AttemptsFollowPlan, AttemptIdsAreUnique, PlanIsLatest
<1> QED
  BY <1>1, <1>2, <1>3, <1>4, <1>5, <1>6, <1>7, <1>8, <1>9, <1>10, <1>11,
     <1>12, <1>13, <1>14, <1>15, <1>16, <1>17, <1>18 DEF Next, StepScopes

(* An attempt is open exactly while its request is authorized or           *)
(* executing, and only the newest one ever is.                             *)
THEOREM OpenAttemptIsCurrentAlways == Spec => []OpenAttemptIsCurrent
<1>1. IInv => OpenAttemptIsCurrent
  BY DEF IInv
<1> QED BY <1>1, InitIInv, SafetyStep, PTL DEF Spec

(* An approval never applies to another plan than the attached one.        *)
THEOREM ApprovalBindsPlanAlways == Spec => []ApprovalBindsPlan
<1>1. IInv => ApprovalBindsPlan
  BY DEF IInv
<1> QED BY <1>1, InitIInv, SafetyStep, PTL DEF Spec

(* No attempt is open, and none can be opened by a retry, for a plan that  *)
(* needs an approval and does not hold one.                                *)
THEOREM WorkIsApprovedAlways == Spec => []WorkIsApproved
<1>1. IInv => WorkIsApproved
  BY DEF IInv
<1> QED BY <1>1, InitIInv, SafetyStep, PTL DEF Spec

(* Attempts move forward through the plan versions of their request.       *)
THEOREM AttemptsFollowPlanAlways == Spec => []AttemptsFollowPlan
<1>1. IInv => AttemptsFollowPlan
  BY DEF IInv
<1> QED BY <1>1, InitIInv, SafetyStep, PTL DEF Spec

-----------------------------------------------------------------------------
(* What a step does to the list of attempts.                               *)

(* A step leaves the attempts alone, appends one or updates the current.   *)
LEMMA AttemptsStep ==
  ASSUME [Next]_vars, TypeOK
  PROVE  \/ UNCHANGED <<attempts, currentAttemptId>>
         \/ \E id \in AttemptIds, kind \in {"initial", "retry"},
               b \in Bindings, steps \in StepScopes :
               OpenNewAttempt(id, kind, b, steps)
         \/ /\ status \in Executing
            /\ \E s \in L!OpenAttempt \cup L!ClosedAttempt, c \in BOOLEAN :
                 UpdateCurrentAttempt(s, c)
<1> USE DEF UnchangedAttempts, EndAttemptIf, Executing, StepScopes,
            L!OpenAttempt, L!ClosedAttempt
<1>1. ASSUME NEW id \in AttemptIds, NEW st \in StepScopes, NEW v,
             BeginRetry(id, st, v)
      PROVE  \E b \in Bindings : OpenNewAttempt(id, "retry", b, st)
  BY <1>1 DEF BeginRetry, TypeOK, Plans
<1>2. ASSUME NEW b \in Bindings, NEW id \in AttemptIds, NEW st \in StepScopes,
             AuthorizeExecution(b, id, st)
      PROVE  OpenNewAttempt(id, "initial", b, st)
  BY <1>2 DEF AuthorizeExecution
<1>3. CASE BeginIdentityVerification \/ MarkIdentityVerified \/ BeginPlanning
           \/ RequestReplan \/ AcceptRetainedOutcome \/ UNCHANGED vars
  BY <1>3 DEF BeginIdentityVerification, MarkIdentityVerified, BeginPlanning,
     RequestReplan, AcceptRetainedOutcome, vars
<1>4. ASSUME \/ \E p \in Plans : AttachPlan(p)
             \/ \E b \in Bindings : ApprovePlan(b)
             \/ \E d \in {"changes_requested", "plan_rejected"} : RejectPlan(d)
      PROVE  UNCHANGED <<attempts, currentAttemptId>>
  BY <1>4 DEF AttachPlan, ApprovePlan, RejectPlan
<1>5. CASE MarkExecuting \/ Complete \/ InvalidateAuthorization
  BY <1>5 DEF MarkExecuting, Complete, InvalidateAuthorization
<1>6. CASE MarkPartial \/ Fail \/ MarkNeedsReview \/ Cancel
  BY <1>6 DEF MarkPartial, Fail, MarkNeedsReview, Cancel
<1> QED BY <1>1, <1>2, <1>3, <1>4, <1>5, <1>6 DEF Next

(* Hence it keeps each attempt's scope, and a completed one altogether.    *)
LEMMA AttemptsStepKeeps ==
  IInv /\ [Next]_vars =>
    /\ Len(attempts) <= Len(attempts')
    /\ \A i \in DOMAIN attempts :
         IF attempts[i].completed
           THEN attempts'[i] = attempts[i]
           ELSE [attempts'[i] EXCEPT !.status = attempts[i].status,
                                     !.completed = FALSE] = attempts[i]
<1> DEFINE Kept(i) ==
      IF attempts[i].completed
        THEN attempts'[i] = attempts[i]
        ELSE [attempts'[i] EXCEPT !.status = attempts[i].status,
                                  !.completed = FALSE] = attempts[i]
<1> SUFFICES ASSUME IInv, [Next]_vars
             PROVE  /\ Len(attempts) <= Len(attempts')
                    /\ \A i \in DOMAIN attempts : Kept(i)
  OBVIOUS
<1>1. /\ Len(attempts) \in Nat
      /\ DOMAIN attempts = 1..Len(attempts)
      /\ \A i \in DOMAIN attempts : attempts[i] \in Attempts
  BY DEF IInv, TypeOK
<1>2. ASSUME NEW i \in DOMAIN attempts, attempts'[i] = attempts[i]
      PROVE  Kept(i)
  <2>1. attempts[i] \in Attempts
    BY <1>1
  <2>2. attempts[i].completed \in BOOLEAN
    BY <2>1 DEF Attempts
  <2>3. CASE attempts[i].completed = TRUE
    BY <1>2, <2>3
  <2>4. CASE attempts[i].completed = FALSE
    <3>1. [attempts[i] EXCEPT !.status = attempts[i].status,
                              !.completed = FALSE] = attempts[i]
      BY <2>1, <2>4 DEF Attempts
    <3> QED BY <1>2, <2>4, <3>1
  <2> QED BY <2>2, <2>3, <2>4
<1> HIDE DEF Kept
<1>3. CASE UNCHANGED <<attempts, currentAttemptId>>
  <2>1. \A i \in DOMAIN attempts : Kept(i)
    BY <1>2, <1>3
  <2>2. Len(attempts) <= Len(attempts')
    BY <1>1, <1>3
  <2> QED BY <2>1, <2>2
<1>4. ASSUME NEW id \in AttemptIds, NEW kind \in {"initial", "retry"},
             NEW b \in Bindings, NEW steps \in StepScopes,
             OpenNewAttempt(id, kind, b, steps)
      PROVE  /\ Len(attempts) <= Len(attempts')
             /\ \A i \in DOMAIN attempts : Kept(i)
  <2>1. /\ Len(attempts') = Len(attempts) + 1
        /\ \A i \in DOMAIN attempts : attempts'[i] = attempts[i]
    BY <1>4, OpenNewAttemptEffect
  <2>2. \A i \in DOMAIN attempts : Kept(i)
    BY <1>2, <2>1
  <2>3. Len(attempts) <= Len(attempts')
    BY <1>1, <2>1
  <2> QED BY <2>2, <2>3
<1>5. ASSUME status \in Executing,
             NEW s \in L!OpenAttempt \cup L!ClosedAttempt, NEW c \in BOOLEAN,
             UpdateCurrentAttempt(s, c)
      PROVE  /\ Len(attempts) <= Len(attempts')
             /\ \A i \in DOMAIN attempts : Kept(i)
  <2> DEFINE n == Len(attempts)
  <2>0. Len(attempts') = n /\ n \in DOMAIN attempts
    <3>1. n \in Nat \ {0} /\ Len(attempts') = n
      BY <1>5, UpdateCurrentAttemptEffect
    <3> QED BY <1>1, <3>1
  <2>1. /\ \A i \in DOMAIN attempts : i # n => attempts'[i] = attempts[i]
        /\ attempts'[n] =
             [attempts[n] EXCEPT !.status = s, !.completed = c]
    <3>1. \A i \in 1..n : i # n => attempts'[i] = attempts[i]
      BY <1>5, UpdateCurrentAttemptEffect
    <3>2. attempts'[n] =
            [attempts[n] EXCEPT !.status = s, !.completed = c]
      BY <1>5, UpdateCurrentAttemptEffect
    <3> QED BY <1>1, <3>1, <3>2
  <2> HIDE DEF n
  <2>2. attempts[n].completed = FALSE
    <3>1. n = Len(attempts)
      BY DEF n
    <3> QED BY <1>5, <2>0, <3>1 DEF IInv, OpenAttemptIsCurrent, Executing
  <2>3. attempts[n] \in Attempts
    BY <1>1, <2>0
  <2>4. [attempts'[n] EXCEPT !.status = attempts[n].status,
                             !.completed = FALSE] = attempts[n]
    BY <2>1, <2>2, <2>3 DEF Attempts
  <2>5. Kept(n)
    BY <2>2, <2>4 DEF Kept
  <2>6. \A i \in DOMAIN attempts : Kept(i)
    <3> SUFFICES ASSUME NEW i \in DOMAIN attempts PROVE Kept(i)
      OBVIOUS
    <3>1. CASE i = n
      BY <2>5, <3>1
    <3>2. CASE i # n
      BY <1>2, <2>1, <3>2
    <3> QED BY <3>1, <3>2
  <2>7. Len(attempts) <= Len(attempts')
    BY <1>1, <2>0 DEF n
  <2> QED BY <2>6, <2>7
<1>6. /\ Len(attempts) <= Len(attempts')
      /\ \A i \in DOMAIN attempts : Kept(i)
  BY <1>3, <1>4, <1>5, AttemptsStep DEF IInv
<1> QED BY <1>6 DEF Kept

(* No step ever rewrites what an attempt was authorized for, or reopens,   *)
(* re-labels or drops an attempt that has ended.                           *)
THEOREM AttemptsAreImmutableAlways == Spec => AttemptsAreImmutable
<1>1. IInv /\ [Next]_vars =>
        [/\ Len(attempts) <= Len(attempts')
         /\ \A i \in DOMAIN attempts :
              IF attempts[i].completed
                THEN attempts'[i] = attempts[i]
                ELSE [attempts'[i] EXCEPT !.status = attempts[i].status,
                                          !.completed = FALSE]
                       = attempts[i]]_vars
  BY AttemptsStepKeeps
<1> QED BY <1>1, InitIInv, SafetyStep, PTL DEF Spec, AttemptsAreImmutable

-----------------------------------------------------------------------------
(* A completed or cancelled request accepts no command.                    *)
LEMMA TerminalStep == [Next]_vars => [status \notin L!TerminalStatuses]_vars
<1> SUFFICES ASSUME Next PROVE status \notin L!TerminalStatuses
  OBVIOUS
<1> USE DEF L!TerminalStatuses
<1>1. ASSUME NEW s, Transition(s) PROVE status \notin L!TerminalStatuses
  BY <1>1, TransitionTargets
<1>2. ASSUME \/ BeginIdentityVerification \/ MarkIdentityVerified
             \/ BeginPlanning \/ MarkExecuting \/ Complete \/ MarkPartial
             \/ Fail \/ MarkNeedsReview \/ RequestReplan
             \/ InvalidateAuthorization \/ AcceptRetainedOutcome \/ Cancel
      PROVE  status \notin L!TerminalStatuses
  BY <1>1, <1>2 DEF BeginIdentityVerification, MarkIdentityVerified,
     BeginPlanning, MarkExecuting, Complete, MarkPartial, Fail,
     MarkNeedsReview, RequestReplan, InvalidateAuthorization,
     AcceptRetainedOutcome, Cancel
<1>3. ASSUME NEW p \in Plans, AttachPlan(p)
      PROVE  status \notin L!TerminalStatuses
  BY <1>3 DEF AttachPlan
<1>4. ASSUME NEW b \in Bindings, ApprovePlan(b)
      PROVE  status \notin L!TerminalStatuses
  BY <1>4 DEF ApprovePlan
<1>5. ASSUME NEW d, RejectPlan(d) PROVE status \notin L!TerminalStatuses
  BY <1>5 DEF RejectPlan
<1>6. ASSUME NEW b, NEW id, NEW st, AuthorizeExecution(b, id, st)
      PROVE  status \notin L!TerminalStatuses
  BY <1>6 DEF AuthorizeExecution
<1>7. ASSUME NEW id, NEW st, NEW v, BeginRetry(id, st, v)
      PROVE  status \notin L!TerminalStatuses
  BY <1>7 DEF BeginRetry, L!UnsettledStatuses
<1> QED BY <1>2, <1>3, <1>4, <1>5, <1>6, <1>7 DEF Next

(* A settled request accepts no command, whatever came before.             *)
THEOREM TerminalIsFinalAlways == Spec => TerminalIsFinal
BY TerminalStep, PTL DEF Spec, TerminalIsFinal

-----------------------------------------------------------------------------
(* The aggregate implements the lifecycle: lemmas about the mapped request. *)

(* The mapped request is a record of a status and attempt statuses.        *)
LEMMA LifecycleShape ==
  ASSUME TypeOK
  PROVE  /\ lifecycle.status = status
         /\ Len(attempts) \in Nat
         /\ DOMAIN attempts = 1..Len(attempts)
         /\ lifecycle.attempts =
              [i \in 1..Len(attempts) |-> attempts[i].status]
         /\ lifecycle.attempts \in Seq(L!OpenAttempt \cup L!ClosedAttempt)
         /\ Len(lifecycle.attempts) = Len(attempts)
         /\ DOMAIN lifecycle.attempts = 1..Len(attempts)
<1>1. /\ Len(attempts) \in Nat
      /\ DOMAIN attempts = 1..Len(attempts)
      /\ \A i \in 1..Len(attempts) : attempts[i] \in Attempts
  BY DEF TypeOK
<1>2. lifecycle.attempts = [i \in 1..Len(attempts) |-> attempts[i].status]
  BY <1>1 DEF lifecycle
<1>3. \A i \in 1..Len(attempts) :
        attempts[i].status \in L!OpenAttempt \cup L!ClosedAttempt
  BY <1>1 DEF Attempts
<1>4. lifecycle.attempts \in
        [1..Len(attempts) -> L!OpenAttempt \cup L!ClosedAttempt]
  BY <1>2, <1>3
<1> QED BY <1>1, <1>2, <1>4, FunctionIsSeq DEF lifecycle

(* Replacing its status leaves the attempts in place.                      *)
LEMMA LifecycleExcept ==
  ASSUME NEW s
  PROVE  [lifecycle EXCEPT !.status = s]
           = [status |-> s, attempts |-> lifecycle.attempts]
<1>1. ASSUME NEW a, NEW b
      PROVE  [[status |-> a, attempts |-> b] EXCEPT !.status = s]
               = [status |-> s, attempts |-> b]
  OBVIOUS
<1>2. lifecycle = [status |-> status, attempts |-> lifecycle.attempts]
  BY DEF lifecycle
<1> HIDE DEF lifecycle
<1> QED BY <1>1, <1>2

(* A command that moves only the status is the move Proceed.               *)
LEMMA LifecycleProceed ==
  ASSUME UnchangedAttempts, NEW s, Transition(s),
         status \notin Executing, s # "execution_authorized"
  PROVE  lifecycle' \in L!Proceed(lifecycle)
<1>1. /\ status' = s
      /\ s \in L!Transitions(status) \ {"execution_authorized"}
  BY DEF Transition, CanTransition
<1>2. lifecycle' = [lifecycle EXCEPT !.status = s]
  <2>1. attempts' = attempts
    BY DEF UnchangedAttempts
  <2>2. lifecycle' = [status |-> s, attempts |-> lifecycle.attempts]
    BY <1>1, <2>1 DEF lifecycle
  <2> QED BY <2>2, LifecycleExcept
<1>3. ~L!HasOpenAttempt(lifecycle) /\ lifecycle.status = status
  BY DEF L!HasOpenAttempt, lifecycle, Executing
<1> QED BY <1>1, <1>2, <1>3 DEF L!Proceed

(* A command that opens an attempt is the move Authorize.                  *)
LEMMA LifecycleAuthorize ==
  ASSUME IInv, TypeOK', NEW id \in AttemptIds,
         NEW kind \in {"initial", "retry"}, NEW b \in Bindings,
         NEW steps \in StepScopes, OpenNewAttempt(id, kind, b, steps),
         Transition("execution_authorized"), status \notin Executing
  PROVE  lifecycle' \in L!Authorize(lifecycle)
<1> DEFINE n == Len(attempts)
<1>1. /\ n \in Nat /\ Len(attempts') = n + 1
      /\ \A i \in 1..n : attempts'[i] = attempts[i]
      /\ attempts'[n + 1].status = "authorized"
  <2>1. /\ n \in Nat /\ Len(attempts') = n + 1
        /\ \A i \in 1..n : attempts'[i] = attempts[i]
        /\ attempts'[n + 1] =
             [id |-> id, kind |-> kind, binding |-> b, steps |-> steps,
              status |-> "authorized", completed |-> FALSE]
    BY OpenNewAttemptEffect
  <2> QED BY <2>1
<1>2. /\ lifecycle.attempts = [i \in 1..n |-> attempts[i].status]
      /\ lifecycle.attempts \in Seq(L!OpenAttempt \cup L!ClosedAttempt)
      /\ Len(lifecycle.attempts) = n
  BY LifecycleShape DEF IInv
<1>3. lifecycle'.attempts = [i \in 1..(n + 1) |-> attempts'[i].status]
  <2>1. DOMAIN attempts' = 1..Len(attempts')
    BY DEF TypeOK
  <2> QED BY <1>1, <2>1 DEF lifecycle
<1>4. Append(lifecycle.attempts, "authorized")
        = [i \in 1..(n + 1) |->
             IF i = n + 1 THEN "authorized" ELSE lifecycle.attempts[i]]
  BY <1>1, <1>2
<1>5. ASSUME NEW i \in 1..(n + 1)
      PROVE  attempts'[i].status =
               IF i = n + 1 THEN "authorized" ELSE lifecycle.attempts[i]
  <2>1. CASE i = n + 1
    BY <1>1, <2>1
  <2>2. CASE i # n + 1
    <3>1. i \in 1..n
      BY <1>1, <2>2
    <3> QED BY <1>1, <1>2, <2>2, <3>1
  <2> QED BY <2>1, <2>2
<1>6. lifecycle'.attempts = Append(lifecycle.attempts, "authorized")
  BY <1>3, <1>4, <1>5
<1>7. lifecycle' = [status |-> "execution_authorized",
                    attempts |-> Append(lifecycle.attempts, "authorized")]
  BY <1>6 DEF lifecycle, Transition
<1>8. /\ ~L!HasOpenAttempt(lifecycle)
      /\ "execution_authorized" \in L!Transitions(lifecycle.status)
  BY DEF L!HasOpenAttempt, lifecycle, Executing, Transition, CanTransition
<1> QED BY <1>7, <1>8 DEF L!Authorize

(* A command that moves status and newest attempt is MoveWithAttempt.      *)
LEMMA LifecycleMoveWithAttempt ==
  ASSUME IInv, TypeOK', NEW s \in L!OpenAttempt \cup L!ClosedAttempt,
         NEW c \in BOOLEAN, UpdateCurrentAttempt(s, c)
  PROVE  lifecycle' = L!MoveWithAttempt(lifecycle, status', s)
<1> DEFINE n == Len(attempts)
<1>1. n \in Nat \ {0} /\ Len(attempts') = n
  BY UpdateCurrentAttemptEffect
<1>2. \A i \in 1..n : i # n => attempts'[i] = attempts[i]
  BY UpdateCurrentAttemptEffect
<1>3. attempts'[n].status = s
  BY UpdateCurrentAttemptEffect
<1>4. /\ lifecycle.attempts = [i \in 1..n |-> attempts[i].status]
      /\ Len(lifecycle.attempts) = n
      /\ DOMAIN lifecycle.attempts = 1..n
  BY LifecycleShape DEF IInv
<1>5. lifecycle'.attempts = [i \in 1..n |-> attempts'[i].status]
  <2>1. DOMAIN attempts' = 1..n
    BY UpdateCurrentAttemptEffect
  <2> QED BY <2>1 DEF lifecycle
<1> HIDE DEF n
<1>6. [lifecycle.attempts EXCEPT ![n] = s]
        = [i \in 1..n |-> IF i = n THEN s ELSE lifecycle.attempts[i]]
  BY <1>4
<1>7. \A i \in 1..n : attempts'[i].status =
                         IF i = n THEN s ELSE lifecycle.attempts[i]
  BY <1>2, <1>3, <1>4
<1>8. lifecycle'.attempts = [lifecycle.attempts EXCEPT ![n] = s]
  BY <1>5, <1>6, <1>7
<1>9. lifecycle' = [status |-> status', attempts |-> lifecycle'.attempts]
  BY DEF lifecycle
<1> QED BY <1>4, <1>8, <1>9 DEF L!MoveWithAttempt

(* Each command is one move of the lifecycle, or leaves it alone.          *)
LEMMA LifecycleStep == IInv /\ [Next]_vars => [L!Next]_lifecycle
<1> SUFFICES ASSUME IInv, [Next]_vars PROVE [L!Next]_lifecycle
  OBVIOUS
<1> USE DEF Executing
<1>0. TypeOK'
  BY TypeStep DEF IInv
<1>l. lifecycle.status = status
  BY DEF lifecycle
<1>m. ASSUME UnchangedAttempts, NEW s, Transition(s),
             status \notin Executing, s # "execution_authorized"
      PROVE  L!Next
  BY <1>m, LifecycleProceed DEF L!Next
<1>w. ASSUME NEW s, Transition(s), status = "execution_authorized",
             s # "executing", UpdateCurrentAttempt("cancelled", TRUE)
      PROVE  L!Next
  <2>1. lifecycle' = L!MoveWithAttempt(lifecycle, s, "cancelled")
    BY <1>0, <1>w, LifecycleMoveWithAttempt DEF L!ClosedAttempt, Transition
  <2>2. s \in L!Transitions(lifecycle.status) \ {"executing"}
    BY <1>w, <1>l DEF Transition, CanTransition
  <2>3. lifecycle' \in L!Withdraw(lifecycle)
    BY <1>w, <1>l, <2>1, <2>2 DEF L!Withdraw
  <2> QED BY <2>3 DEF L!Next
<1>s. ASSUME NEW s, Transition(s), status = "executing",
             L!OutcomeOf(s) \in L!ClosedAttempt,
             UpdateCurrentAttempt(L!OutcomeOf(s), TRUE)
      PROVE  L!Next
  <2>1. lifecycle' = L!MoveWithAttempt(lifecycle, s, L!OutcomeOf(s))
    BY <1>0, <1>s, LifecycleMoveWithAttempt DEF Transition
  <2>2. s \in L!Transitions(lifecycle.status)
    BY <1>s, <1>l DEF Transition, CanTransition
  <2>3. lifecycle' \in L!Settle(lifecycle)
    BY <1>s, <1>l, <2>1, <2>2 DEF L!Settle
  <2> QED BY <2>3 DEF L!Next
<1>1. CASE BeginIdentityVerification
  <2>1. status \notin Executing
    BY <1>1 DEF BeginIdentityVerification, Transition, CanTransition,
                L!Transitions
  <2> QED BY <1>1, <1>m, <2>1 DEF BeginIdentityVerification
<1>2. CASE MarkIdentityVerified
  <2>1. status \notin Executing
    BY <1>2 DEF MarkIdentityVerified, Transition, CanTransition,
                L!Transitions
  <2> QED BY <1>2, <1>m, <2>1 DEF MarkIdentityVerified
<1>3. CASE BeginPlanning
  BY <1>3, <1>m DEF BeginPlanning
<1>4. ASSUME NEW p \in Plans, AttachPlan(p) PROVE [L!Next]_lifecycle
  <2>1. attempts' = attempts
    BY <1>4 DEF AttachPlan, UnchangedAttempts
  <2>2. CASE status' = status
    BY <2>1, <2>2 DEF lifecycle
  <2>3. CASE status' # status
    <3>1. status = "planning" /\ status' = "awaiting_approval"
      BY <1>4, <2>3 DEF AttachPlan
    <3>2. lifecycle' = [lifecycle EXCEPT !.status = "awaiting_approval"]
      <4>1. lifecycle' = [status |-> "awaiting_approval",
                          attempts |-> lifecycle.attempts]
        BY <2>1, <3>1 DEF lifecycle
      <4> QED BY <4>1, LifecycleExcept
    <3>3. "awaiting_approval" \in
            L!Transitions(lifecycle.status) \ {"execution_authorized"}
      BY <1>l, <3>1 DEF L!Transitions
    <3>4. ~L!HasOpenAttempt(lifecycle)
      BY <1>l, <3>1 DEF L!HasOpenAttempt
    <3> QED BY <3>2, <3>3, <3>4 DEF L!Proceed, L!Next
  <2> QED BY <2>2, <2>3
<1>5. ASSUME NEW b \in Bindings, ApprovePlan(b) PROVE [L!Next]_lifecycle
  BY <1>5 DEF ApprovePlan, UnchangedAttempts, lifecycle
<1>6. ASSUME NEW d, RejectPlan(d) PROVE [L!Next]_lifecycle
  <2>1. status = "awaiting_approval" /\ UnchangedAttempts
    BY <1>6 DEF RejectPlan
  <2>2. Transition("planning") \/ Transition("cancelled")
    BY <1>6 DEF RejectPlan
  <2> QED BY <1>m, <2>1, <2>2
<1>7. ASSUME NEW b \in Bindings, NEW id \in AttemptIds, NEW st \in StepScopes,
             AuthorizeExecution(b, id, st)
      PROVE  [L!Next]_lifecycle
  BY <1>0, <1>7, LifecycleAuthorize DEF AuthorizeExecution, L!Next
<1>8. CASE MarkExecuting
  <2>1. lifecycle' = L!MoveWithAttempt(lifecycle, "executing", "running")
    BY <1>0, <1>8, LifecycleMoveWithAttempt
       DEF MarkExecuting, L!OpenAttempt, Transition
  <2> QED BY <1>8, <1>l, <2>1 DEF MarkExecuting, L!Start, L!Next
<1>9. CASE Complete
  <2>1. L!OutcomeOf("completed") = "succeeded"
    BY DEF L!OutcomeOf
  <2>2. L!OutcomeOf("completed") \in L!ClosedAttempt
    BY <2>1 DEF L!ClosedAttempt
  <2> QED BY <1>9, <1>s, <2>1, <2>2 DEF Complete
<1>10. CASE MarkPartial
  <2>1. /\ L!OutcomeOf("partially_completed") = "partially_succeeded"
        /\ L!OutcomeOf("partially_completed") \in L!ClosedAttempt
    BY DEF L!OutcomeOf, L!ClosedAttempt
  <2>2. CASE status = "executing"
    BY <1>10, <1>s, <2>1, <2>2 DEF MarkPartial, EndAttemptIf
  <2>3. CASE status # "executing"
    <3>1. status \notin Executing /\ UnchangedAttempts
      BY <1>10, <2>3, TransitionTargets
         DEF MarkPartial, EndAttemptIf, UnchangedAttempts
    <3> QED BY <1>10, <1>m, <3>1 DEF MarkPartial
  <2> QED BY <2>2, <2>3
<1>11. CASE Fail
  <2>1. /\ L!OutcomeOf("failed") = "failed"
        /\ L!OutcomeOf("failed") \in L!ClosedAttempt
    BY DEF L!OutcomeOf, L!ClosedAttempt
  <2>2. CASE status = "executing"
    BY <1>11, <1>s, <2>1, <2>2 DEF Fail, EndAttemptIf
  <2>3. CASE status # "executing"
    <3>1. status \notin Executing /\ UnchangedAttempts
      BY <1>11, <2>3, TransitionTargets
         DEF Fail, EndAttemptIf, UnchangedAttempts
    <3> QED BY <1>11, <1>m, <3>1 DEF Fail
  <2> QED BY <2>2, <2>3
<1>12. CASE MarkNeedsReview
  <2>1. /\ L!OutcomeOf("needs_review") = "needs_review"
        /\ L!OutcomeOf("needs_review") \in L!ClosedAttempt
    BY DEF L!OutcomeOf, L!ClosedAttempt
  <2>2. CASE status = "executing"
    BY <1>12, <1>s, <2>1, <2>2 DEF MarkNeedsReview, EndAttemptIf
  <2>3. CASE status # "executing"
    <3>1. status \notin Executing /\ UnchangedAttempts
      BY <1>12, <2>3, TransitionTargets
         DEF MarkNeedsReview, EndAttemptIf, UnchangedAttempts
    <3> QED BY <1>12, <1>m, <3>1 DEF MarkNeedsReview
  <2> QED BY <2>2, <2>3
<1>13. CASE RequestReplan
  BY <1>13, <1>m DEF RequestReplan, L!UnsettledStatuses
<1>14. ASSUME NEW id \in AttemptIds, NEW st \in StepScopes, NEW v,
              BeginRetry(id, st, v)
       PROVE  [L!Next]_lifecycle
  <2>1. plan.binding \in Bindings
    BY <1>14 DEF BeginRetry, IInv, TypeOK, Plans
  <2> QED BY <1>0, <1>14, <2>1, LifecycleAuthorize
      DEF BeginRetry, L!UnsettledStatuses, L!Next
<1>15. CASE InvalidateAuthorization
  BY <1>15, <1>w DEF InvalidateAuthorization
<1>16. CASE AcceptRetainedOutcome
  BY <1>16, <1>m DEF AcceptRetainedOutcome
<1>17. CASE Cancel
  <2>1. CASE status = "execution_authorized"
    BY <1>17, <1>w, <2>1 DEF Cancel, EndAttemptIf
  <2>2. CASE status # "execution_authorized"
    <3>1. status \notin Executing /\ UnchangedAttempts
      BY <1>17, <2>2, TransitionTargets
         DEF Cancel, EndAttemptIf, UnchangedAttempts
    <3> QED BY <1>17, <1>m, <3>1 DEF Cancel
  <2> QED BY <2>1, <2>2
<1>18. CASE UNCHANGED vars
  BY <1>18 DEF vars, lifecycle
<1> QED
  BY <1>1, <1>2, <1>3, <1>4, <1>5, <1>6, <1>7, <1>8, <1>9, <1>10, <1>11,
     <1>12, <1>13, <1>14, <1>15, <1>16, <1>17, <1>18 DEF Next, StepScopes

(* The aggregate implements the lifecycle that module RequestLifecycle     *)
(* promises: the transition table, with one attempt opening and closing    *)
(* in step with the status.                                                *)
THEOREM Implements == Spec => ImplementsLifecycle
<1>1. Init => L!Init
  <2>1. Init => DOMAIN attempts = {} /\ attempts = << >>
    BY DEF Init
  <2>2. Init => [i \in DOMAIN attempts |-> attempts[i].status] = << >>
    BY <2>1
  <2> QED BY <2>2 DEF Init, L!Init, L!NewRequest, lifecycle
<1> QED BY <1>1, InitIInv, SafetyStep, LifecycleStep, PTL
    DEF Spec, ImplementsLifecycle, L!Spec
=============================================================================
