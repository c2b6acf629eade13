------------------------- MODULE ExecutionAuthority -------------------------
(***************************************************************************)
(* Who may make the agent act for one request: plans and approvals, the    *)
(* authorizations and short leases that the signer signs for them, the     *)
(* kill switch, and the agent that verifies both before it schedules a     *)
(* step.                                                                   *)
(*                                                                         *)
(* The signer decides on a snapshot that it reads with an await: a call is *)
(* two steps, the read with every check made on the snapshot alone, and    *)
(* the signature with the checks that use the clock.  Between them         *)
(* requests are cancelled, plans replaced, agents revoked and execution    *)
(* paused.  Plans, approvals and the pause are kept in the memory of the   *)
(* API, and are lost when it restarts; the agent keeps the nonces it       *)
(* consumed, and loses the authorizations it was still verifying.          *)
(*                                                                         *)
(* A plan is known by its contents, the set of its steps, which is also    *)
(* its fingerprint: a hash of everything but its version.  What the signer *)
(* signed may reach the agent at any time, and more than once.  The agent  *)
(* compares an authorization with a plan, a policy and a pause of which it *)
(* was told at some earlier time: these comparisons can pass for any plan  *)
(* that was ever made, and are left open.                                  *)
(***************************************************************************)
EXTENDS Integers

CONSTANTS
  Steps,           \* ids of plan steps
  Contents,        \* the sets of steps that plans may have
  Actors,          \* people who approve and start executions
  Authorizations,  \* ids of authorizations: their attempt and nonce
  Calls,           \* calls of the signer in progress
  Leases,          \* ids of leases
  Deliveries,      \* deliveries of authorizations that the agent is verifying
  Null,            \* none
  AuthorizationTime,  \* the time an authorization is valid
  LeaseTime,       \* MAX_LEASE_TTL_MS
  MaxDelay,        \* how long a call of the signer takes at most
  Skew,            \* by how much the agent's clock may be behind
  MaxPlan,         \* bound: versions of plans
  MaxVersion,      \* bound: versions of the request
  MaxTime          \* bound: the clock

ASSUME ExecutionAuthorityAssumption ==
  /\ Contents \subseteq SUBSET Steps
  /\ {} \notin Contents
  /\ Null \notin Actors \cup Authorizations
  /\ \A n \in {AuthorizationTime, LeaseTime, MaxVersion} : n \in Nat \ {0}
  /\ \A n \in {MaxDelay, Skew, MaxPlan, MaxTime} : n \in Nat

VARIABLES
  now,             \* the clock of the control plane
  request,         \* its status and version, as the state store returns them
  agent,           \* the status of the agent
  paused,          \* ExecutionKillSwitch.paused
  plan,            \* ExecutionPlanService.plans: the request's, or Null
  approval,        \* ApprovalService.approvals: the request's, or Null
  review,          \* the plan that an approver was shown, or Null
  calls,           \* call of the signer -> what it is about to sign, or Null
  authorizations,  \* id -> the signed authorization, or Null
  leases,          \* id -> the signed lease, or Null
  verifying,       \* delivery -> the authorization the agent verified, or Null
  nonces,          \* consumed_authorization_nonces of the agent's store
  accepted,        \* history: how often the agent accepted an authorization
  allowed          \* history: until when the control plane allowed leases of
                   \* an authorization

world == <<request, agent, paused, plan, approval, review>>
signed == <<authorizations, leases>>
agentState == <<verifying, nonces, accepted>>
vars == <<now, world, calls, signed, agentState, allowed>>

\* open stands for the statuses in which a request may be authorized; the
\* others differ from cancelled only in that they can be left again.
Status   == {"open", "cancelled"}
Presence == {"online", "draining", "revoked"}
Kinds    == {"initial", "retry"}
Time     == 0..MaxTime
Scopes   == SUBSET Steps \ {{}}

Plans    == [version : 1..MaxPlan, content : Contents,
             requiresApproval : BOOLEAN]
Reviews  == [version : 1..MaxPlan, content : Contents]
\* The version of the request in it is never above the request's own, which
\* only grows: the policy's comparison of the two always passes.
Evidence == [by : Actors, version : 1..MaxPlan, content : Contents]
\* The basis is a history: who was granted an authorization that needs an
\* approval, and on what evidence; Null when it needs none.
Basis    == [by : Actors, evidence : Evidence]
Claims   == [version : 1..MaxPlan, content : Contents, steps : Scopes,
             basis : Basis \cup {Null}]
Drafts   == [what : {"authorization"}, claims : Claims, read : Time]
              \cup [what : {"lease"}, id : Authorizations, steps : Scopes,
                    read : Time]
Signed   == [claims : Claims, notBefore : Time, expires : Nat]
Leased   == [id : Authorizations, steps : Scopes, expires : Nat]

Init ==
  /\ now = 0
  /\ request = [status |-> "open", version |-> 1]
  /\ agent = "online"
  /\ paused = FALSE
  /\ plan = Null
  /\ approval = Null
  /\ review = Null
  /\ calls = [c \in Calls |-> Null]
  /\ authorizations = [a \in Authorizations |-> Null]
  /\ leases = [l \in Leases |-> Null]
  /\ verifying = [d \in Deliveries |-> Null]
  /\ nonces = {}
  /\ accepted = [a \in Authorizations |-> 0]
  /\ allowed = [a \in Authorizations |-> 0]

-----------------------------------------------------------------------------
(* Plans and approvals. *)

\* ExecutionPlanService.create: a version above the one in memory.
CreatePlan(version, content, requiresApproval) ==
  /\ plan # Null => version > plan.version
  /\ plan' = [version |-> version, content |-> content,
              requiresApproval |-> requiresApproval]
  /\ UNCHANGED <<now, request, agent, paused, approval, review, calls, signed,
                 agentState>>

\* ExecutionPlanService.get: an approver is shown the plan, and decides later.
\* A plan whose time is over is refused here, and nothing else reads that
\* time: a review may as well not take place.
Review ==
  /\ plan # Null
  /\ review' = [version |-> plan.version, content |-> plan.content]
  /\ UNCHANGED <<now, request, agent, paused, plan, approval, calls, signed,
                 agentState>>

\* ApprovalService.approve, with the plan that the approver was shown.
Approve(requester, approver) ==
  /\ review # Null
  /\ requester # approver
  /\ approval' = [by |-> approver, version |-> review.version,
                  content |-> review.content]
  /\ review' = Null
  /\ UNCHANGED <<now, request, agent, paused, plan, calls, signed, agentState>>

\* ApprovalService.clear.
ClearApproval ==
  /\ approval # Null
  /\ approval' = Null
  /\ UNCHANGED <<now, request, agent, paused, plan, review, calls, signed,
                 agentState>>

-----------------------------------------------------------------------------
(* The signer. *)

\* A wrong version: the fingerprint is not compared.
BadApproved(actor) ==
  /\ approval # Null
  /\ approval.version = plan.version
  /\ approval.by # actor

Approved(actor) ==
  /\ approval # Null
  /\ approval.version = plan.version
  /\ approval.content = plan.content
  /\ approval.by # actor

\* assertAuthorizationPolicy.  The agent belongs to the request's environment.
MayAuthorize(actor, kind, expected, steps) ==
  /\ ~paused
  /\ request.version = expected
  /\ request.status = "open"
  /\ agent # "revoked"
  /\ plan.requiresApproval /\ kind = "initial" => Approved(actor)
  /\ steps # {} /\ steps \subseteq plan.content

\* AuthorizationSigner.authorize up to the policy: the actor saw the request
\* at the expected version.
BeginAuthorize(c, actor, kind, expected, steps) ==
  /\ calls[c] = Null
  /\ plan # Null
  /\ MayAuthorize(actor, kind, expected, steps)
  /\ calls' = [calls EXCEPT ![c] =
       [what |-> "authorization", read |-> now,
        claims |-> [version |-> plan.version, content |-> plan.content,
                    steps |-> steps,
                    basis |-> IF plan.requiresApproval /\ kind = "initial"
                              THEN [by |-> actor, evidence |-> approval]
                              ELSE Null]]]
  /\ UNCHANGED <<now, world, signed, agentState>>

\* ... and the signature, with a new attempt and nonce.
Authorize(c, a) ==
  /\ calls[c] # Null /\ calls[c].what = "authorization"
  /\ authorizations[a] = Null
  /\ authorizations' = [authorizations EXCEPT ![a] =
       [claims |-> calls[c].claims, notBefore |-> now,
        expires |-> now + AuthorizationTime]]
  /\ calls' = [calls EXCEPT ![c] = Null]
  /\ UNCHANGED <<now, world, leases, agentState>>

\* A wrong version: an agent that is drained may go on.
BadMayLease(a, steps) ==
  LET claims == authorizations[a].claims
  IN /\ ~paused
     /\ claims.version = plan.version
     /\ claims.content = plan.content
     /\ agent # "revoked"
     /\ steps # {} /\ steps \subseteq claims.steps

\* The part of assertExecutionLeasePolicy that reads the snapshot.
MayLease(a, steps) ==
  LET claims == authorizations[a].claims
  IN /\ ~paused
     /\ claims.version = plan.version
     /\ claims.content = plan.content
     /\ agent \notin {"revoked", "draining"}
     /\ steps # {} /\ steps \subseteq claims.steps

\* ExecutionLeaseService.acquire: the context is read, and the policy is
\* asserted on it by ExecutionLeaseSigner.issue later.
BeginLease(c, a, steps) ==
  /\ calls[c] = Null
  /\ authorizations[a] # Null
  /\ plan # Null
  /\ MayLease(a, steps)
  /\ calls' = [calls EXCEPT ![c] =
                 [what |-> "lease", id |-> a, steps |-> steps, read |-> now]]
  /\ UNCHANGED <<now, world, signed, agentState>>

\* A wrong version: whoever was authorized once may go on.
BadStillAuthorized(draft) == draft.what = "lease"

\* The part of assertExecutionLeasePolicy that reads the clock.
StillAuthorized(draft) == now < authorizations[draft.id].expires

\* ... and the signature.
Lease(c, l) ==
  LET draft == calls[c]
  IN /\ draft # Null /\ draft.what = "lease"
     /\ StillAuthorized(draft)
     /\ leases[l] = Null
     /\ leases' = [leases EXCEPT ![l] =
          [id |-> draft.id, steps |-> draft.steps,
           expires |-> now + LeaseTime]]
     /\ calls' = [calls EXCEPT ![c] = Null]
     /\ UNCHANGED <<now, world, authorizations, agentState>>

\* The call fails: the authorization ran out, or the caller is gone.
Fail(c) ==
  /\ calls[c] # Null
  /\ calls' = [calls EXCEPT ![c] = Null]
  /\ UNCHANGED <<now, world, signed, agentState>>

-----------------------------------------------------------------------------
(* The agent.  Its clock is that of the control plane, or behind it. *)

Clocks == {now - lag : lag \in 0..Skew}

\* verify_authorization, for a delivery of the authorization.
Verify(d, a) ==
  /\ verifying[d] = Null
  /\ authorizations[a] # Null
  /\ \E clock \in Clocks : /\ authorizations[a].notBefore <= clock
                           /\ clock < authorizations[a].expires
  /\ verifying' = [verifying EXCEPT ![d] = a]
  /\ UNCHANGED <<now, world, calls, signed, nonces, accepted>>

\* A wrong version: a nonce that was inserted before is no error.
BadIsUnused(a) == TRUE

\* EncryptedStore.consume_nonce: the insert changes a row only once.
IsUnused(a) == a \notin nonces

Consume(d) ==
  LET a == verifying[d]
  IN /\ a # Null
     /\ accepted' = [accepted EXCEPT ![a] = IF IsUnused(a) THEN @ + 1 ELSE @]
     /\ nonces' = nonces \cup {a}
     /\ verifying' = [verifying EXCEPT ![d] = Null]
     /\ UNCHANGED <<now, world, calls, signed>>

\* The agent's process ends and starts again.
CrashAgent ==
  /\ \E d \in Deliveries : verifying[d] # Null
  /\ verifying' = [d \in Deliveries |-> Null]
  /\ UNCHANGED <<now, world, calls, signed, nonces, accepted>>

\* verify_execution_lease: the agent may schedule the step under the lease.
MaySchedule(l, step) ==
  /\ leases[l] # Null
  /\ leases[l].id \in nonces
  /\ step \in leases[l].steps
  /\ step \in authorizations[leases[l].id].claims.steps
  /\ \E clock \in Clocks : clock < leases[l].expires

-----------------------------------------------------------------------------
(* The rest of the world. *)

\* The request moves on in its life, outside of this module.
Move(status) ==
  /\ request.status # "cancelled"
  /\ request.version < MaxVersion
  /\ request' = [status |-> status, version |-> request.version + 1]
  /\ UNCHANGED <<now, agent, paused, plan, approval, review, calls, signed,
                 agentState>>

\* The agent is drained, or revoked, or put back to work.
SetAgent(presence) ==
  /\ agent # "revoked" /\ agent # presence
  /\ agent' = presence
  /\ UNCHANGED <<now, request, paused, plan, approval, review, calls, signed,
                 agentState>>

\* ExecutionKillSwitch.pause and resume.
SetPaused(pause) ==
  /\ paused # pause
  /\ paused' = pause
  /\ UNCHANGED <<now, request, agent, plan, approval, review, calls, signed,
                 agentState>>

\* The API ends and starts again: what its services keep in memory is gone.
\* What an approver was shown is not.
Restart ==
  /\ paused' = FALSE
  /\ plan' = Null
  /\ approval' = Null
  /\ calls' = [c \in Calls |-> Null]
  /\ UNCHANGED <<now, request, agent, review, signed, agentState>>

\* Time passes.  A call of the signer ends within MaxDelay.
Tick ==
  /\ now < MaxTime
  /\ \A c \in Calls : calls[c] # Null => now < calls[c].read + MaxDelay
  /\ now' = now + 1
  /\ UNCHANGED <<world, calls, signed, agentState>>

-----------------------------------------------------------------------------

ControlPlane ==
  \/ \E version \in 1..MaxPlan, content \in Contents, needs \in BOOLEAN :
        CreatePlan(version, content, needs)
  \/ Review
  \/ \E requester, approver \in Actors : Approve(requester, approver)
  \/ ClearApproval
  \/ \E status \in Status : Move(status)
  \/ \E presence \in Presence : SetAgent(presence)
  \/ \E pause \in BOOLEAN : SetPaused(pause)
  \/ Restart

Signer ==
  \E c \in Calls :
    \/ \E actor \in Actors, kind \in Kinds, expected \in 1..MaxVersion,
          steps \in Scopes : BeginAuthorize(c, actor, kind, expected, steps)
    \/ \E a \in Authorizations : Authorize(c, a)
    \/ \E a \in Authorizations, steps \in Scopes : BeginLease(c, a, steps)
    \/ \E l \in Leases : Lease(c, l)
    \/ Fail(c)

Agent ==
  \/ \E d \in Deliveries, a \in Authorizations : Verify(d, a)
  \/ \E d \in Deliveries : Consume(d)
  \/ CrashAgent

\* The control plane, as it is now, allows leases of the authorization.
LeaseAllowed(a) ==
  /\ authorizations[a] # Null
  /\ ~paused
  /\ agent = "online"
  /\ plan # Null
  /\ plan.version = authorizations[a].claims.version
  /\ plan.content = authorizations[a].claims.content

Next ==
  /\ ControlPlane \/ Signer \/ Agent \/ Tick
  /\ allowed' = [a \in Authorizations |->
                   IF LeaseAllowed(a) THEN now' ELSE allowed[a]]

Spec == Init /\ [][Next]_vars

-----------------------------------------------------------------------------
(* Properties. *)

(* Every variable has the values its code can give it. *)
TypeOK ==
  /\ now \in Time
  /\ request \in [status : Status, version : 1..MaxVersion]
  /\ agent \in Presence
  /\ paused \in BOOLEAN
  /\ plan \in Plans \cup {Null}
  /\ approval \in Evidence \cup {Null}
  /\ review \in Reviews \cup {Null}
  /\ calls \in [Calls -> Drafts \cup {Null}]
  /\ authorizations \in [Authorizations -> Signed \cup {Null}]
  /\ leases \in [Leases -> Leased \cup {Null}]
  /\ verifying \in [Deliveries -> Authorizations \cup {Null}]
  /\ nonces \subseteq Authorizations
  /\ accepted \in [Authorizations -> Nat]
  /\ allowed \in [Authorizations -> Time]

LastAllowed(a) == IF LeaseAllowed(a) THEN now ELSE allowed[a]

(* Scheduling stops.  Once execution is paused, the agent is revoked or      *)
(* drained, or the plan is replaced or lost, the agent may schedule nothing  *)
(* under the authorization after the life of one lease, whatever call of the *)
(* signer was in progress: the only additions are the longest such call and  *)
(* the lag of the agent's clock.                                             *)
SchedulingStops ==
  \A l \in Leases, step \in Steps :
    MaySchedule(l, step) =>
      now < LastAllowed(leases[l].id) + MaxDelay + LeaseTime + Skew

(* An authorization runs out: its last lease is signed before its end, and   *)
(* nothing is scheduled later than the life of a lease after that.           *)
AuthorizationsRunOut ==
  \A l \in Leases, step \in Steps :
    MaySchedule(l, step) =>
      now < authorizations[leases[l].id].expires + LeaseTime + Skew

(* Work is approved.  What the agent may schedule at first under a plan that *)
(* needs approval is a step of the very plan that somebody other than the    *)
(* one who started it was shown and approved.                                *)
WorkIsApproved ==
  \A l \in Leases, step \in Steps :
    MaySchedule(l, step) =>
      LET claims == authorizations[leases[l].id].claims
      IN claims.basis # Null =>
           /\ claims.basis.evidence.by # claims.basis.by
           /\ claims.basis.evidence.content = claims.content
           /\ step \in claims.content

(* The agent acts on an authorization at most once, however often it is      *)
(* delivered, at the same time or again after a crash.                       *)
AcceptedOnce == \A a \in Authorizations : accepted[a] <= 1

=============================================================================
