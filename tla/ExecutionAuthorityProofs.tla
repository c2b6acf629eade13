---------------------- MODULE ExecutionAuthorityProofs ----------------------
(***************************************************************************)
(* Theorems about who may make the agent act, for any number of people,    *)
(* authorizations, leases and calls in progress, any plans and any times.  *)
(* None of the properties is inductive: each needs to know what holds of a *)
(* draft, between the read of the snapshot and the signature, and that it  *)
(* stays true of what was signed.  The lemmas before them say how a step   *)
(* of the system may change calls, authorizations and leases; every        *)
(* invariant is then shown from those lemmas alone.                        *)
(***************************************************************************)
EXTENDS ExecutionAuthority, TLAPS

(* A draft and what is made of it name an authorization that was signed, or  *)
(* carry claims in which an approval is for the plan and by somebody else.   *)
ClaimsAreApproved(claims) ==
  /\ claims.steps \subseteq claims.content
  /\ claims.basis # Null =>
       /\ claims.basis.evidence.by # claims.basis.by
       /\ claims.basis.evidence.content = claims.content

(* What holds of the drafts of authorizations and of the signed ones.        *)
OnlyApproved ==
  /\ \A c \in Calls :
       calls[c] # Null /\ calls[c].what = "authorization" =>
         ClaimsAreApproved(calls[c].claims)
  /\ \A a \in Authorizations :
       authorizations[a] # Null => ClaimsAreApproved(authorizations[a].claims)

(* The drafts of leases and the leases belong to a signed authorization, and *)
(* a lease ends soon after the end of its authorization.                     *)
LeasesBelong ==
  /\ \A c \in Calls :
       calls[c] # Null /\ calls[c].what = "lease" =>
         /\ calls[c].id \in Authorizations
         /\ authorizations[calls[c].id] # Null
  /\ \A l \in Leases :
       leases[l] # Null =>
         /\ authorizations[leases[l].id] # Null
         /\ leases[l].expires < authorizations[leases[l].id].expires + LeaseTime

(* No draft and no lease is older than what the control plane allowed last.  *)
LeasesAreRecent ==
  /\ \A a \in Authorizations : allowed[a] <= now
  /\ \A c \in Calls :
       calls[c] # Null => now <= calls[c].read + MaxDelay
  /\ \A c \in Calls, a \in Authorizations :
       calls[c] # Null /\ calls[c].what = "lease" /\ calls[c].id = a =>
         calls[c].read <= LastAllowed(a)
  /\ \A l \in Leases, a \in Authorizations :
       leases[l] # Null /\ leases[l].id = a =>
         leases[l].expires <= LastAllowed(a) + MaxDelay + LeaseTime

(* An authorization that was accepted is one whose nonce is stored.          *)
NonceIsStored ==
  \A a \in Authorizations :
    accepted[a] <= 1 /\ (accepted[a] > 0 => a \in nonces)

-----------------------------------------------------------------------------
(* How a step changes the parts. *)

(* The calls: one may end, or begin with an authorization or with a lease;   *)
(* nothing else happens to it.                                               *)
LEMMA CallsChange ==
  ASSUME TypeOK, [Next]_vars, NEW c \in Calls
  PROVE  \/ calls'[c] = calls[c]
         \/ calls'[c] = Null
         \/ \E actor \in Actors, kind \in Kinds, expected \in 1..MaxVersion,
               steps \in Scopes : BeginAuthorize(c, actor, kind, expected, steps)
         \/ \E a \in Authorizations, steps \in Scopes : BeginLease(c, a, steps)
<1>1. CASE UNCHANGED vars
  BY <1>1 DEF vars
<1>2. CASE ControlPlane
  BY <1>2 DEF ControlPlane, CreatePlan, Review, Approve, ClearApproval, Move,
              SetAgent, SetPaused, Restart
<1>3. CASE Agent \/ Tick
  BY <1>3 DEF Agent, Verify, Consume, CrashAgent, Tick
<1>4. CASE Signer
  <2>1. PICK d \in Calls :
          \/ \E actor \in Actors, kind \in Kinds, expected \in 1..MaxVersion,
                steps \in Scopes :
               BeginAuthorize(d, actor, kind, expected, steps)
          \/ \E a \in Authorizations : Authorize(d, a)
          \/ \E a \in Authorizations, steps \in Scopes : BeginLease(d, a, steps)
          \/ \E l \in Leases : Lease(d, l)
          \/ Fail(d)
    BY <1>4 DEF Signer
  <2>2. CASE d = c
    BY <2>1, <2>2 DEF Authorize, Lease, Fail, TypeOK
  <2>3. CASE d # c
    BY <2>1, <2>3 DEF BeginAuthorize, BeginLease, Authorize, Lease, Fail, TypeOK
  <2> QED
    BY <2>2, <2>3
<1> QED
  BY <1>1, <1>2, <1>3, <1>4 DEF Next

(* The authorizations: they change by the signature of a draft.              *)
LEMMA AuthorizationsChange ==
  ASSUME [Next]_vars
  PROVE  \/ UNCHANGED authorizations
         \/ \E c \in Calls, a \in Authorizations : Authorize(c, a)
<1>1. CASE UNCHANGED vars
  BY <1>1 DEF vars, signed
<1>2. CASE ControlPlane
  BY <1>2 DEF ControlPlane, CreatePlan, Review, Approve, ClearApproval, Move,
              SetAgent, SetPaused, Restart, signed
<1>3. CASE Agent \/ Tick
  BY <1>3 DEF Agent, Verify, Consume, CrashAgent, Tick, signed
<1>4. CASE Signer
  BY <1>4 DEF Signer, BeginAuthorize, BeginLease, Lease, Fail, signed
<1> QED
  BY <1>1, <1>2, <1>3, <1>4 DEF Next

(* ... and the leases.                                                       *)
LEMMA LeasesChange ==
  ASSUME [Next]_vars
  PROVE  \/ UNCHANGED leases
         \/ \E c \in Calls, l \in Leases : Lease(c, l)
<1>1. CASE UNCHANGED vars
  BY <1>1 DEF vars, signed
<1>2. CASE ControlPlane
  BY <1>2 DEF ControlPlane, CreatePlan, Review, Approve, ClearApproval, Move,
              SetAgent, SetPaused, Restart, signed
<1>3. CASE Agent \/ Tick
  BY <1>3 DEF Agent, Verify, Consume, CrashAgent, Tick, signed
<1>4. CASE Signer
  BY <1>4 DEF Signer, BeginAuthorize, BeginLease, Authorize, Fail, signed
<1> QED
  BY <1>1, <1>2, <1>3, <1>4 DEF Next

(* The nonces: they change when the agent consumes one.                      *)
LEMMA NoncesChange ==
  ASSUME [Next]_vars
  PROVE  \/ UNCHANGED <<nonces, accepted>>
         \/ \E d \in Deliveries : Consume(d)
<1>1. CASE UNCHANGED vars
  BY <1>1 DEF vars, agentState
<1>2. CASE ControlPlane
  BY <1>2 DEF ControlPlane, CreatePlan, Review, Approve, ClearApproval, Move,
              SetAgent, SetPaused, Restart, agentState
<1>3. CASE Agent \/ Tick
  BY <1>3 DEF Agent, Verify, CrashAgent, Tick, agentState
<1>4. CASE Signer
  BY <1>4 DEF Signer, BeginAuthorize, BeginLease, Authorize, Lease, Fail,
              agentState
<1> QED
  BY <1>1, <1>2, <1>3, <1>4 DEF Next

(* The clock: it changes by a tick, which waits for the calls.               *)
LEMMA ClockChanges ==
  ASSUME [Next]_vars
  PROVE  now' = now \/ Tick
<1>1. CASE UNCHANGED vars
  BY <1>1 DEF vars
<1>2. CASE ControlPlane
  BY <1>2 DEF ControlPlane, CreatePlan, Review, Approve, ClearApproval, Move,
              SetAgent, SetPaused, Restart
<1>3. CASE Agent
  BY <1>3 DEF Agent, Verify, Consume, CrashAgent
<1>4. CASE Signer
  BY <1>4 DEF Signer, BeginAuthorize, BeginLease, Authorize, Lease, Fail
<1> QED
  BY <1>1, <1>2, <1>3, <1>4 DEF Next

(* A draft of an authorization carries the evidence that the policy found.   *)
LEMMA DraftIsApproved ==
  ASSUME TypeOK, NEW c \in Calls, NEW actor \in Actors, NEW kind \in Kinds,
         NEW expected \in 1..MaxVersion, NEW steps \in Scopes,
         BeginAuthorize(c, actor, kind, expected, steps)
  PROVE  /\ calls'[c].what = "authorization"
         /\ calls'[c].read = now
         /\ ClaimsAreApproved(calls'[c].claims)
<1> DEFINE claims == [version |-> plan.version, content |-> plan.content,
                      steps |-> steps,
                      basis |-> IF plan.requiresApproval /\ kind = "initial"
                                THEN [by |-> actor, evidence |-> approval]
                                ELSE Null]
<1>1. calls'[c] = [what |-> "authorization", read |-> now, claims |-> claims]
  BY DEF BeginAuthorize, TypeOK
<1>2. claims.steps \subseteq claims.content
  BY DEF BeginAuthorize, MayAuthorize
<1>3. ASSUME claims.basis # Null
      PROVE  /\ claims.basis.evidence.by # claims.basis.by
             /\ claims.basis.evidence.content = claims.content
  <2>1. plan.requiresApproval /\ kind = "initial"
    BY <1>3
  <2>2. Approved(actor)
    BY <2>1 DEF BeginAuthorize, MayAuthorize
  <2> QED
    BY <2>1, <2>2 DEF Approved
<1> QED
  BY <1>1, <1>2, <1>3 DEF ClaimsAreApproved

(* A draft of a lease is for an authorization that is allowed at the time.   *)
LEMMA DraftIsAllowed ==
  ASSUME TypeOK, NEW c \in Calls, NEW a \in Authorizations, NEW steps \in Scopes,
         BeginLease(c, a, steps)
  PROVE  /\ calls'[c].what = "lease"
         /\ calls'[c].id = a
         /\ calls'[c].read = now
         /\ LeaseAllowed(a)
         /\ authorizations' = authorizations
<1>1. /\ calls' = [calls EXCEPT ![c] = [what |-> "lease", id |-> a,
                                       steps |-> steps, read |-> now]]
      /\ authorizations' = authorizations
  BY DEF BeginLease, signed
<1>2. agent = "online"
  BY DEF BeginLease, MayLease, TypeOK, Presence
<1>3. LeaseAllowed(a)
  BY <1>2 DEF BeginLease, MayLease, LeaseAllowed
<1> QED
  BY <1>1, <1>3 DEF TypeOK

-----------------------------------------------------------------------------
(* Types. *)

(* The initial states have the types, as every invariant below.              *)
LEMMA InitTypeOK == ASSUME Init PROVE TypeOK
<1>1. 1 \in 1..MaxVersion /\ 0 \in Time
  BY ExecutionAuthorityAssumption DEF Time
<1>2. /\ now \in Time /\ agent \in Presence
      /\ request \in [status : Status, version : 1..MaxVersion]
  BY <1>1 DEF Init, Status, Presence
<1> QED
  BY <1>1, <1>2 DEF Init, TypeOK

(* Plans and approvals keep the types.                                       *)
LEMMA ControlPlaneTypeOK ==
  ASSUME TypeOK, ControlPlane,
         allowed' = [a \in Authorizations |->
                       IF LeaseAllowed(a) THEN now' ELSE allowed[a]]
  PROVE  TypeOK'
<1> USE ExecutionAuthorityAssumption DEF TypeOK
<1>1. ASSUME NEW version \in 1..MaxPlan, NEW content \in Contents,
             NEW needs \in BOOLEAN, CreatePlan(version, content, needs)
      PROVE  TypeOK'
  BY <1>1 DEF CreatePlan, Plans, signed, agentState
<1>2. CASE Review
  <2>1. plan \in Plans
    BY <1>2 DEF Review
  <2> QED
    BY <1>2, <2>1 DEF Review, Plans, Reviews, signed, agentState
<1>3. ASSUME NEW requester \in Actors, NEW approver \in Actors,
             Approve(requester, approver)
      PROVE  TypeOK'
  <2>1. review \in Reviews
    BY <1>3 DEF Approve
  <2> QED
    BY <1>3, <2>1 DEF Approve, Reviews, Evidence, signed, agentState
<1>4. CASE ClearApproval
  BY <1>4 DEF ClearApproval, signed, agentState
<1>5. ASSUME NEW status \in Status, Move(status)
      PROVE  TypeOK'
  BY <1>5 DEF Move, signed, agentState
<1>6. ASSUME NEW presence \in Presence, SetAgent(presence)
      PROVE  TypeOK'
  BY <1>6 DEF SetAgent, signed, agentState
<1>7. ASSUME NEW pause \in BOOLEAN, SetPaused(pause)
      PROVE  TypeOK'
  BY <1>7 DEF SetPaused, signed, agentState
<1>8. CASE Restart
  BY <1>8 DEF Restart, signed, agentState
<1> QED
  BY <1>1, <1>2, <1>3, <1>4, <1>5, <1>6, <1>7, <1>8 DEF ControlPlane

(* The signer keeps the types.                                               *)
LEMMA SignerTypeOK ==
  ASSUME TypeOK, Signer,
         allowed' = [a \in Authorizations |->
                       IF LeaseAllowed(a) THEN now' ELSE allowed[a]]
  PROVE  TypeOK'
<1> USE DEF TypeOK
<1>1. ASSUME NEW c \in Calls, NEW actor \in Actors, NEW kind \in Kinds,
             NEW expected \in 1..MaxVersion, NEW steps \in Scopes,
             BeginAuthorize(c, actor, kind, expected, steps)
      PROVE  TypeOK'
  <2> DEFINE basis == IF plan.requiresApproval /\ kind = "initial"
                      THEN [by |-> actor, evidence |-> approval]
                      ELSE Null
  <2> DEFINE claims == [version |-> plan.version, content |-> plan.content,
                        steps |-> steps, basis |-> basis]
  <2>1. /\ plan \in Plans
        /\ calls' = [calls EXCEPT ![c] =
             [what |-> "authorization", read |-> now, claims |-> claims]]
    BY <1>1 DEF BeginAuthorize
  <2>2. basis \in Basis \cup {Null}
    <3>1. CASE plan.requiresApproval /\ kind = "initial"
      <4>1. approval \in Evidence
        BY <1>1, <3>1 DEF BeginAuthorize, MayAuthorize, Approved
      <4> QED
        BY <3>1, <4>1 DEF Basis
    <3> QED
      BY <3>1
  <2> HIDE DEF basis
  <2>3. claims \in Claims
    BY <2>1, <2>2 DEF Plans, Claims
  <2> HIDE DEF claims
  <2>4. [what |-> "authorization", read |-> now, claims |-> claims] \in Drafts
    BY <2>3 DEF Drafts
  <2> QED
    BY <1>1, <2>1, <2>4 DEF BeginAuthorize, world, signed, agentState
<1>2. ASSUME NEW c \in Calls, NEW a \in Authorizations, Authorize(c, a)
      PROVE  TypeOK'
  <2>1. calls[c].claims \in Claims
    <3>1. calls[c] \in Drafts /\ calls[c].what = "authorization"
      BY <1>2 DEF Authorize
    <3> QED
      BY <3>1 DEF Drafts
  <2>2. [claims |-> calls[c].claims, notBefore |-> now,
         expires |-> now + AuthorizationTime] \in Signed
    BY <2>1, ExecutionAuthorityAssumption DEF Signed, Time
  <2> QED
    BY <1>2, <2>2 DEF Authorize, world, agentState
<1>3. ASSUME NEW c \in Calls, NEW a \in Authorizations, NEW steps \in Scopes,
             BeginLease(c, a, steps)
      PROVE  TypeOK'
  <2>1. [what |-> "lease", id |-> a, steps |-> steps, read |-> now] \in Drafts
    BY DEF Drafts
  <2> QED
    BY <1>3, <2>1 DEF BeginLease, world, signed, agentState
<1>4. ASSUME NEW c \in Calls, NEW l \in Leases, Lease(c, l)
      PROVE  TypeOK'
  <2>1. calls[c].id \in Authorizations /\ calls[c].steps \in Scopes
    <3>1. calls[c] \in Drafts /\ calls[c].what = "lease"
      BY <1>4 DEF Lease
    <3> QED
      BY <3>1 DEF Drafts
  <2>2. [id |-> calls[c].id, steps |-> calls[c].steps,
         expires |-> now + LeaseTime] \in Leased
    BY <2>1, ExecutionAuthorityAssumption DEF Leased, Time
  <2> QED
    BY <1>4, <2>2 DEF Lease, world, agentState
<1>5. ASSUME NEW c \in Calls, Fail(c)
      PROVE  TypeOK'
  BY <1>5 DEF Fail, world, signed, agentState
<1> QED
  BY <1>1, <1>2, <1>3, <1>4, <1>5 DEF Signer

(* So do the agent and the clock.                                            *)
LEMMA AgentTypeOK ==
  ASSUME TypeOK, Agent \/ Tick,
         allowed' = [a \in Authorizations |->
                       IF LeaseAllowed(a) THEN now' ELSE allowed[a]]
  PROVE  TypeOK'
<1> USE ExecutionAuthorityAssumption DEF TypeOK
<1>1. ASSUME NEW d \in Deliveries, NEW a \in Authorizations, Verify(d, a)
      PROVE  TypeOK'
  BY <1>1 DEF Verify, world, signed
<1>2. ASSUME NEW d \in Deliveries, Consume(d)
      PROVE  TypeOK'
  BY <1>2 DEF Consume, world, signed
<1>3. CASE CrashAgent
  BY <1>3 DEF CrashAgent, world, signed
<1>4. CASE Tick
  BY <1>4 DEF Tick, Time, world, signed, agentState
<1> QED
  BY <1>1, <1>2, <1>3, <1>4 DEF Agent

(* Every step keeps the types.                                               *)
LEMMA NextTypeOK == ASSUME TypeOK, [Next]_vars PROVE TypeOK'
<1>1. CASE UNCHANGED vars
  BY <1>1 DEF TypeOK, vars, world, signed, agentState
<1>2. CASE Next
  BY <1>2, ControlPlaneTypeOK, SignerTypeOK, AgentTypeOK DEF Next
<1> QED
  BY <1>1, <1>2

(* Every variable has the values its code can give it.                       *)
THEOREM TypeCorrect == Spec => []TypeOK
  BY InitTypeOK, NextTypeOK, PTL DEF Spec

-----------------------------------------------------------------------------
(* Nonces. *)

(* A step accepts an authorization only with a nonce that is not stored.     *)
LEMMA NextNonceIsStored ==
  ASSUME TypeOK, NonceIsStored, [Next]_vars
  PROVE  NonceIsStored'
<1>1. CASE UNCHANGED <<nonces, accepted>>
  BY <1>1 DEF NonceIsStored
<1>2. ASSUME NEW d \in Deliveries, Consume(d)
      PROVE  NonceIsStored'
  BY <1>2 DEF Consume, IsUnused, NonceIsStored, TypeOK
<1> QED
  BY <1>1, <1>2, NoncesChange

(* The agent acts on an authorization at most once, however often it is      *)
(* delivered.                                                                *)
THEOREM AcceptedOnceAlways == Spec => []AcceptedOnce
<1>1. Init => NonceIsStored
  BY DEF Init, NonceIsStored
<1>2. NonceIsStored => AcceptedOnce
  BY DEF NonceIsStored, AcceptedOnce
<1> QED
  BY <1>1, <1>2, NextNonceIsStored, TypeCorrect, PTL DEF Spec

-----------------------------------------------------------------------------
(* Approvals. *)

(* What is signed carries the evidence of its draft.                         *)
LEMMA NextOnlyApproved ==
  ASSUME TypeOK, OnlyApproved, [Next]_vars
  PROVE  OnlyApproved'
<1>1. ASSUME NEW c \in Calls, calls'[c] # Null,
             calls'[c].what = "authorization"
      PROVE  ClaimsAreApproved(calls'[c].claims)
  <2>1. CASE calls'[c] = calls[c]
    BY <1>1, <2>1 DEF OnlyApproved
  <2>2. ASSUME NEW actor \in Actors, NEW kind \in Kinds,
               NEW expected \in 1..MaxVersion, NEW steps \in Scopes,
               BeginAuthorize(c, actor, kind, expected, steps)
        PROVE  ClaimsAreApproved(calls'[c].claims)
    BY <2>2, DraftIsApproved
  <2>3. ASSUME NEW a \in Authorizations, NEW steps \in Scopes,
               BeginLease(c, a, steps)
        PROVE  FALSE
    BY <1>1, <2>3, DraftIsAllowed
  <2> QED
    BY <1>1, <2>1, <2>2, <2>3, CallsChange
<1>2. ASSUME NEW a \in Authorizations, authorizations'[a] # Null
      PROVE  ClaimsAreApproved(authorizations'[a].claims)
  <2>1. CASE UNCHANGED authorizations
    BY <1>2, <2>1 DEF OnlyApproved
  <2>2. ASSUME NEW c \in Calls, NEW b \in Authorizations, Authorize(c, b)
        PROVE  ClaimsAreApproved(authorizations'[a].claims)
    <3>1. ClaimsAreApproved(calls[c].claims)
      BY <2>2 DEF Authorize, OnlyApproved
    <3>2. CASE a = b
      BY <2>2, <3>1, <3>2 DEF Authorize, TypeOK
    <3>3. CASE a # b
      BY <1>2, <2>2, <3>3 DEF Authorize, TypeOK, OnlyApproved
    <3> QED
      BY <3>2, <3>3
  <2> QED
    BY <2>1, <2>2, AuthorizationsChange
<1> QED
  BY <1>1, <1>2 DEF OnlyApproved

-----------------------------------------------------------------------------
(* Leases. *)

(* A signed authorization is never taken back or changed.                    *)
LEMMA AuthorizationsStay ==
  ASSUME TypeOK, [Next]_vars, NEW a \in Authorizations,
         authorizations[a] # Null
  PROVE  authorizations'[a] = authorizations[a]
<1>1. CASE UNCHANGED authorizations
  BY <1>1
<1>2. ASSUME NEW c \in Calls, NEW b \in Authorizations, Authorize(c, b)
      PROVE  authorizations'[a] = authorizations[a]
  BY <1>2 DEF Authorize, TypeOK
<1> QED
  BY <1>1, <1>2, AuthorizationsChange

(* What a lease names is an authorization, and its times are numbers.        *)
LEMMA LeaseTypes ==
  ASSUME TypeOK, NEW l \in Leases, leases[l] # Null
  PROVE  /\ leases[l].id \in Authorizations
         /\ leases[l].steps \in Scopes
         /\ leases[l].expires \in Nat
         /\ authorizations[leases[l].id] # Null =>
              authorizations[leases[l].id].expires \in Nat
<1>1. leases[l] \in Leased
  BY DEF TypeOK
<1>2. leases[l].id \in Authorizations
  BY <1>1 DEF Leased
<1>3. ASSUME authorizations[leases[l].id] # Null
      PROVE  authorizations[leases[l].id].expires \in Nat
  <2>1. authorizations[leases[l].id] \in Signed
    BY <1>2, <1>3 DEF TypeOK
  <2> QED
    BY <2>1 DEF Signed
<1> QED
  BY <1>1, <1>2, <1>3 DEF Leased

(* A lease is signed for an authorization that still runs.                   *)
LEMMA NextLeasesBelong ==
  ASSUME TypeOK, LeasesBelong, [Next]_vars
  PROVE  LeasesBelong'
<1>1. ASSUME NEW c \in Calls, calls'[c] # Null, calls'[c].what = "lease"
      PROVE  /\ calls'[c].id \in Authorizations
             /\ authorizations'[calls'[c].id] # Null
  <2>1. CASE calls'[c] = calls[c]
    BY <1>1, <2>1, AuthorizationsStay DEF LeasesBelong
  <2>2. ASSUME NEW actor \in Actors, NEW kind \in Kinds,
               NEW expected \in 1..MaxVersion, NEW steps \in Scopes,
               BeginAuthorize(c, actor, kind, expected, steps)
        PROVE  FALSE
    BY <1>1, <2>2, DraftIsApproved
  <2>3. ASSUME NEW a \in Authorizations, NEW steps \in Scopes,
               BeginLease(c, a, steps)
        PROVE  /\ calls'[c].id \in Authorizations
               /\ authorizations'[calls'[c].id] # Null
    BY <2>3, DraftIsAllowed DEF LeaseAllowed
  <2> QED
    BY <1>1, <2>1, <2>2, <2>3, CallsChange
<1>2. ASSUME NEW l \in Leases, leases'[l] # Null
      PROVE  /\ authorizations'[leases'[l].id] # Null
             /\ leases'[l].expires <
                  authorizations'[leases'[l].id].expires + LeaseTime
  <2>1. CASE leases'[l] = leases[l]
    <3>1. /\ leases[l].id \in Authorizations
          /\ authorizations[leases[l].id] # Null
      BY <1>2, <2>1, LeaseTypes DEF LeasesBelong
    <3> QED
      BY <1>2, <2>1, <3>1, AuthorizationsStay DEF LeasesBelong
  <2>2. ASSUME NEW c \in Calls, Lease(c, l)
        PROVE  /\ authorizations'[leases'[l].id] # Null
               /\ leases'[l].expires <
                    authorizations'[leases'[l].id].expires + LeaseTime
    <3>1. /\ leases'[l] = [id |-> calls[c].id, steps |-> calls[c].steps,
                           expires |-> now + LeaseTime]
          /\ now < authorizations[calls[c].id].expires
          /\ authorizations' = authorizations
      BY <2>2 DEF Lease, StillAuthorized, TypeOK
    <3>2. /\ calls[c].id \in Authorizations
          /\ authorizations[calls[c].id] # Null
      BY <2>2 DEF Lease, LeasesBelong
    <3>3. authorizations[calls[c].id] \in Signed
      BY <3>2 DEF TypeOK
    <3>4. authorizations[calls[c].id].expires \in Nat /\ now \in Nat
      BY <3>3, ExecutionAuthorityAssumption DEF Signed, TypeOK, Time
    <3> QED
      BY <3>1, <3>2, <3>4, ExecutionAuthorityAssumption
  <2>3. ASSUME NEW c \in Calls, NEW m \in Leases, Lease(c, m), m # l
        PROVE  leases'[l] = leases[l]
    BY <2>3 DEF Lease, TypeOK
  <2> QED
    BY <2>1, <2>2, <2>3, LeasesChange
<1> QED
  BY <1>1, <1>2 DEF LeasesBelong

(* What leases carry is their authorization's.                               *)
LEMMA InitLeases ==
  ASSUME Init
  PROVE  OnlyApproved /\ LeasesBelong /\ LeasesAreRecent
  BY DEF Init, OnlyApproved, LeasesBelong, LeasesAreRecent

(* What the agent may schedule under a lease comes before its end.           *)
LEMMA ScheduledInTime ==
  ASSUME TypeOK, NEW l \in Leases, NEW step \in Steps, MaySchedule(l, step)
  PROVE  now < leases[l].expires + Skew
<1>1. PICK lag \in 0..Skew : now - lag < leases[l].expires
  BY DEF MaySchedule, Clocks
<1>2. leases[l].expires \in Nat /\ now \in Nat
  BY LeaseTypes, ExecutionAuthorityAssumption DEF MaySchedule, TypeOK, Time
<1> QED
  BY <1>1, <1>2, ExecutionAuthorityAssumption

(* Nothing is scheduled under an authorization later than the life of one    *)
(* lease after its end.                                                      *)
THEOREM AuthorizationsRunOutAlways == Spec => []AuthorizationsRunOut
<1>1. ASSUME TypeOK, LeasesBelong
      PROVE  AuthorizationsRunOut
  <2> SUFFICES ASSUME NEW l \in Leases, NEW step \in Steps,
                      MaySchedule(l, step)
               PROVE  now < authorizations[leases[l].id].expires
                            + LeaseTime + Skew
    BY DEF AuthorizationsRunOut
  <2>1. /\ leases[l] # Null
        /\ authorizations[leases[l].id] # Null
        /\ leases[l].expires < authorizations[leases[l].id].expires + LeaseTime
    BY <1>1 DEF MaySchedule, LeasesBelong
  <2>2. /\ leases[l].expires \in Nat
        /\ authorizations[leases[l].id].expires \in Nat
    BY <1>1, <2>1, LeaseTypes
  <2>3. now < leases[l].expires + Skew
    BY <1>1, ScheduledInTime
  <2>4. now \in Nat
    BY <1>1, ExecutionAuthorityAssumption DEF TypeOK, Time
  <2> QED
    BY <2>1, <2>2, <2>3, <2>4, ExecutionAuthorityAssumption
<1> QED
  BY <1>1, InitLeases, NextLeasesBelong, TypeCorrect, PTL DEF Spec

(* The agent schedules what somebody else approved.                          *)
THEOREM WorkIsApprovedAlways == Spec => []WorkIsApproved
<1>1. ASSUME TypeOK, LeasesBelong, OnlyApproved
      PROVE  WorkIsApproved
  <2> SUFFICES ASSUME NEW l \in Leases, NEW step \in Steps,
                      MaySchedule(l, step),
                      authorizations[leases[l].id].claims.basis # Null
               PROVE  LET claims == authorizations[leases[l].id].claims
                      IN /\ claims.basis.evidence.by # claims.basis.by
                         /\ claims.basis.evidence.content = claims.content
                         /\ step \in claims.content
    BY DEF WorkIsApproved
  <2>1. leases[l].id \in Authorizations /\ authorizations[leases[l].id] # Null
    BY <1>1, LeaseTypes DEF MaySchedule, LeasesBelong
  <2>2. ClaimsAreApproved(authorizations[leases[l].id].claims)
    BY <1>1, <2>1 DEF OnlyApproved
  <2> QED
    BY <2>2 DEF ClaimsAreApproved, MaySchedule
<1> QED
  BY <1>1, InitLeases, NextLeasesBelong, NextOnlyApproved, TypeCorrect, PTL
  DEF Spec

-----------------------------------------------------------------------------
(* Recency. *)

(* Time does not go back.                                                    *)
LEMMA TimeGoesOn ==
  ASSUME TypeOK, [Next]_vars
  PROVE  /\ now \in Nat /\ now' \in Nat
         /\ now <= now'
<1>1. now \in Nat
  BY ExecutionAuthorityAssumption DEF TypeOK, Time
<1>2. now' = now \/ now' = now + 1
  BY ClockChanges DEF Tick
<1> QED
  BY <1>1, <1>2

(* What was allowed last was allowed by now, ...                             *)
LEMMA NextAllowed ==
  ASSUME TypeOK, [Next]_vars, NEW a \in Authorizations, allowed[a] <= now
  PROVE  /\ allowed'[a] <= now'
         /\ allowed'[a] \in Nat
         /\ LastAllowed(a) \in Nat /\ LastAllowed(a)' \in Nat
         /\ LastAllowed(a) <= LastAllowed(a)'
<1>1. allowed[a] \in Nat
  BY ExecutionAuthorityAssumption DEF TypeOK, Time
<1>2. CASE UNCHANGED vars
  <2>1. LeaseAllowed(a)' <=> LeaseAllowed(a)
    BY <1>2 DEF vars, world, signed, LeaseAllowed
  <2>2. now' = now /\ allowed' = allowed
    BY <1>2 DEF vars
  <2> QED
    BY <1>1, <2>1, <2>2, TimeGoesOn DEF LastAllowed
<1>3. CASE Next
  <2>1. allowed'[a] = IF LeaseAllowed(a) THEN now' ELSE allowed[a]
    BY <1>3 DEF Next
  <2> QED
    BY <1>1, <2>1, TimeGoesOn DEF LastAllowed
<1> QED
  BY <1>2, <1>3

(* ... and neither a draft nor a lease outlives it by more than it may.      *)
LEMMA NextLeasesAreRecent ==
  ASSUME TypeOK, LeasesBelong, LeasesAreRecent, [Next]_vars
  PROVE  LeasesAreRecent'
<1>1. \A a \in Authorizations : allowed'[a] <= now'
  BY NextAllowed DEF LeasesAreRecent
<1>2. ASSUME NEW c \in Calls, calls'[c] # Null
      PROVE  now' <= calls'[c].read + MaxDelay
  <2>1. CASE calls'[c] = calls[c]
    <3>1. calls[c] \in Drafts
      BY <1>2, <2>1 DEF TypeOK
    <3>2. calls[c].read \in Nat
      BY <3>1, ExecutionAuthorityAssumption DEF Drafts, Time
    <3>3. CASE now' = now
      BY <1>2, <2>1, <3>3 DEF LeasesAreRecent
    <3>4. CASE Tick
      BY <1>2, <2>1, <3>2, <3>4, TimeGoesOn, ExecutionAuthorityAssumption
      DEF Tick
    <3> QED
      BY <3>3, <3>4, ClockChanges
  <2>2. ASSUME NEW actor \in Actors, NEW kind \in Kinds,
               NEW expected \in 1..MaxVersion, NEW steps \in Scopes,
               BeginAuthorize(c, actor, kind, expected, steps)
        PROVE  now' <= calls'[c].read + MaxDelay
    <3>1. calls'[c].read = now
      BY <2>2, DraftIsApproved
    <3>2. now' = now
      BY <2>2 DEF BeginAuthorize
    <3> QED
      BY <3>1, <3>2, TimeGoesOn, ExecutionAuthorityAssumption
  <2>3. ASSUME NEW a \in Authorizations, NEW steps \in Scopes,
               BeginLease(c, a, steps)
        PROVE  now' <= calls'[c].read + MaxDelay
    <3>1. calls'[c].read = now
      BY <2>3, DraftIsAllowed
    <3>2. now' = now
      BY <2>3 DEF BeginLease
    <3> QED
      BY <3>1, <3>2, TimeGoesOn, ExecutionAuthorityAssumption
  <2> QED
    BY <1>2, <2>1, <2>2, <2>3, CallsChange
<1>3. ASSUME NEW c \in Calls, NEW a \in Authorizations,
             calls'[c] # Null, calls'[c].what = "lease", calls'[c].id = a
      PROVE  calls'[c].read <= LastAllowed(a)'
  <2>1. /\ LastAllowed(a) \in Nat /\ LastAllowed(a)' \in Nat
        /\ LastAllowed(a) <= LastAllowed(a)'
    BY NextAllowed DEF LeasesAreRecent
  <2>2. CASE calls'[c] = calls[c]
    <3>1. calls[c] \in Drafts
      BY <1>3, <2>2 DEF TypeOK
    <3>2. calls[c].read \in Nat
      BY <3>1, ExecutionAuthorityAssumption DEF Drafts, Time
    <3>3. calls[c].read <= LastAllowed(a)
      BY <1>3, <2>2 DEF LeasesAreRecent
    <3> QED
      BY <2>1, <2>2, <3>2, <3>3
  <2>3. ASSUME NEW actor \in Actors, NEW kind \in Kinds,
               NEW expected \in 1..MaxVersion, NEW steps \in Scopes,
               BeginAuthorize(c, actor, kind, expected, steps)
        PROVE  FALSE
    BY <1>3, <2>3, DraftIsApproved
  <2>4. ASSUME NEW b \in Authorizations, NEW steps \in Scopes,
               BeginLease(c, b, steps)
        PROVE  calls'[c].read <= LastAllowed(a)'
    <3>1. calls'[c].read = now /\ b = a /\ LeaseAllowed(a)
      BY <1>3, <2>4, DraftIsAllowed
    <3>2. LastAllowed(a) = now
      BY <3>1 DEF LastAllowed
    <3> QED
      BY <2>1, <3>1, <3>2
  <2> QED
    BY <1>3, <2>2, <2>3, <2>4, CallsChange
<1>4. ASSUME NEW l \in Leases, NEW a \in Authorizations,
             leases'[l] # Null, leases'[l].id = a
      PROVE  leases'[l].expires <= LastAllowed(a)' + MaxDelay + LeaseTime
  <2>1. /\ LastAllowed(a) \in Nat /\ LastAllowed(a)' \in Nat
        /\ LastAllowed(a) <= LastAllowed(a)'
    BY NextAllowed DEF LeasesAreRecent
  <2>2. CASE leases'[l] = leases[l]
    <3>1. leases[l].expires \in Nat
      BY <1>4, <2>2, LeaseTypes
    <3>2. leases[l].expires <= LastAllowed(a) + MaxDelay + LeaseTime
      BY <1>4, <2>2 DEF LeasesAreRecent
    <3> QED
      BY <2>1, <2>2, <3>1, <3>2, ExecutionAuthorityAssumption
  <2>3. ASSUME NEW c \in Calls, Lease(c, l)
        PROVE  leases'[l].expires <= LastAllowed(a)' + MaxDelay + LeaseTime
    <3>1. calls[c].id = a /\ leases'[l].expires = now + LeaseTime
      BY <1>4, <2>3 DEF Lease, TypeOK
    <3>2. /\ calls[c] # Null /\ calls[c].what = "lease"
          /\ calls[c] \in Drafts
      BY <2>3 DEF Lease, TypeOK
    <3>3. calls[c].read \in Nat
      BY <3>2, ExecutionAuthorityAssumption DEF Drafts, Time
    <3>4. /\ now <= calls[c].read + MaxDelay
          /\ calls[c].read <= LastAllowed(a)
      BY <3>1, <3>2 DEF LeasesAreRecent
    <3> QED
      BY <2>1, <3>1, <3>3, <3>4, TimeGoesOn, ExecutionAuthorityAssumption
  <2>4. ASSUME NEW c \in Calls, NEW m \in Leases, Lease(c, m), m # l
        PROVE  leases'[l] = leases[l]
    BY <2>4 DEF Lease, TypeOK
  <2> QED
    BY <2>2, <2>3, <2>4, LeasesChange
<1> QED
  BY <1>1, <1>2, <1>3, <1>4 DEF LeasesAreRecent

(* Once the control plane stops to allow an authorization, nothing is        *)
(* scheduled under it after one call of the signer and the life of a lease.  *)
THEOREM SchedulingStopsAlways == Spec => []SchedulingStops
<1>1. ASSUME TypeOK, LeasesBelong, LeasesAreRecent
      PROVE  SchedulingStops
  <2> SUFFICES ASSUME NEW l \in Leases, NEW step \in Steps,
                      MaySchedule(l, step)
               PROVE  now < LastAllowed(leases[l].id)
                            + MaxDelay + LeaseTime + Skew
    BY DEF SchedulingStops
  <2> DEFINE a == leases[l].id
  <2>1. leases[l] # Null
    BY DEF MaySchedule
  <2>2. leases[l].expires \in Nat /\ a \in Authorizations
    BY <1>1, <2>1, LeaseTypes
  <2>3. now \in Nat /\ LastAllowed(a) \in Nat
    BY <1>1, <2>2, ExecutionAuthorityAssumption DEF TypeOK, Time, LastAllowed
  <2>4. leases[l].expires <= LastAllowed(a) + MaxDelay + LeaseTime
    BY <1>1, <2>1, <2>2 DEF LeasesAreRecent
  <2>5. now < leases[l].expires + Skew
    BY <1>1, ScheduledInTime
  <2> QED
    BY <2>2, <2>3, <2>4, <2>5, ExecutionAuthorityAssumption
<1> QED
  BY <1>1, InitLeases, NextLeasesBelong, NextLeasesAreRecent, TypeCorrect, PTL
  DEF Spec

=============================================================================
