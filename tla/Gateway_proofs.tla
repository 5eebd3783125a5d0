--------------------------- MODULE Gateway_proofs ---------------------------
(***************************************************************************)
(* Proofs about execute_query requests, for any number of requests,        *)
(* operators, agents, tables and queries, any policy and any flags.  What  *)
(* the approval engine and the agents' rows guarantee is taken from their  *)
(* own proofs; what the gateway's steps keep, from GatewayHandlers_proofs. *)
(***************************************************************************)
EXTENDS GatewayHandlers_proofs

EP == INSTANCE ApprovalEngine_proofs
BP == INSTANCE AgentBehavior_proofs WITH MetadataFaults <- TRUE

----------------------------------------------------------------------------
(* The components inside the gateway.                                      *)

(* The engine the gateway is composed with is the engine of the proofs.    *)
LEMMA SameEngine ==
  /\ Engine!Init <=> EP!Init
  /\ [Engine!Next]_engineVars <=> [EP!Next]_(EP!engineVars)
  /\ Engine!EngineInv <=> EP!EngineInv
<1>1. Engine!Init <=> EP!Init
  BY Zenon DEF Engine!Init, EP!Init, Engine!None, EP!None, Engine!NoCall, EP!NoCall
<1>2. Engine!Next <=> EP!Next
  BY Zenon DEF Engine!Next, EP!Next, Engine!WaiterStep, EP!WaiterStep, Engine!RequestApproval,
     EP!RequestApproval, Engine!Select, EP!Select, Engine!SelectDecision, EP!SelectDecision,
     Engine!SelectTimer, EP!SelectTimer, Engine!SelectDone, EP!SelectDone,
     Engine!DeferredDelete, EP!DeferredDelete, Engine!TimerFires, EP!TimerFires,
     Engine!ClientGone, EP!ClientGone, Engine!SignalLoad, EP!SignalLoad, Engine!SignalSend,
     EP!SignalSend, Engine!Crash, EP!Crash, Engine!Verdict, EP!Verdict, Engine!Decision,
     EP!Decision, Engine!None, EP!None, Engine!NoCall, EP!NoCall
<1>3. Engine!TypeOK <=> EP!TypeOK
  BY Zenon DEF Engine!TypeOK, EP!TypeOK, Engine!Decision, EP!Decision, Engine!None, EP!None,
     Engine!NoCall, EP!NoCall, Engine!Call, EP!Call
<1>4. Engine!FirstDecisionWins <=> EP!FirstDecisionWins
  BY Zenon DEF Engine!FirstDecisionWins, EP!FirstDecisionWins, Engine!Verdict, EP!Verdict,
     Engine!None, EP!None
<1>5. Engine!PendingWhileWaiting <=> EP!PendingWhileWaiting
  BY Zenon DEF Engine!PendingWhileWaiting, EP!PendingWhileWaiting, Engine!Waiting, EP!Waiting
<1>6. Engine!EngineInv <=> EP!EngineInv
  BY <1>3, <1>4, <1>5, Zenon DEF Engine!EngineInv, EP!EngineInv, Engine!None, EP!None,
     Engine!NoCall, EP!NoCall
<1> QED
  BY <1>1, <1>2, <1>6 DEF engineVars, EP!engineVars

(* The policy and the flags the gateway starts with are fit for behavior.go.*)
LEMMA BehaviorParameters == BP!BehaviorAssumption
BY GatewayAssumption DEF BP!BehaviorAssumption, BP!IsFiniteSet, IsFiniteSet

(* And so are the agents' rows.                                            *)
LEMMA SameBehavior ==
  /\ Behavior!Init <=> BP!Init
  /\ [Behavior!Next]_behaviorVars <=> [BP!Next]_(BP!behaviorVars)
  /\ Behavior!TypeOK <=> BP!TypeOK
  /\ Behavior!QuarantineHasCause <=> BP!QuarantineHasCause
  /\ Behavior!QuarantineBounded <=> BP!QuarantineBounded
<1>1. Behavior!Init <=> BP!Init
  BY Zenon DEF Behavior!Init, BP!Init, Behavior!NoState, BP!NoState, Behavior!Never, BP!Never
<1>2. Behavior!Next <=> BP!Next
  BY Zenon DEF Behavior!Next, BP!Next, Behavior!CheckQuarantine, BP!CheckQuarantine,
     Behavior!TakeTime, BP!TakeTime, Behavior!ReadState, BP!ReadState, Behavior!SaveState,
     BP!SaveState, Behavior!Tick, BP!Tick, Behavior!GetAgentState, BP!GetAgentState,
     Behavior!Quarantined, BP!Quarantined, Behavior!AfterAttempt, BP!AfterAttempt,
     Behavior!NoState, BP!NoState, Behavior!Never, BP!Never
<1>3. Behavior!TypeOK <=> BP!TypeOK
  BY Zenon DEF Behavior!TypeOK, BP!TypeOK, Behavior!AgentState, BP!AgentState,
     Behavior!Instant, BP!Instant, Behavior!Never, BP!Never
<1>4. Behavior!QuarantineBounded <=> BP!QuarantineBounded
  BY Zenon DEF Behavior!QuarantineBounded, BP!QuarantineBounded
<1>5. Behavior!QuarantineHasCause <=> BP!QuarantineHasCause
  BY Zenon DEF Behavior!QuarantineHasCause, BP!QuarantineHasCause, Behavior!CountedIn,
     BP!CountedIn, Behavior!Never, BP!Never, Behavior!Cardinality, BP!Cardinality, Cardinality
<1> QED
  BY <1>1, <1>2, <1>3, <1>4, <1>5 DEF behaviorVars, BP!behaviorVars

(* Every behavior of the gateway is one of its approval engine.            *)
LEMMA GatewayIsEngine == Safety => EP!Safety
<1>1. Init => EP!Init
  BY SameEngine DEF Init
<1>2. [Next]_vars => [EP!Next]_(EP!engineVars)
  BY SameEngine, EngineStep
<1> QED
  BY <1>1, <1>2, PTL DEF Safety, EP!Safety

(* Inside the gateway approval.go keeps its contract: what is waited for is*)
(* resolved once, by the first accepted decision, its deadline, its        *)
(* client's departure or a crash.                                          *)
THEOREM GatewayKeepsContract == Safety => ImplementsContract
<1>1. EP!Contract!Init => Engine!Contract!Init
  BY Zenon DEF EP!Contract!Init, Engine!Contract!Init, EP!StatusOf, Engine!StatusOf,
     EP!None, Engine!None
<1>2. [EP!Contract!Next]_(EP!Contract!contractVars)
        => [Engine!Contract!Next]_(Engine!Contract!contractVars)
  BY Zenon DEF EP!Contract!Next, Engine!Contract!Next, EP!Contract!Open, Engine!Contract!Open,
     EP!Contract!Accept, Engine!Contract!Accept, EP!Contract!Resolve, Engine!Contract!Resolve,
     EP!Contract!Crash, Engine!Contract!Crash, EP!Contract!Decision, Engine!Contract!Decision,
     EP!Contract!Resolution, Engine!Contract!Resolution, EP!Contract!contractVars,
     Engine!Contract!contractVars, EP!StatusOf, Engine!StatusOf, EP!None, Engine!None
<1> QED
  BY <1>1, <1>2, GatewayIsEngine, EP!EngineImplementsContract, PTL
  DEF ImplementsContract, EP!Contract!Safety, Engine!Contract!Safety

(* Every behavior of the gateway is one of behavior.go, ...                *)
LEMMA GatewayIsBehavior == Safety => BP!Spec
<1>1. Init => BP!Init
  BY SameBehavior DEF Init
<1>2. [Next]_vars => [BP!Next]_(BP!behaviorVars)
  BY BehaviorStep, SameBehavior
<1> QED
  BY <1>1, <1>2, PTL DEF Safety, BP!Spec

(* ... so inside the gateway behavior.go works as it does by itself.       *)
THEOREM GatewayImplementsBehavior == Safety => ImplementsBehavior
<1>1. Init => Behavior!Init
  BY DEF Init
<1>2. [Next]_vars => [Behavior!Next]_(Behavior!behaviorVars)
  BY BehaviorStep DEF Behavior!behaviorVars, behaviorVars
<1> QED
  BY <1>1, <1>2, PTL DEF Safety, ImplementsBehavior, Behavior!Spec

(* For every gateway no agent is quarantined unless as many of its         *)
(* requests as the policy allows were being recorded while one window ran, *)
(* and none for longer than the policy says.                               *)
THEOREM GatewayQuarantinesWithCause ==
  Safety => [](Behavior!QuarantineHasCause /\ Behavior!QuarantineBounded)
<1>1. BP!Spec => []BP!QuarantineHasCause
  BY BehaviorParameters, BP!NoQuarantineWithoutCause, PTL DEF BP!BehaviorAssumption
<1>2. BP!Spec => []BP!QuarantineBounded
  BY BehaviorParameters, BP!QuarantineNeverTooLong, PTL DEF BP!BehaviorAssumption
<1>3. BP!QuarantineHasCause /\ BP!QuarantineBounded
      => Behavior!QuarantineHasCause /\ Behavior!QuarantineBounded
  BY SameBehavior
<1> QED
  BY <1>1, <1>2, <1>3, GatewayIsBehavior, PTL

----------------------------------------------------------------------------
(* The gateway.                                                            *)

(* Handlers, operators, administrators, the sidecar, the clock and crashes *)
(* together keep everything the handlers rely on.                          *)
LEMMA AlwaysInOrder == Safety => [](HandlersOK /\ GuardsOK)
<1>1. ASSUME Init, Engine!EngineInv PROVE HandlersOK /\ GuardsOK
  BY <1>1, StartsInOrder
<1>2. ASSUME HandlersOK, GuardsOK, Engine!EngineInv', [Next]_vars
      PROVE  HandlersOK' /\ GuardsOK'
  BY <1>2, StaysInOrder
<1>3. EP!EngineInv => Engine!EngineInv
  BY SameEngine
<1> QED
  BY <1>1, <1>2, <1>3, GatewayIsEngine, EP!EngineInvariant, PTL DEF Safety

(* The inductive invariant the runs check holds of every gateway: the      *)
(* types of all it works with, and every handler's account of what it      *)
(* audited, sent, answered, recorded, and was allowed by the pause and the *)
(* recovery checks.                                                        *)
THEOREM GatewayInvAlways == Safety => []GatewayInv
<1>1. ASSUME HandlersOK, GuardsOK, BP!BehaviorInv PROVE GatewayInv
  <2>1. Behavior!TypeOK
    BY <1>1, SameBehavior DEF BP!BehaviorInv
  <2>2. TypeOK
    BY <1>1, <2>1 DEF HandlersOK, Engine!EngineInv, GuardsOK, HandlerTypes, GuardTypes, TypeOK
  <2> QED
    BY <1>1, <2>2 DEF HandlersOK, GuardsOK, HandlerOK, GatewayInv
<1>2. BP!Spec => []BP!BehaviorInv
  BY BehaviorParameters, BP!BehaviorInvariant, PTL DEF BP!BehaviorAssumption
<1> QED
  BY <1>1, <1>2, GatewayIsBehavior, AlwaysInOrder, PTL

(* toolExecuteQuery sends SQL only as the policy allows, and what it wants *)
(* approved only after the first operator to decide on it approved it.     *)
THEOREM OnlyApprovedRiskAlways == Safety => []OnlyApprovedRisk
<1>1. HandlersOK => OnlyApprovedRisk
  BY OutcomeIsFirst, Zenon DEF HandlersOK, HandlerOK, VerdictInv, OnlyApprovedRisk
<1> QED
  BY <1>1, AlwaysInOrder, PTL

(* The audit log has one entry per answered request, and it says whether   *)
(* the handler went on to the database.                                    *)
THEOREM AuditAlwaysTellsTheTruth == Safety => []AuditTellsTheTruth
BY AuditFollows, AlwaysInOrder, PTL

(* A row of table approvals that names an end names the right one.         *)
THEOREM RowAlwaysTellsTheTruth == Safety => []RowTellsTheTruth
BY RowFollows, AlwaysInOrder, PTL

(* With --snapshot-before-critical no SQL that needs a recovery point goes *)
(* to the database unless the snapshot it named was the newest of its      *)
(* table when it was verified, and then found young enough.                *)
THEOREM AlwaysVerifiedBeforeSent == Safety => []VerifiedBeforeSent
<1>1. GuardsOK => VerifiedBeforeSent
  BY DEF GuardsOK, RecoveryInv, VerifiedBeforeSent
<1> QED
  BY <1>1, AlwaysInOrder, PTL

(* During a pause the only risky SQL that still goes out is that of        *)
(* handlers that were past their last pause check when it began.           *)
THEOREM PauseAlwaysHolds == Safety => PauseHolds
<1>1. ASSUME HandlersOK, GuardsOK, [Next]_vars
      PROVE  [\A r \in Requests :
                ~sent[r] /\ sent'[r] /\ BlocksRisk(query[r].risk) => r \in cleared]_vars
  BY <1>1, SendingFollows, Zenon
<1> QED
  BY <1>1, AlwaysInOrder, PTL DEF Safety, PauseHolds
=============================================================================
