--------------------------- MODULE ApprovalEngine ---------------------------
(***************************************************************************)
(* gateway/approval.go: the human-in-the-loop engine of the gateway.       *)
(*                                                                         *)
(* One goroutine per request runs RequestApproval: it stores the request   *)
(* in the pending map, waits in a select for a decision, the timer or the  *)
(* caller's context, and removes the request on its way out (defer).  One  *)
(* goroutine per operator call runs signal: it loads the entry, then sends *)
(* on a channel of capacity one without blocking.  The two sides share     *)
(* nothing but the map and the channel, so every step between two accesses *)
(* interleaves with every step of the others.                              *)
(***************************************************************************)
EXTENDS Naturals

CONSTANTS Requests,     \* approval ids; generateID gives every request its own
          Operators     \* concurrent calls of POST /approve/{id}, /deny/{id}

VARIABLES waiter,       \* where RequestApproval(r) is
          pending,      \* e.pending, the map's key set
          decision,     \* pa.decision, a channel of capacity one
          timer,        \* whether time.NewTimer(e.timeout) has fired
          cancelled,    \* whether the caller's ctx is done
          outcome,      \* what RequestApproval returns
          call,         \* what signal(id, resolution) holds after its Load
          first         \* history: the first decision put in the channel

engineVars == <<waiter, pending, decision, timer, cancelled, outcome, call, first>>

Decision == {"approve", "deny"}
None == "none"
NoCall == [id |-> None, says |-> None]
Call == [id : Requests, says : Decision]

Verdict == [approve |-> "approved", deny |-> "denied"]

TypeOK ==
  /\ waiter \in [Requests -> {"idle", "select", "deferred", "returned", "lost"}]
  /\ pending \in SUBSET Requests
  /\ decision \in [Requests -> Decision \cup {None}]
  /\ timer \in [Requests -> BOOLEAN]
  /\ cancelled \in [Requests -> BOOLEAN]
  /\ outcome \in [Requests -> {None, "approved", "denied", "timeout", "cancelled"}]
  /\ call \in [Operators -> Call \cup {NoCall}]
  /\ first \in [Requests -> Decision \cup {None}]

Init ==
  /\ waiter = [r \in Requests |-> "idle"]
  /\ pending = {}
  /\ decision = [r \in Requests |-> None]
  /\ timer = [r \in Requests |-> FALSE]
  /\ cancelled = [r \in Requests |-> FALSE]
  /\ outcome = [r \in Requests |-> None]
  /\ call = [o \in Operators |-> NoCall]
  /\ first = [r \in Requests |-> None]

----------------------------------------------------------------------------
(* The waiting side.                                                       *)

(* pending.Store and the new timer.  The id is never empty here: the only  *)
(* caller passes generateID's result.                                      *)
RequestApproval(r) ==
  /\ waiter[r] = "idle"
  /\ waiter' = [waiter EXCEPT ![r] = "select"]
  /\ pending' = pending \cup {r}
  /\ UNCHANGED <<decision, timer, cancelled, outcome, call, first>>

(* A select with several ready cases takes any of them.                    *)
SelectDecision(r) ==
  /\ waiter[r] = "select"
  /\ decision[r] # None
  /\ outcome' = [outcome EXCEPT ![r] = Verdict[decision[r]]]
  /\ decision' = [decision EXCEPT ![r] = None]
  /\ waiter' = [waiter EXCEPT ![r] = "deferred"]
  /\ UNCHANGED <<pending, timer, cancelled, call, first>>

(* Variant: the timer case returns without a result.                       *)
SelectTimerNoResult(r) ==
  /\ waiter[r] = "select"
  /\ timer[r]
  /\ waiter' = [waiter EXCEPT ![r] = "deferred"]
  /\ UNCHANGED <<pending, decision, timer, cancelled, outcome, call, first>>

SelectTimer(r) ==
  /\ waiter[r] = "select"
  /\ timer[r]
  /\ outcome' = [outcome EXCEPT ![r] = "timeout"]
  /\ waiter' = [waiter EXCEPT ![r] = "deferred"]
  /\ UNCHANGED <<pending, decision, timer, cancelled, call, first>>

SelectDone(r) ==
  /\ waiter[r] = "select"
  /\ cancelled[r]
  /\ outcome' = [outcome EXCEPT ![r] = "cancelled"]
  /\ waiter' = [waiter EXCEPT ![r] = "deferred"]
  /\ UNCHANGED <<pending, decision, timer, cancelled, call, first>>

(* Variant for the mutation runs: the select lacks its timer case.         *)
SelectWithoutTimer(r) == SelectDecision(r) \/ SelectDone(r)

Select(r) == SelectDecision(r) \/ SelectTimer(r) \/ SelectDone(r)

(* Variant: the entry is left in the map.                                  *)
DeferredStopOnly(r) ==
  /\ waiter[r] = "deferred"
  /\ timer' = [timer EXCEPT ![r] = FALSE]
  /\ waiter' = [waiter EXCEPT ![r] = "returned"]
  /\ UNCHANGED <<pending, decision, cancelled, outcome, call, first>>

(* The deferred timer.Stop and pending.Delete: a step of its own, after    *)
(* the select and before the caller sees the result.                       *)
DeferredDelete(r) ==
  /\ waiter[r] = "deferred"
  /\ timer' = [timer EXCEPT ![r] = FALSE]
  /\ pending' = pending \ {r}
  /\ waiter' = [waiter EXCEPT ![r] = "returned"]
  /\ UNCHANGED <<decision, cancelled, outcome, call, first>>

----------------------------------------------------------------------------
(* The operators' side.                                                    *)

(* signal up to its Load.  A missing id returns ErrApprovalNotFound, which *)
(* changes nothing: the call is simply over.                               *)
SignalLoad(o, r, d) ==
  /\ call[o] = NoCall
  /\ r \in pending
  /\ call' = [call EXCEPT ![o] = [id |-> r, says |-> d]]
  /\ UNCHANGED <<waiter, pending, decision, timer, cancelled, outcome, first>>

(* Variants: the last decision wins; the send blocks on a full channel.    *)
SignalReplaces(o) ==
  LET r == call[o].id
  IN /\ call[o] # NoCall
     /\ decision' = [decision EXCEPT ![r] = call[o].says]
     /\ first' = IF first[r] = None THEN [first EXCEPT ![r] = call[o].says] ELSE first
     /\ call' = [call EXCEPT ![o] = NoCall]
     /\ UNCHANGED <<waiter, pending, timer, cancelled, outcome>>

SignalBlocks(o) ==
  /\ call[o] # NoCall
  /\ decision[call[o].id] = None
  /\ SignalReplaces(o)

(* The non-blocking send and the return: a full channel keeps its value,   *)
(* the new decision is dropped, and the operator is told nil all the same. *)
SignalSend(o) ==
  LET r == call[o].id
      free == decision[r] = None
  IN /\ call[o] # NoCall
     /\ decision' = IF free THEN [decision EXCEPT ![r] = call[o].says] ELSE decision
     /\ first' = IF first[r] = None THEN [first EXCEPT ![r] = call[o].says] ELSE first
     /\ call' = [call EXCEPT ![o] = NoCall]
     /\ UNCHANGED <<waiter, pending, timer, cancelled, outcome>>

----------------------------------------------------------------------------
(* The environment.                                                        *)

TimerFires(r) ==
  /\ waiter[r] = "select"
  /\ ~timer[r]
  /\ timer' = [timer EXCEPT ![r] = TRUE]
  /\ UNCHANGED <<waiter, pending, decision, cancelled, outcome, call, first>>

(* The client disconnects or gives up; its request context is done.        *)
ClientGone(r) ==
  /\ waiter[r] # "lost"
  /\ ~cancelled[r]
  /\ cancelled' = [cancelled EXCEPT ![r] = TRUE]
  /\ UNCHANGED <<waiter, pending, decision, timer, outcome, call, first>>

(* The gateway process dies and a new one starts with an empty engine.     *)
Crash ==
  /\ waiter' = [r \in Requests |->
                  IF waiter[r] \in {"select", "deferred"} THEN "lost" ELSE waiter[r]]
  /\ pending' = {}
  /\ decision' = [r \in Requests |-> None]
  /\ timer' = [r \in Requests |-> FALSE]
  /\ call' = [o \in Operators |-> NoCall]
  /\ UNCHANGED <<cancelled, outcome, first>>

WaiterStep(r) == RequestApproval(r) \/ Select(r) \/ DeferredDelete(r)

Next ==
  \/ \E r \in Requests : WaiterStep(r) \/ TimerFires(r) \/ ClientGone(r)
  \/ \E o \in Operators, r \in Requests, d \in Decision : SignalLoad(o, r, d)
  \/ \E o \in Operators : SignalSend(o)
  \/ Crash

Safety == Init /\ [][Next]_engineVars

(* Goroutines that can run do run, and timers fire.  Nothing obliges a     *)
(* client to ask, an operator to decide or the process to crash.           *)
Fairness ==
  /\ \A r \in Requests : /\ WF_engineVars(Select(r))
                         /\ WF_engineVars(DeferredDelete(r))
                         /\ WF_engineVars(TimerFires(r))
  /\ \A o \in Operators : WF_engineVars(SignalSend(o))

Spec == Safety /\ Fairness
----------------------------------------------------------------------------
(* What the engine guarantees.                                             *)

Waiting == {r \in Requests : waiter[r] \in {"select", "deferred"}}

(* approval.go's pending map holds an entry exactly while the goroutine    *)
(* that stored it is still inside RequestApproval: no entry outlives its   *)
(* waiter (so no operator can decide a dead request), and no waiter loses  *)
(* its entry early (so GET /pending never hides one that can be decided).  *)
PendingWhileWaiting == pending = Waiting

(* Of several operators deciding the same request, the one whose send      *)
(* reached the channel first is the one RequestApproval obeys, however the *)
(* later calls and the timer interleave.                                   *)
FirstDecisionWins ==
  \A r \in Requests :
    outcome[r] \in {"approved", "denied"} =>
      first[r] # None /\ outcome[r] = Verdict[first[r]]

(* The strengthening that makes FirstDecisionWins inductive: while the     *)
(* waiter has not chosen, the channel holds the first decision and nothing *)
(* else; a call in flight is for a request that was opened.                *)
EngineInv ==
  /\ TypeOK
  /\ PendingWhileWaiting
  /\ FirstDecisionWins
  /\ \A r \in Requests :
       /\ waiter[r] = "idle" => decision[r] = None /\ first[r] = None
       /\ waiter[r] = "select" => decision[r] = first[r]
       /\ waiter[r] \in {"idle", "select"} => outcome[r] = None
       /\ waiter[r] \in {"deferred", "returned"} => outcome[r] # None
       /\ decision[r] # None => first[r] # None
  /\ \A o \in Operators : call[o] # NoCall => waiter[call[o].id] # "idle"

(* An operator's call never hangs, even for a request nobody waits for any *)
(* more: the purpose of signal's non-blocking send.                        *)
SignalReturns == \A o \in Operators : call[o] # NoCall ~> call[o] = NoCall

(* The comment in signal: "if the channel already has a value the request  *)
(* already resolved (timeout/cancel)".                                     *)
FullOnlyWhenResolved ==
  \A o \in Operators :
    call[o] # NoCall /\ decision[call[o].id] # None => outcome[call[o].id] # None

(* The engine implements ApprovalContract: resolved once, by the first     *)
(* decision, the deadline or the caller's departure, and always resolved.  *)
StatusOf(r) ==
  IF waiter[r] = "idle" THEN "unknown"
  ELSE IF outcome[r] # None THEN outcome[r]
  ELSE IF waiter[r] = "lost" THEN "lost"
  ELSE "open"

Contract == INSTANCE ApprovalContract
              WITH status <- [r \in Requests |-> StatusOf(r)], verdict <- first

ImplementsContract == Contract!Spec
=============================================================================
