------------------------------- MODULE NodeExec -------------------------------
(***************************************************************************)
(* One execution of a node: Engine.executeNode with executeWithRetries and *)
(* executeAttempt, from BeforeNode to the send of the NodeResult to doneCh *)
(* (by the worker, or by the goroutine of a subflow).  User functions      *)
(* return, fail or panic as they like; the context may be done at any time.*)
(* A panic of a hook or of a ConditionFn is caught by nobody: it ends the  *)
(* process, and only an execution with panics set may meet one.            *)
(* Module EventLoop takes the execution of a node as one of the outcomes   *)
(* that ReportsAnOutcome lists.                                            *)
(***************************************************************************)
EXTENDS Integers, Sequences

CONSTANTS
    RetryCounts,     (* the values Node.RetryCount may have                 *)
    RouteIndexes,    (* the indexes a RouteFn may return                    *)
    MaxSubflowDepth  (* Engine.maxSubflowDepth                              *)

ASSUME ExecAssumption ==
    /\ RetryCounts \subseteq Int
    /\ RouteIndexes \subseteq Int
    /\ MaxSubflowDepth \in Nat

NoRoute == -1

(***************************************************************************)
(* A node, as far as its execution depends on it, and whether its          *)
(* ConditionFn or a hook called for it may panic.  Validate rejects a node *)
(* with both a ConditionFn and a RouteFn.                                  *)
(***************************************************************************)
NodeConfig ==
    {c \in [retry : RetryCounts, condition : BOOLEAN, route : BOOLEAN,
            fallback : BOOLEAN, subflow : BOOLEAN, depth : 0..MaxSubflowDepth,
            panics : BOOLEAN] :
        ~(c.condition /\ c.route)}

Statuses == {"Running", "Success", "Retried", "Failed", "Skipped", "Panicked"}
Errors   == {"nil", "fn", "ctx", "panic", "construction", "invalid", "depth", "child"}

VARIABLES
    node,      (* the node, constant                                        *)
    pc,        (* the statement of executeNode that comes next              *)
    attempt,   (* the loop variable of executeWithRetries                   *)
    lastErr,   (* the error it returned                                     *)
    nr,        (* the NodeResult                                            *)
    ctxDone,   (* the context of the DAG is done                            *)
    sent,      (* sends of nr to doneCh                                     *)
    hooks,     (* history: the hooks that returned                          *)
    calls,     (* history: calls of Fn                                      *)
    lateCalls, (* history: calls of Fn begun with the context done          *)
    lastCall   (* history: how the last user function ended                 *)

hist == <<hooks, calls, lateCalls, lastCall>>
vars == <<node, pc, attempt, lastErr, nr, ctxDone, sent, hist>>

maxAttempts == 1 + node.retry

Init ==
    /\ node \in NodeConfig
    /\ pc = "begin"
    /\ attempt = 0
    /\ lastErr = "nil"
    /\ nr = [status |-> "Running", retryCount |-> 0, route |-> NoRoute, error |-> "nil",
             evaluated |-> FALSE, matched |-> FALSE]
    /\ ctxDone \in BOOLEAN
    /\ sent = 0
    /\ hooks = <<>>
    /\ calls = 0
    /\ lateCalls = 0
    /\ lastCall = "none"

-----------------------------------------------------------------------------
Body == IF node.subflow THEN "construct" ELSE "attempt"

Finalize(result) == nr' = result /\ pc' = "finalize"

Status(s, e) == [nr EXCEPT !.status = s, !.error = e]

Ends(how) == lastCall' = how /\ UNCHANGED <<node, ctxDone, sent, hooks, calls, lateCalls>>

(***************************************************************************)
(* BeforeNode.                                                             *)
(***************************************************************************)
Begin ==
    /\ pc = "begin"
    /\ hooks' = Append(hooks, "before")
    /\ pc' = IF node.condition THEN "condition" ELSE Body
    /\ UNCHANGED <<node, attempt, lastErr, nr, ctxDone, sent, calls, lateCalls, lastCall>>

ConditionMet ==
    /\ pc = "condition"
    /\ nr' = [nr EXCEPT !.evaluated = TRUE, !.matched = TRUE]
    /\ pc' = Body
    /\ UNCHANGED <<node, attempt, lastErr, ctxDone, sent, hist>>

ConditionNotMet ==
    /\ pc = "condition"
    /\ nr' = [nr EXCEPT !.evaluated = TRUE, !.status = "Skipped"]
    /\ pc' = "skip"
    /\ UNCHANGED <<node, attempt, lastErr, ctxDone, sent, hist>>

(* A fault: finalize is not called.                                        *)
OnNodeSkipUnfinished ==
    /\ pc = "skip"
    /\ hooks' = Append(hooks, "skip")
    /\ pc' = "send"
    /\ UNCHANGED <<node, attempt, lastErr, nr, ctxDone, sent, calls, lateCalls, lastCall>>

OnNodeSkip ==
    /\ pc = "skip"
    /\ hooks' = Append(hooks, "skip")
    /\ pc' = "finalize"
    /\ UNCHANGED <<node, attempt, lastErr, nr, ctxDone, sent, calls, lateCalls, lastCall>>

(***************************************************************************)
(* finalize: AfterNode sees the finished result, which is then sent.       *)
(***************************************************************************)
AfterNode ==
    /\ pc = "finalize"
    /\ hooks' = Append(hooks, "after")
    /\ pc' = "send"
    /\ UNCHANGED <<node, attempt, lastErr, nr, ctxDone, sent, calls, lateCalls, lastCall>>

(***************************************************************************)
(* The hooks and ConditionFn are called outside every recover (the deferred*)
(* functions have recovered when they call AfterNode): a panic of one ends *)
(* the process.                                                            *)
(***************************************************************************)
CallbackPanics ==
    /\ node.panics
    /\ pc \in {"begin", "condition", "skip", "finalize"}
    /\ pc' = "crashed"
    /\ UNCHANGED <<node, attempt, lastErr, nr, ctxDone, sent, hist>>

-----------------------------------------------------------------------------
(* executeWithRetries returned without, and with, an error.                *)

Succeed(retries) ==
    /\ nr' = [nr EXCEPT !.retryCount = retries,
                        !.status = IF retries > 0 THEN "Retried" ELSE "Success"]
    /\ pc' = IF node.route THEN "route" ELSE "finalize"

Exhaust(retries, e) ==
    LET result == [nr EXCEPT !.retryCount = retries]
    IN /\ lastErr' = e
       /\ IF node.fallback
          THEN nr' = result /\ pc' = "fallback"
          ELSE Finalize([result EXCEPT !.status = "Failed", !.error = e])

(***************************************************************************)
(* The loop body is never entered: only a negative RetryCount does this.   *)
(***************************************************************************)
NoAttempt ==
    /\ pc = "attempt"
    /\ attempt >= maxAttempts
    /\ Succeed(maxAttempts - 1)
    /\ UNCHANGED <<node, attempt, lastErr, ctxDone, sent, hist>>

StartAttempt ==
    /\ pc = "attempt"
    /\ attempt < maxAttempts
    /\ pc' = "fn"
    /\ calls' = calls + 1
    /\ lateCalls' = IF ctxDone THEN lateCalls + 1 ELSE lateCalls
    /\ UNCHANGED <<node, attempt, lastErr, nr, ctxDone, sent, hooks, lastCall>>

AttemptOk ==
    /\ pc = "fn"
    /\ Succeed(attempt)
    /\ Ends("ok")
    /\ UNCHANGED <<attempt, lastErr>>

(***************************************************************************)
(* Don't retry if context is already done.                                 *)
(***************************************************************************)
AttemptFailsDone ==
    /\ pc = "fn"
    /\ ctxDone
    /\ Exhaust(attempt, "fn")
    /\ Ends("error")
    /\ UNCHANGED attempt

(* A fault: the error of the last attempt is lost.                         *)
AttemptFailsLastUnnoticed ==
    /\ pc = "fn"
    /\ ~ctxDone
    /\ attempt + 1 >= maxAttempts
    /\ Succeed(maxAttempts - 1)
    /\ Ends("error")
    /\ UNCHANGED <<attempt, lastErr>>

AttemptFailsLast ==
    /\ pc = "fn"
    /\ ~ctxDone
    /\ attempt + 1 >= maxAttempts
    /\ Exhaust(maxAttempts - 1, "fn")
    /\ Ends("error")
    /\ UNCHANGED attempt

(* A fault: the context is not looked at after an attempt.                 *)
AttemptFailsRetryAnyhow ==
    /\ pc = "fn"
    /\ attempt + 1 < maxAttempts
    /\ attempt' = attempt + 1
    /\ pc' = "wait"
    /\ Ends("error")
    /\ UNCHANGED <<lastErr, nr>>

(* A fault: attempts are counted down.                                     *)
AttemptFailsRetryDown ==
    /\ pc = "fn"
    /\ ~ctxDone
    /\ attempt + 1 < maxAttempts
    /\ attempt' = attempt - 1
    /\ pc' = "wait"
    /\ Ends("error")
    /\ UNCHANGED <<lastErr, nr>>

AttemptFailsRetry ==
    /\ pc = "fn"
    /\ ~ctxDone
    /\ attempt + 1 < maxAttempts
    /\ attempt' = attempt + 1
    /\ pc' = "wait"
    /\ Ends("error")
    /\ UNCHANGED <<lastErr, nr>>

(***************************************************************************)
(* select between the retry timer and the context.                         *)
(***************************************************************************)
TimerFires ==
    /\ pc = "wait"
    /\ pc' = "attempt"
    /\ UNCHANGED <<node, attempt, lastErr, nr, ctxDone, sent, hist>>

(* A fault: the attempt that did not take place is counted.                *)
WaitCancelledCounted ==
    /\ pc = "wait"
    /\ ctxDone
    /\ Exhaust(attempt, "ctx")
    /\ UNCHANGED <<node, attempt, ctxDone, sent, hist>>

WaitCancelled ==
    /\ pc = "wait"
    /\ ctxDone
    /\ Exhaust(attempt - 1, "ctx")
    /\ UNCHANGED <<node, attempt, ctxDone, sent, hist>>

FallbackOk ==
    /\ pc = "fallback"
    /\ nr' = Status("Success", "nil")
    /\ pc' = IF node.route THEN "route" ELSE "finalize"
    /\ Ends("ok")
    /\ UNCHANGED <<attempt, lastErr>>

(* A fault: a failed node is routed.                                       *)
FallbackFailsAndRoutes ==
    /\ pc = "fallback"
    /\ nr' = Status("Failed", lastErr)
    /\ pc' = IF node.route THEN "route" ELSE "finalize"
    /\ Ends("error")
    /\ UNCHANGED <<attempt, lastErr>>

FallbackFails ==
    /\ pc = "fallback"
    /\ Finalize(Status("Failed", lastErr))
    /\ Ends("error")
    /\ UNCHANGED <<attempt, lastErr>>

RouteReturns ==
    /\ pc = "route"
    /\ \E i \in RouteIndexes : Finalize([nr EXCEPT !.route = i])
    /\ UNCHANGED <<node, attempt, lastErr, ctxDone, sent, hist>>

(* A fault: nothing recovers from a panic.                                 *)
PanicsUnrecovered ==
    /\ pc \in {"fn", "fallback", "route"}
    /\ pc' = "crashed"
    /\ Ends("panic")
    /\ UNCHANGED <<attempt, lastErr, nr>>

(***************************************************************************)
(* The deferred recover around the retries, the fallback and the RouteFn.  *)
(***************************************************************************)
Panics ==
    /\ pc \in {"fn", "fallback", "route"}
    /\ Finalize(Status("Panicked", "panic"))
    /\ Ends("panic")
    /\ UNCHANGED <<attempt, lastErr>>

-----------------------------------------------------------------------------
(***************************************************************************)
(* SubflowFn returns an error or panics, returns nil, or returns a DAG that*)
(* is invalid or nested too deep.                                          *)
(***************************************************************************)
ConstructionFails ==
    /\ pc = "construct"
    /\ \/ Finalize(Status("Panicked", "panic")) /\ Ends("panic")
       \/ Finalize(Status("Failed", "construction")) /\ Ends("error")
       \/ Finalize(Status("Failed", "invalid")) /\ Ends("ok")
       \/ node.depth >= MaxSubflowDepth /\ Finalize(Status("Failed", "depth")) /\ Ends("ok")
    /\ UNCHANGED <<attempt, lastErr>>

EmptySubflow ==
    /\ pc = "construct"
    /\ Finalize(Status("Success", "nil"))
    /\ Ends("ok")
    /\ UNCHANGED <<attempt, lastErr>>

(***************************************************************************)
(* The child DAG is started in a goroutine; executeNode returns nil.       *)
(***************************************************************************)
LaunchChild ==
    /\ pc = "construct"
    /\ node.depth < MaxSubflowDepth
    /\ pc' = "child"
    /\ Ends("ok")
    /\ UNCHANGED <<attempt, lastErr, nr>>

ChildReturns ==
    /\ pc = "child"
    /\ \/ Finalize(Status("Success", "nil"))
       \/ Finalize(Status("Failed", "child"))
       \/ Finalize(Status("Panicked", "panic"))
    /\ UNCHANGED <<node, attempt, lastErr, ctxDone, sent, hist>>

-----------------------------------------------------------------------------
Send ==
    /\ pc = "send"
    /\ sent' = sent + 1
    /\ pc' = "done"
    /\ UNCHANGED <<node, attempt, lastErr, nr, ctxDone, hist>>

(***************************************************************************)
(* The context of the DAG is cancelled or times out.                       *)
(***************************************************************************)
Cancel ==
    /\ ~ctxDone
    /\ ctxDone' = TRUE
    /\ UNCHANGED <<node, pc, attempt, lastErr, nr, sent, hist>>

Ended == pc \in {"done", "crashed"} /\ UNCHANGED vars

Retrying ==
    \/ NoAttempt \/ StartAttempt \/ AttemptOk
    \/ AttemptFailsDone \/ AttemptFailsLast \/ AttemptFailsRetry
    \/ TimerFires \/ WaitCancelled

Execute ==
    \/ Begin \/ ConditionMet \/ ConditionNotMet \/ OnNodeSkip
    \/ Retrying
    \/ FallbackOk \/ FallbackFails \/ RouteReturns \/ Panics
    \/ ConstructionFails \/ EmptySubflow \/ LaunchChild \/ ChildReturns
    \/ AfterNode \/ CallbackPanics \/ Send

Next == Execute \/ Cancel \/ Ended

Spec == Init /\ [][Next]_vars

(***************************************************************************)
(* User functions, hooks and child DAGs return or panic; timers fire.      *)
(***************************************************************************)
FairSpec == Spec /\ WF_vars(Execute)

-----------------------------------------------------------------------------
(* The type of every variable.                                             *)
TypeOK ==
    /\ node \in NodeConfig
    /\ pc \in {"begin", "condition", "skip", "attempt", "fn", "wait", "fallback", "route",
               "construct", "child", "finalize", "send", "done", "crashed"}
    /\ attempt \in Nat
    /\ lastErr \in Errors
    /\ nr \in [status : Statuses, retryCount : Int, route : RouteIndexes \cup {NoRoute},
               error : Errors, evaluated : BOOLEAN, matched : BOOLEAN]
    /\ ctxDone \in BOOLEAN
    /\ sent \in Nat
    /\ hooks \in Seq({"before", "skip", "after"})
    /\ calls \in Nat
    /\ lateCalls \in Nat
    /\ lastCall \in {"none", "ok", "error", "panic"}

(***************************************************************************)
(* Of the calls of Fn, at most one begins after the context is done: the   *)
(* timer may win its race with the context once, and the check after the   *)
(* attempt stops the loop (engine.go:527-546).                             *)
(***************************************************************************)
OneLateAttempt == lateCalls <= 1

(***************************************************************************)
(* Unless Fn itself panicked, RetryCount is the number of retries          *)
(* performed, whichever of the five ways the loop ended, and within the    *)
(* budget (engine.go:515-550).                                             *)
(***************************************************************************)
RetriesReported ==
    sent > 0 /\ calls > 0 /\ ~(nr.status = "Panicked" /\ nr.retryCount = 0) =>
        /\ nr.retryCount = calls - 1
        /\ calls <= maxAttempts

(***************************************************************************)
(* The result is sent exactly once, on every path of executeNode that no   *)
(* panic of a hook or a ConditionFn cuts off, after one BeforeNode and one *)
(* AfterNode, with OnNodeSkip between them exactly for a skipped node      *)
(* (engine.go:350-368, 439, 461-474).                                      *)
(***************************************************************************)
HooksBracket ==
    pc = "done" =>
        /\ sent = 1
        /\ hooks = IF nr.status = "Skipped" THEN <<"before", "skip", "after">>
                                            ELSE <<"before", "after">>

(***************************************************************************)
(* The result is one of the outcomes the event loop is modelled with: a    *)
(* branch index only from a plain node that succeeded, Skipped only from a *)
(* node with a condition (EventLoop!Outcomes and ChildOutcomes).           *)
(***************************************************************************)
Outcome ==
    [status |-> CASE nr.status \in {"Success", "Retried"} -> "Success"
                  [] nr.status \in {"Failed", "Panicked"} -> "Failed"
                  [] OTHER -> nr.status,
     route  |-> nr.route]

ReportsAnOutcome ==
    sent > 0 =>
        Outcome \in
            {[status |-> "Success", route |-> i] :
                i \in IF node.route /\ ~node.subflow THEN RouteIndexes ELSE {NoRoute}}
            \cup {[status |-> "Skipped", route |-> NoRoute] : c \in {TRUE} \cap {node.condition}}
            \cup {[status |-> "Failed", route |-> NoRoute]}

(***************************************************************************)
(* A plain node is reported successful only if Fn, or after it the         *)
(* fallback, returned nil, and Retried only if a retry of Fn did; the only *)
(* exception is a negative RetryCount, with which Fn is never called       *)
(* (engine.go:478-510).                                                    *)
(***************************************************************************)
SuccessIsEarned ==
    sent > 0 /\ ~node.subflow /\ nr.status \in {"Success", "Retried"} =>
        /\ nr.error = "nil"
        /\ lastCall = "ok" \/ (calls = 0 /\ node.retry < 0)
        /\ nr.status = "Retried" => calls > 1 /\ lastErr = "nil"

(***************************************************************************)
(* An execution whose ConditionFn and hooks do not panic sends its result, *)
(* once: whatever Fn, FallbackFn, RouteFn, SubflowFn and the child DAG do, *)
(* a panic included, and whenever the context ends.  One with such a panic *)
(* ends the process: PanicsAreRecovered (engine.go:350-474).               *)
(***************************************************************************)
Completes == ~node.panics ~> sent = 1

(***************************************************************************)
(* RetryCount is the "number of retries actually performed"                *)
(* (result.go:16), in the result that is sent and in the one that AfterNode*)
(* is given (a panic after a call of Fn is one of AfterNode).  False when  *)
(* Fn panics on a retry: the count is assigned after executeWithRetries    *)
(* returns, which the panic skips.                                         *)
(***************************************************************************)
RetryCountIsActual == (sent > 0 \/ pc = "crashed") /\ calls > 0 => nr.retryCount = calls - 1

(***************************************************************************)
(* "executeNode runs a single node with panic recovery, condition          *)
(* checking, retry logic, fallback handling, and subflow execution"        *)
(* (engine.go:324), and no callback of the user may bring down the process *)
(* (docs/risk-and-performance-optimization.md:449).  False: ConditionFn    *)
(* and the hooks are called outside the recovers.                          *)
(***************************************************************************)
PanicsAreRecovered == pc # "crashed"

(***************************************************************************)
(* Both of these promises are kept, so at any time one of them is.  False: *)
(* a retry panics, AfterNode is given a result without its retries, and    *)
(* panics in its turn.                                                     *)
(***************************************************************************)
APromiseOnPanicsHolds == PanicsAreRecovered \/ RetryCountIsActual
=============================================================================
