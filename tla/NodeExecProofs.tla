---------------------------- MODULE NodeExecProofs ----------------------------
(***************************************************************************)
(* Proofs about module NodeExec, for every RetryCount, every branch index  *)
(* and every limit on the depth of subflows.                               *)
(***************************************************************************)
EXTENDS NodeExec, SequenceTheorems, TLAPS

(***************************************************************************)
(* Where the execution is: before its result, in the body of a plain node  *)
(* or of a subflow, or with a finished result.                             *)
(***************************************************************************)
Unfinished == {"begin", "condition", "attempt", "fn", "wait", "fallback", "construct", "child"}
PlainBody  == {"attempt", "fn", "wait", "fallback", "route"}
Finished   == {"skip", "finalize", "send", "done"}
Earned     == {"Success", "Retried"}

ControlInv ==
    /\ pc = "condition" => node.condition
    /\ pc \in PlainBody => ~node.subflow
    /\ pc = "route" => node.route
    /\ pc \in {"construct", "child"} => node.subflow

(***************************************************************************)
(* The hooks called and the results sent so far are those of the place.    *)
(***************************************************************************)
HooksInv ==
    /\ sent = IF pc = "done" THEN 1 ELSE 0
    /\ pc = "begin" => hooks = <<>>
    /\ pc \in (Unfinished \cup {"route", "skip"}) \ {"begin"} => hooks = <<"before">>
    /\ pc = "skip" => nr.status = "Skipped"
    /\ pc = "finalize" =>
          hooks = IF nr.status = "Skipped" THEN <<"before", "skip">> ELSE <<"before">>
    /\ pc \in {"send", "done"} =>
          hooks = IF nr.status = "Skipped" THEN <<"before", "skip", "after">>
                                           ELSE <<"before", "after">>

(***************************************************************************)
(* attempt counts the calls of Fn.  A call that begins late leads out of   *)
(* the loop, since the context stays done.                                 *)
(***************************************************************************)
CallsInv ==
    /\ pc \in {"begin", "condition", "construct", "child"} => calls = 0 /\ attempt = 0
    /\ pc \in {"attempt", "wait"} => calls = attempt /\ lateCalls = 0
    /\ pc = "attempt" => attempt = 0 \/ attempt < maxAttempts
    /\ pc = "wait" => attempt > 0 /\ attempt < maxAttempts
    /\ pc = "fn" => calls = attempt + 1 /\ attempt < maxAttempts
    /\ pc = "fallback" => calls > 0
    /\ pc \in {"begin", "condition", "construct", "child"} => lateCalls = 0
    /\ lateCalls > 0 => ctxDone
    /\ lateCalls <= 1

(***************************************************************************)
(* The result says nothing before it is known, and then what happened.     *)
(***************************************************************************)
ResultInv ==
    /\ pc \in Unfinished => nr.status = "Running"
    /\ pc \in Unfinished \ {"fallback"} => nr.retryCount = 0 /\ lastErr = "nil"
    /\ pc \in Unfinished \cup {"route"} => nr.route = NoRoute /\ nr.error = "nil"
    /\ pc \in {"fallback", "route"} /\ calls > 0 =>
          nr.retryCount = calls - 1 /\ calls <= maxAttempts
    /\ pc = "route" =>
          /\ nr.status \in Earned
          /\ lastCall = "ok" \/ (calls = 0 /\ node.retry < 0)
          /\ nr.status = "Retried" => calls > 1 /\ lastErr = "nil"

FinishedInv ==
    pc \in Finished =>
        /\ nr.status # "Running"
        /\ calls > 0 /\ ~(nr.status = "Panicked" /\ nr.retryCount = 0) =>
              nr.retryCount = calls - 1 /\ calls <= maxAttempts
        /\ nr.status \in Earned =>
              nr.route \in IF node.route /\ ~node.subflow THEN RouteIndexes ELSE {NoRoute}
        /\ nr.status \notin Earned => nr.route = NoRoute
        /\ nr.status = "Skipped" => node.condition
        /\ ~node.subflow /\ nr.status \in Earned =>
              /\ nr.error = "nil"
              /\ lastCall = "ok" \/ (calls = 0 /\ node.retry < 0)
              /\ nr.status = "Retried" => calls > 1 /\ lastErr = "nil"

IndInv == TypeOK /\ ControlInv /\ HooksInv /\ CallsInv /\ ResultInv /\ FinishedInv

-----------------------------------------------------------------------------
LEMMA HookSequences ==
    /\ {<<>>, <<"before">>, <<"before", "skip">>, <<"before", "after">>,
        <<"before", "skip", "after">>} \subseteq Seq({"before", "skip", "after"})
    /\ Append(<<>>, "before") = <<"before">>
    /\ Append(<<"before">>, "skip") = <<"before", "skip">>
    /\ Append(<<"before">>, "after") = <<"before", "after">>
    /\ Append(<<"before", "skip">>, "after") = <<"before", "skip", "after">>
<1> DEFINE Hook == {"before", "skip", "after"}
<1>1. Append(<<>>, "before") = <<"before">>
  OBVIOUS
<1>2. ASSUME NEW h \in Hook PROVE Append(<<"before">>, h) = <<"before", h>>
  <2> DEFINE s == Append(<<"before">>, h)
             t == <<"before", h>>
  <2>1. <<"before">> \in Seq(Hook) /\ Len(<<"before">>) = 1 /\ <<"before">>[1] = "before"
    OBVIOUS
  <2>2. s \in Seq(Hook) /\ Len(s) = 2 /\ s[1] = "before" /\ s[2] = h
    BY <1>2, <2>1, AppendProperties
  <2>3. t \in Seq(Hook) /\ Len(t) = 2 /\ t[1] = "before" /\ t[2] = h
    BY <1>2
  <2> HIDE DEF s, t
  <2>4. \A i \in 1..2 : s[i] = t[i]
    BY <2>2, <2>3
  <2>5. s = t
    BY <2>2, <2>3, <2>4, SeqEqual
  <2> QED BY <2>5 DEF s, t
<1>3. Append(<<"before", "skip">>, "after") = <<"before", "skip", "after">>
  <2> DEFINE b == <<"before", "skip">>
             s == Append(b, "after")
             t == <<"before", "skip", "after">>
  <2>1. b \in Seq(Hook) /\ Len(b) = 2 /\ b[1] = "before" /\ b[2] = "skip"
    OBVIOUS
  <2>2. s \in Seq(Hook) /\ Len(s) = 3 /\ s[1] = "before" /\ s[2] = "skip" /\ s[3] = "after"
    BY <2>1, AppendProperties
  <2>3. t \in Seq(Hook) /\ Len(t) = 3 /\ t[1] = "before" /\ t[2] = "skip" /\ t[3] = "after"
    OBVIOUS
  <2> HIDE DEF b, s, t
  <2>4. \A i \in 1..3 : s[i] = t[i]
    BY <2>2, <2>3
  <2>5. s = t
    BY <2>2, <2>3, <2>4, SeqEqual
  <2> QED BY <2>5 DEF b, s, t
<1>4. <<>> \in Seq(Hook) /\ <<"before">> \in Seq(Hook)
  OBVIOUS
<1>5. <<"before", "skip">> \in Seq(Hook) /\ <<"before", "after">> \in Seq(Hook)
  OBVIOUS
<1>6. <<"before", "skip", "after">> \in Seq(Hook)
  OBVIOUS
<1> QED BY <1>1, <1>2, <1>3, <1>4, <1>5, <1>6

(***************************************************************************)
(* A node keeps its configuration.                                         *)
(***************************************************************************)
LEMMA NodeType ==
    ASSUME node \in NodeConfig
    PROVE  /\ node.retry \in Int /\ maxAttempts \in Int /\ maxAttempts = 1 + node.retry
           /\ node.condition \in BOOLEAN /\ node.route \in BOOLEAN
           /\ node.fallback \in BOOLEAN /\ node.subflow \in BOOLEAN
           /\ ~(node.condition /\ node.route)
<1>1. node.retry \in RetryCounts
  BY DEF NodeConfig
<1>2. node.retry \in Int
  BY <1>1, ExecAssumption DEF ExecAssumption
<1> QED BY <1>2 DEF NodeConfig, maxAttempts

LEMMA InitIndInv == Init => IndInv
<1> SUFFICES ASSUME Init PROVE IndInv
  OBVIOUS
<1>1. node \in NodeConfig
  BY DEF Init
<1>2. TypeOK
  BY <1>1, HookSequences DEF Init, TypeOK, Statuses, Errors, NoRoute
<1> QED
  BY <1>1, <1>2, NodeType DEF IndInv, ControlInv, HooksInv, CallsInv, ResultInv,
     FinishedInv, Init, Unfinished, PlainBody, Finished

-----------------------------------------------------------------------------
(***************************************************************************)
(* The configuration is constant and the context stays done.               *)
(***************************************************************************)
LEMMA Stays ==
    ASSUME IndInv, [Next]_vars
    PROVE  /\ node' = node /\ maxAttempts' = maxAttempts /\ (ctxDone => ctxDone')
           /\ ctxDone' \in BOOLEAN
BY DEF IndInv, TypeOK, Next, Execute, Retrying, Begin, ConditionMet, ConditionNotMet,
   OnNodeSkip, AfterNode, CallbackPanics, NoAttempt, StartAttempt, AttemptOk, AttemptFailsDone, AttemptFailsLast,
   AttemptFailsRetry, TimerFires, WaitCancelled, FallbackOk, FallbackFails, RouteReturns,
   Panics, ConstructionFails, EmptySubflow, LaunchChild, ChildReturns, Send, Cancel, Ended,
   Ends, hist, vars, maxAttempts

(***************************************************************************)
(* What the assignments to the result and finalize do.                     *)
(***************************************************************************)
Result ==
    [status : Statuses, retryCount : Int, route : RouteIndexes \cup {NoRoute},
     error : Errors, evaluated : BOOLEAN, matched : BOOLEAN]

LEMMA StatusSet ==
    ASSUME nr \in Result, NEW s \in Statuses, NEW e \in Errors
    PROVE  /\ Status(s, e) \in Result /\ Status(s, e).status = s /\ Status(s, e).error = e
           /\ Status(s, e).retryCount = nr.retryCount /\ Status(s, e).route = nr.route
BY DEF Status, Result

LEMMA Succeeded ==
    ASSUME nr \in Result, NEW k \in Int, Succeed(k)
    PROVE  /\ nr' \in Result /\ nr'.status = (IF k > 0 THEN "Retried" ELSE "Success")
           /\ nr'.retryCount = k /\ nr'.route = nr.route /\ nr'.error = nr.error
           /\ pc' = IF node.route THEN "route" ELSE "finalize"
BY DEF Succeed, Result, Statuses

LEMMA Exhausted ==
    ASSUME nr \in Result, NEW k \in Int, NEW e \in Errors, Exhaust(k, e)
    PROVE  /\ lastErr' = e /\ nr' \in Result /\ nr'.retryCount = k /\ nr'.route = nr.route
           /\ IF node.fallback
              THEN pc' = "fallback" /\ nr'.status = nr.status /\ nr'.error = nr.error
              ELSE pc' = "finalize" /\ nr'.status = "Failed" /\ nr'.error = e
<1> DEFINE r == [nr EXCEPT !.retryCount = k]
           f == [r EXCEPT !.status = "Failed", !.error = e]
<1>1. /\ r \in Result /\ r.status = nr.status /\ r.retryCount = k
      /\ r.route = nr.route /\ r.error = nr.error
  BY DEF Result
<1>2. /\ f \in Result /\ f.status = "Failed" /\ f.retryCount = k
      /\ f.route = nr.route /\ f.error = e
  BY <1>1 DEF Result, Statuses
<1>3. /\ lastErr' = e
      /\ IF node.fallback THEN nr' = r /\ pc' = "fallback" ELSE nr' = f /\ pc' = "finalize"
  BY DEF Exhaust, Finalize
<1> HIDE DEF r, f
<1> QED BY <1>1, <1>2, <1>3

(***************************************************************************)
(* A result that does not depend on Fn.                                    *)
(***************************************************************************)
LEMMA Concluded ==
    ASSUME nr \in Result, NEW s \in Statuses, NEW e \in Errors, Finalize(Status(s, e))
    PROVE  /\ nr' \in Result /\ nr'.status = s /\ nr'.error = e
           /\ nr'.retryCount = nr.retryCount /\ nr'.route = nr.route
           /\ pc' = "finalize"
BY StatusSet DEF Finalize

-----------------------------------------------------------------------------
LEMMA StepIndInv == ASSUME IndInv, [Next]_vars PROVE IndInv'
<1> USE DEF IndInv, ControlInv, HooksInv, CallsInv, ResultInv, FinishedInv, Unfinished,
        PlainBody, Finished, Earned
<1>a. node' = node /\ maxAttempts' = maxAttempts /\ (ctxDone => ctxDone') /\ ctxDone' \in BOOLEAN
  BY Stays
<1>b. /\ node.retry \in Int /\ maxAttempts \in Int /\ maxAttempts = 1 + node.retry
      /\ ~(node.condition /\ node.route) /\ node \in NodeConfig
  BY NodeType DEF TypeOK
<1>c. nr \in Result
  BY DEF TypeOK, Result
<1>d. /\ {"Success", "Retried", "Failed", "Panicked"} \subseteq Statuses
      /\ {"nil", "fn", "ctx", "panic", "construction", "invalid", "depth", "child"} \subseteq Errors
  BY DEF Statuses, Errors
<1> USE <1>a, <1>b DEF TypeOK
<1>1. CASE Begin
  BY <1>1, HookSequences DEF Begin, Body
<1>2. CASE ConditionMet
  BY <1>2, <1>c DEF ConditionMet, Body, hist, Result
<1>3. CASE ConditionNotMet
  <2>1. /\ nr' \in Result /\ nr'.status = "Skipped" /\ nr'.error = nr.error
        /\ nr'.retryCount = nr.retryCount /\ nr'.route = nr.route
    BY <1>3, <1>c DEF ConditionNotMet, Result, Statuses
  <2>2. /\ pc = "condition" /\ pc' = "skip"
        /\ UNCHANGED <<node, attempt, lastErr, ctxDone, sent, hist>>
    BY <1>3 DEF ConditionNotMet
  <2> QED BY <2>1, <2>2 DEF Result, hist
<1>4. CASE OnNodeSkip
  <2>1. /\ hooks' = <<"before", "skip">> /\ pc = "skip" /\ pc' = "finalize"
        /\ UNCHANGED <<node, attempt, lastErr, nr, ctxDone, sent, calls, lateCalls, lastCall>>
    BY <1>4, HookSequences DEF OnNodeSkip
  <2>2. hooks' \in Seq({"before", "skip", "after"})
    BY <2>1, HookSequences
  <2> QED BY <2>1, <2>2
<1>5. CASE NoAttempt
  <2>1. Succeed(maxAttempts - 1) /\ maxAttempts - 1 \in Int
    BY <1>5 DEF NoAttempt
  <2>2. /\ nr' \in Result /\ nr'.status = (IF maxAttempts - 1 > 0 THEN "Retried" ELSE "Success")
        /\ nr'.retryCount = maxAttempts - 1 /\ nr'.route = nr.route /\ nr'.error = nr.error
        /\ pc' = IF node.route THEN "route" ELSE "finalize"
    BY <1>c, <2>1, Succeeded
  <2>3. /\ pc = "attempt" /\ attempt >= maxAttempts
        /\ UNCHANGED <<node, attempt, lastErr, ctxDone, sent, hooks, calls, lateCalls, lastCall>>
    BY <1>5 DEF NoAttempt, hist
  <2>4. attempt = 0 /\ calls = 0 /\ node.retry < 0 /\ nr'.status = "Success"
    BY <2>2, <2>3
  <2> QED BY <2>2, <2>3, <2>4 DEF Result
<1>6. CASE StartAttempt
  BY <1>6 DEF StartAttempt
<1>7. CASE AttemptOk
  <2>1. Succeed(attempt) /\ attempt \in Int
    BY <1>7 DEF AttemptOk
  <2>2. /\ nr' \in Result /\ nr'.status = (IF attempt > 0 THEN "Retried" ELSE "Success")
        /\ nr'.retryCount = attempt /\ nr'.route = nr.route /\ nr'.error = nr.error
        /\ pc' = IF node.route THEN "route" ELSE "finalize"
    BY <1>c, <2>1, Succeeded
  <2> QED BY <1>7, <2>1, <2>2 DEF AttemptOk, Ends, Result
<1>8. CASE AttemptFailsDone
  <2>1. Exhaust(attempt, "fn") /\ attempt \in Int
    BY <1>8 DEF AttemptFailsDone
  <2>2. /\ lastErr' = "fn" /\ nr' \in Result /\ nr'.retryCount = attempt /\ nr'.route = nr.route
        /\ IF node.fallback
           THEN pc' = "fallback" /\ nr'.status = nr.status /\ nr'.error = nr.error
           ELSE pc' = "finalize" /\ nr'.status = "Failed" /\ nr'.error = "fn"
    BY <1>c, <1>d, <2>1, Exhausted
  <2> QED BY <1>8, <1>d, <2>1, <2>2 DEF AttemptFailsDone, Ends, Result
<1>9. CASE AttemptFailsLast
  <2>1. Exhaust(maxAttempts - 1, "fn") /\ maxAttempts - 1 \in Int
    BY <1>9 DEF AttemptFailsLast
  <2>2. /\ lastErr' = "fn" /\ nr' \in Result /\ nr'.retryCount = maxAttempts - 1 /\ nr'.route = nr.route
        /\ IF node.fallback
           THEN pc' = "fallback" /\ nr'.status = nr.status /\ nr'.error = nr.error
           ELSE pc' = "finalize" /\ nr'.status = "Failed" /\ nr'.error = "fn"
    BY <1>c, <1>d, <2>1, Exhausted
  <2> QED BY <1>9, <1>d, <2>1, <2>2, SMTT(30) DEF AttemptFailsLast, Ends, Result
<1>10. CASE AttemptFailsRetry
  BY <1>10 DEF AttemptFailsRetry, Ends
<1>11. CASE TimerFires
  BY <1>11 DEF TimerFires, hist
<1>12. CASE WaitCancelled
  <2>1. Exhaust(attempt - 1, "ctx") /\ attempt - 1 \in Int
    BY <1>12 DEF WaitCancelled
  <2>2. /\ lastErr' = "ctx" /\ nr' \in Result /\ nr'.retryCount = attempt - 1 /\ nr'.route = nr.route
        /\ IF node.fallback
           THEN pc' = "fallback" /\ nr'.status = nr.status /\ nr'.error = nr.error
           ELSE pc' = "finalize" /\ nr'.status = "Failed" /\ nr'.error = "ctx"
    BY <1>c, <1>d, <2>1, Exhausted
  <2> QED BY <1>12, <1>d, <2>1, <2>2 DEF WaitCancelled, hist, Ends, Result
<1>13. CASE FallbackOk
  <2>1. nr' = Status("Success", "nil") /\ pc' = IF node.route THEN "route" ELSE "finalize"
    BY <1>13 DEF FallbackOk
  <2>2. "Success" \in Statuses /\ "nil" \in Errors
    BY <1>d
  <2>3. /\ nr' \in Result /\ nr'.status = "Success" /\ nr'.error = "nil"
        /\ nr'.retryCount = nr.retryCount /\ nr'.route = nr.route
    BY <1>c, <2>1, <2>2, StatusSet
  <2> QED BY <1>13, <2>1, <2>3 DEF FallbackOk, Ends, Result
<1>14. CASE FallbackFails
  <2>1. Finalize(Status("Failed", lastErr))
    BY <1>14 DEF FallbackFails
  <2>2. lastErr \in Errors
    BY <1>d
  <2>3. /\ nr' \in Result /\ nr'.status = "Failed" /\ nr'.error = lastErr
        /\ nr'.retryCount = nr.retryCount /\ nr'.route = nr.route
        /\ pc' = "finalize"
    BY <1>c, <1>d, <2>1, <2>2, Concluded
  <2> QED BY <1>14, <2>1, <2>3 DEF FallbackFails, Ends, Result
<1>15. CASE RouteReturns
  <2>1. PICK i \in RouteIndexes : Finalize([nr EXCEPT !.route = i])
    BY <1>15 DEF RouteReturns
  <2>2. nr' = [nr EXCEPT !.route = i] /\ pc' = "finalize"
    BY <2>1 DEF Finalize
  <2>3. /\ nr' \in Result /\ nr'.status = nr.status /\ nr'.error = nr.error
        /\ nr'.retryCount = nr.retryCount /\ nr'.route = i
    BY <1>c, <2>2 DEF Result
  <2> QED BY <1>15, <2>2, <2>3 DEF RouteReturns, hist, Result
<1>16. CASE Panics
  <2>1. Finalize(Status("Panicked", "panic"))
    BY <1>16 DEF Panics
  <2>2. "panic" \in Errors
    BY <1>d
  <2>3. /\ nr' \in Result /\ nr'.status = "Panicked" /\ nr'.error = "panic"
        /\ nr'.retryCount = nr.retryCount /\ nr'.route = nr.route
        /\ pc' = "finalize"
    BY <1>c, <1>d, <2>1, <2>2, Concluded
  <2> QED BY <1>16, <2>1, <2>3 DEF Panics, Ends, Result
<1>17. CASE ConstructionFails
  <2>1. PICK s \in Statuses, e \in Errors :
            Finalize(Status(s, e)) /\ s \in {"Failed", "Panicked"} /\ (s = "Success" => e = "nil")
    BY <1>17, <1>d DEF ConstructionFails
  <2>2. /\ nr' \in Result /\ nr'.status = s /\ nr'.error = e
        /\ nr'.retryCount = nr.retryCount /\ nr'.route = nr.route
        /\ pc' = "finalize"
    BY <1>17, <1>c, <2>1, Concluded DEF ConstructionFails
  <2> QED BY <1>17, <2>1, <2>2 DEF ConstructionFails, Ends, Result
<1>18. CASE EmptySubflow
  <2>1. Finalize(Status("Success", "nil"))
    BY <1>18 DEF EmptySubflow
  <2>2. "nil" \in Errors
    BY <1>d
  <2>3. /\ nr' \in Result /\ nr'.status = "Success" /\ nr'.error = "nil"
        /\ nr'.retryCount = nr.retryCount /\ nr'.route = nr.route
        /\ pc' = "finalize"
    BY <1>c, <1>d, <2>1, <2>2, Concluded
  <2> QED BY <1>18, <2>1, <2>3 DEF EmptySubflow, Ends, Result
<1>19. CASE LaunchChild
  BY <1>19 DEF LaunchChild, Ends
<1>20. CASE ChildReturns
  <2>1. PICK s \in Statuses, e \in Errors :
            Finalize(Status(s, e)) /\ s \in {"Failed", "Panicked", "Success"} /\ (s = "Success" => e = "nil")
    BY <1>20, <1>d DEF ChildReturns
  <2>2. /\ nr' \in Result /\ nr'.status = s /\ nr'.error = e
        /\ nr'.retryCount = nr.retryCount /\ nr'.route = nr.route
        /\ pc' = "finalize"
    BY <1>20, <1>c, <2>1, Concluded DEF ChildReturns
  <2> QED BY <1>20, <2>1, <2>2 DEF ChildReturns, hist, Ends, Result
<1>21. CASE AfterNode
  <2>1. /\ hooks' = IF nr.status = "Skipped" THEN <<"before", "skip", "after">>
                                             ELSE <<"before", "after">>
        /\ pc = "finalize" /\ pc' = "send"
        /\ UNCHANGED <<node, attempt, lastErr, nr, ctxDone, sent, calls, lateCalls, lastCall>>
    BY <1>21, HookSequences DEF AfterNode
  <2>2. hooks' \in Seq({"before", "skip", "after"})
    BY <2>1, HookSequences
  <2> QED BY <2>1, <2>2
<1>22. CASE CallbackPanics
  BY <1>22 DEF CallbackPanics, hist
<1>23. CASE Send
  BY <1>23 DEF Send, hist
<1>24. CASE Cancel
  BY <1>24 DEF Cancel, hist
<1>25. CASE Ended
  BY <1>25 DEF Ended, hist, vars
<1>26. CASE UNCHANGED vars
  BY <1>26 DEF vars, hist
<1> QED
  BY <1>1, <1>2, <1>3, <1>4, <1>5, <1>6, <1>7, <1>8, <1>9, <1>10, <1>11, <1>12,
     <1>13, <1>14, <1>15, <1>16, <1>17, <1>18, <1>19, <1>20, <1>21, <1>22, <1>23, <1>24,
     <1>25, <1>26
  DEF Next, Execute, Retrying

-----------------------------------------------------------------------------
(***************************************************************************)
(* The invariant that the theorems below are read off from.                *)
(***************************************************************************)
THEOREM ExecInductive == Spec => []IndInv
<1>1. Init => IndInv
  BY InitIndInv
<1>2. IndInv /\ [Next]_vars => IndInv'
  BY StepIndInv
<1> QED BY <1>1, <1>2, PTL DEF Spec

(***************************************************************************)
(* Every variable of an execution keeps its type (engine.go:350-551).      *)
(***************************************************************************)
THEOREM TypeCorrect == Spec => []TypeOK
<1>1. IndInv => TypeOK
  BY DEF IndInv
<1> QED BY <1>1, ExecInductive, PTL

(***************************************************************************)
(* Whatever the budget of retries and however often the timer wins, Fn is  *)
(* called at most once after the context is done (engine.go:527-546).      *)
(***************************************************************************)
THEOREM LateAttempts == Spec => []OneLateAttempt
<1>1. IndInv => OneLateAttempt
  BY DEF IndInv, CallsInv, OneLateAttempt
<1> QED BY <1>1, ExecInductive, PTL

(***************************************************************************)
(* The retries reported are those performed, for every budget              *)
(* (engine.go:515-550).                                                    *)
(***************************************************************************)
THEOREM RetriesCounted == Spec => []RetriesReported
<1>1. IndInv => RetriesReported
  BY DEF IndInv, HooksInv, FinishedInv, Finished, RetriesReported
<1> QED BY <1>1, ExecInductive, PTL

(***************************************************************************)
(* One result and one pair of hooks on every path (engine.go:350-474).     *)
(***************************************************************************)
THEOREM HooksBracketed == Spec => []HooksBracket
<1>1. IndInv => HooksBracket
  BY DEF IndInv, HooksInv, Finished, HooksBracket
<1> QED BY <1>1, ExecInductive, PTL

(***************************************************************************)
(* The results are those that the event loop is proved about               *)
(* (engine.go:350-474).                                                    *)
(***************************************************************************)
THEOREM OutcomesOfLoop == Spec => []ReportsAnOutcome
<1>1. IndInv => ReportsAnOutcome
  <2> SUFFICES ASSUME IndInv, sent > 0 PROVE ReportsAnOutcome
    BY DEF ReportsAnOutcome
  <2>1. /\ pc \in Finished /\ nr.status \in Statuses /\ nr.status # "Running"
        /\ node.condition \in BOOLEAN
    BY NodeType DEF IndInv, TypeOK, HooksInv, FinishedInv, Finished
  <2>2. CASE nr.status \in Earned
    <3>1. Outcome = [status |-> "Success", route |-> nr.route]
      BY <2>2 DEF Outcome, Earned
    <3>2. nr.route \in IF node.route /\ ~node.subflow THEN RouteIndexes ELSE {NoRoute}
      BY <2>1, <2>2 DEF IndInv, FinishedInv
    <3> QED BY <3>1, <3>2 DEF ReportsAnOutcome
  <2>3. CASE nr.status \in {"Failed", "Panicked"}
    <3>1. nr.route = NoRoute
      BY <2>1, <2>3 DEF IndInv, FinishedInv, Earned
    <3>2. Outcome = [status |-> "Failed", route |-> NoRoute]
      BY <2>3, <3>1 DEF Outcome
    <3> QED BY <3>2 DEF ReportsAnOutcome
  <2>4. CASE nr.status = "Skipped"
    <3>1. nr.route = NoRoute /\ node.condition
      BY <2>1, <2>4 DEF IndInv, FinishedInv, Earned
    <3>2. Outcome = [status |-> "Skipped", route |-> NoRoute]
      BY <2>4, <3>1 DEF Outcome
    <3> QED BY <2>1, <3>1, <3>2 DEF ReportsAnOutcome
  <2> QED BY <2>1, <2>2, <2>3, <2>4 DEF Statuses, Earned
<1> QED BY <1>1, ExecInductive, PTL

(***************************************************************************)
(* No plain node is reported successful without a function that succeeded, *)
(* but for a negative RetryCount (engine.go:478-510).                      *)
(***************************************************************************)
THEOREM SuccessEarned == Spec => []SuccessIsEarned
<1>1. IndInv => SuccessIsEarned
  BY DEF IndInv, HooksInv, FinishedInv, Finished, Earned, SuccessIsEarned
<1> QED BY <1>1, ExecInductive, PTL
===============================================================================
