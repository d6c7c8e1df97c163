------------------------------ MODULE MCNodeExec ------------------------------
(***************************************************************************)
(* Every kind of node, with no, one and two retries and with a RetryCount  *)
(* below zero, at every depth up to the limit.                             *)
(***************************************************************************)
EXTENDS NodeExec

FewRetries == {-1, 0, 1, 2}
TwoRoutes  == {-1, 0}
==============================================================================
