------------------------- MODULE InferenceSchedulerMC -------------------------
(***************************************************************************)
(* Instances of InferenceScheduler for TLC: two queries of the inner OS,   *)
(* one of which can be revoked, and two summaries.                         *)
(***************************************************************************)
EXTENDS InferenceScheduler

CONSTANTS query1, query2, summary1, summary2

MCRequests == {query1, query2, summary1, summary2}
MCPriority == [r \in MCRequests |-> IF r \in {query1, query2} THEN 10 ELSE 100]
MCBackground == {summary1, summary2}
MCRevocable == {query2}
=============================================================================
