------------------------------- MODULE MuleApp --------------------------------
(***************************************************************************)
(* What create_test_suite_from_application reads from the source of a Mule *)
(* application (src/api_log_test_mcp/tools/mule_app.py).                   *)
(*                                                                         *)
(* An application is a record of flows and error handlers, in document     *)
(* order.  A flow has the key <<method, path>> its APIkit name spells, or  *)
(* NoKey; its loggers; its own payload; and the arms of its choice.  A     *)
(* payload is <<>> where none is set, <<f>> for one with string fields f.  *)
(* An arm's guard "equals" compares a field of the request with a string,  *)
(* "other" is any other expression; its logger is "" where there is none.  *)
(***************************************************************************)
EXTENDS Sequences, SequencesExt, TLC

NoKey == <<>>
Empty == [k \in {} |-> ""]

\* parse_mule_app: the flows that implement an endpoint.
ApiFlows(app) == SelectSeq(app.flows, LAMBDA f : f.key # NoKey)

Endpoints(app) == [n \in DOMAIN ApiFlows(app) |-> ApiFlows(app)[n].key]

\* The endpoints, and the flows of one, where their order is of no account.
Keys(app) == {f.key : f \in Range(app.flows)} \ {NoKey}

Implementing(app, key) == {f \in Range(app.flows) : f.key = key}

\* A flow whose name differs in the content type only has the same key: its
\* facts replace those of the one before, if it has any.
FlowLoggers(app, key) ==
  LET talking == {n \in DOMAIN app.flows : app.flows[n].key = key /\ app.flows[n].loggers # {}}
  IN  IF talking = {} THEN {} ELSE app.flows[Max(talking)].loggers

\* _impl_flow_response: the first payload in document order; the choice comes last.
ImplFlowResponse(flow) ==
  LET arms == {n \in DOMAIN flow.choice : flow.choice[n].payload # <<>>}
  IN  CASE flow.payload # <<>>                -> flow.payload[1]
        [] flow.payload = <<>> /\ arms # {} -> flow.choice[Min(arms)].payload[1]
        [] OTHER                            -> Empty

FlowResponse(app, key) ==
  LET answering == {n \in DOMAIN app.flows : /\ app.flows[n].key = key
                                             /\ ImplFlowResponse(app.flows[n]) # Empty}
  IN  IF answering = {} THEN Empty ELSE ImplFlowResponse(app.flows[Max(answering)])

\* _parse_choice: an arm needs a logger, and a guard that can be read.
Branches(app, key) ==
  {arm \in UNION {Range(f.choice) : f \in Implementing(app, key)} :
     arm.logger # "" /\ arm.guard \in {"equals", "otherwise"}}

\* _parse_error_handler: a later handler of a status replaces an earlier.
ErrorEnvelope(app) ==
  FoldLeft(LAMBDA env, h : IF h.status # 0 /\ h.body # Empty
                           THEN (h.status :> h.body) @@ env ELSE env,
           [status \in {} |-> Empty], app.handlers)

=============================================================================
