----------------------------- MODULE MCAgentRun -----------------------------
(* An instance of AgentRun for TLC.                                          *)
EXTENDS AgentRun

CONSTANTS typecheck, acceptance

MCNeeds == (typecheck :> {1}) @@ (acceptance :> {1, 2})

Decided(content, tools) ==
  [content |-> content, tools |-> tools, finish |-> IF tools = <<>> THEN "stop" ELSE "tool_calls"]
MCCompletions ==
  {Decided("text", <<>>), Decided(None, <<"write">>), Decided("text", <<"wipe">>),
   Decided(None, <<"write", "wipe">>), Decided("text", <<"wipe", "write">>)}
MCWalls == {3, 20}
=============================================================================
