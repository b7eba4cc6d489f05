-------------------------- MODULE MCAgentSessions --------------------------
(* Instance of AgentSessions for model checking.                           *)
EXTENDS AgentSessions

CONSTANTS a1, a2

\* One agent over both transports, one over a data channel.
MixedSlots == {<<"dc", a1>>, <<"ws", a1>>, <<"dc", a2>>}

=============================================================================
