----------------------------- MODULE MCLlmCalls -----------------------------
(***************************************************************************)
(* LlmCalls on a small instance: a prompt with a system and a user item in *)
(* its context.                                                            *)
(***************************************************************************)
EXTENDS LlmCalls

CONSTANTS c1, c2

MCCalls == {c1, c2}
MCProviders == {"claude", "openai", "kimi"}
MCContext == <<"system", "user">>

=============================================================================
