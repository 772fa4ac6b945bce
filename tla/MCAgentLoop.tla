---------------------------- MODULE MCAgentLoop ----------------------------
(***************************************************************************)
(* The instance TLC checks: a short budget, so that the brake, the retry   *)
(* ladder and the Stop hooks all run out within it.                        *)
(***************************************************************************)
EXTENDS AgentLoop

\* The verifier comes before the user's hooks, as registered.
MCStopHooks == <<"verifier", "user">>

\* A first question alone, and with it a follow-up in a session with history.
MCFirst == {<<"user">>}
MCInitial == {<<"user">>, <<"user", "reply", "user">>}
=============================================================================
