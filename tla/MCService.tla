------------------------------ MODULE MCService ------------------------------
(***************************************************************************)
(* Service for TLC: two processes of the service, the second one started   *)
(* when the first has reported its end, and one program at a prompt, which *)
(* may run in the session of the services or in another; elsewhere than on *)
(* Windows, where there are no services, two programs at a prompt.         *)
(***************************************************************************)
EXTENDS Service

CONSTANTS c1, c2, s1, s2

Prompts == {c1, c2}

OnePrompt == {c1}

ServiceProcs == {s1, s2}

Nobody == {}

TwoSessions == {0, 1}

OneSession == {0}

\* Bound of the run that holds: a second program is started elsewhere only.
SecondPromptElsewhere == windows => pc[c2] = "off"

=============================================================================
