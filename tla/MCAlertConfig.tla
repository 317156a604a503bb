---------------------------- MODULE MCAlertConfig ----------------------------
(***************************************************************************)
(* Instances of AlertConfig for TLC.                                       *)
(***************************************************************************)
EXTENDS AlertConfig, TLC

CONSTANTS s1, s2, a1, g1, p1

Feishu(u, g) == [type |-> "Feishu", webhook |-> None, feishu |-> u, sign |-> g]

\* A Feishu Alert, unsigned or signed; an AIProvider with its section or without.
MCAlerts    == {Feishu(s1, None), Feishu(s1, s2)}
MCProviders == {[type |-> "Gemini", gemini |-> s1, openai |-> None],
                [type |-> "OpenAI", gemini |-> s1, openai |-> None]}
MCGroups    == {<<a1>>}

\* A group and its Alert with the first of two Secrets, or an AIProvider with it.
MCClusters == {{s1, a1, g1}, {s1, p1}}
=============================================================================
