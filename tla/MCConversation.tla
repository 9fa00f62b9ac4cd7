--------------------------- MODULE MCConversation ---------------------------
(* Instances of Conversation for TLC. *)
EXTENDS Conversation

CONSTANTS synth, echo

In(from, to, challenge, score, tokens, override) ==
  [from |-> from, to |-> to, challenge |-> challenge, score |-> score, tokens |-> tokens,
   overrideTurn |-> override]

\* A challenge, whoever has the turn; a harmless answer in turn; a risky message of
\* a user; a system notice for the user.
FewInputs == {In(synth, echo, TRUE, 0, 1, TRUE), In(echo, synth, FALSE, 0, 1, FALSE),
              In(Human, synth, FALSE, 1, 1, FALSE),
              In(System, Human, FALSE, 0, 2, TRUE)}

\* The request names one to begin who is no participant, and who may join later.
Outsider == {[members |-> {synth}, first |-> echo]}
=============================================================================
