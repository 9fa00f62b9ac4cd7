-------------------------- MODULE MCWorkflowMacros --------------------------
(***************************************************************************)
(* Workflows that between them have a batch of two items with two workers, *)
(* parallel commands, a repeated command, retries at once and after a      *)
(* delay, commands that are not idempotent or give their own key, and each *)
(* way of undoing and of going on after an error.                          *)
(***************************************************************************)
EXTENDS WorkflowMacros

\* A command with the default keys.
Cmd(name, idempotent, attempts, undo) ==
  [key |-> [text |-> name, scope |-> "step"], idempotent |-> idempotent, maxAttempts |-> attempts,
   backoff |-> TRUE, undo |-> undo, undoKey |-> [text |-> name, scope |-> "step"]]
Plain(commands, parallel, onError, own) ==
  [parallel |-> parallel, commands |-> commands, items |-> 1, concurrency |-> 1,
   continueOnItemFailure |-> FALSE, rollback |-> own, onError |-> onError]
Batch(commands, items, workers, goOn, onError) ==
  [parallel |-> FALSE, commands |-> commands, items |-> items, concurrency |-> workers,
   continueOnItemFailure |-> goOn, rollback |-> FALSE, onError |-> onError]

a == Cmd("a", TRUE, 2, "handler")
b == Cmd("b", FALSE, 1, "handler")
c == Cmd("c", TRUE, 1, "command")
d == Cmd("d", TRUE, 1, "none")
\* With a key of its own, which its rollback command shares; tried again at once.
once == [Cmd("once", TRUE, 2, "handler") EXCEPT !.backoff = FALSE, !.key.scope = "run"]
each == [Cmd("each", TRUE, 1, "command") EXCEPT !.key.scope = "item", !.undoKey.scope = "item"]

MCWorkflows == {
  [rollbackOnFailure |-> TRUE,
   steps |-> <<Batch(<<a, c>>, 2, 2, FALSE, "abort"), Plain(<<a, b>>, TRUE, "abort", TRUE),
               Plain(<<d>>, FALSE, "rollback", FALSE)>>],
  [rollbackOnFailure |-> FALSE,
   steps |-> <<Plain(<<a, b, a>>, FALSE, "abort", FALSE), Batch(<<b>>, 3, 2, TRUE, "rollback"),
               Plain(<<a, b>>, TRUE, "rollback", FALSE)>>],
  [rollbackOnFailure |-> TRUE,
   steps |-> <<Batch(<<a>>, 0, 1, FALSE, "abort"), Plain(<<a, b>>, FALSE, "continue", TRUE),
               Batch(<<a, b>>, 3, 2, FALSE, "abort")>>],
  [rollbackOnFailure |-> TRUE,
   steps |-> <<Plain(<<once>>, FALSE, "continue", FALSE), Batch(<<once, each>>, 2, 2, FALSE, "abort"),
               Plain(<<each, b>>, TRUE, "rollback", FALSE)>>]}
=============================================================================
