-------------------------- MODULE MCCommandStream --------------------------
(* Two streams and pipes of one chunk, so that commands block, and a tail  *)
(* of one chunk, so that error text is cut.                                *)
EXTENDS CommandStream, TLC

CONSTANTS a, b

Cmd(j, o, e, r, c, i) ==
  [job |-> j, out |-> o, err |-> e, redirects |-> r, code |-> c, ignores |-> i]

\* Commands the shell is replaced by: one that fills its pipe, and one that fills
\* its standard error, ignores SIGTERM and fails.
Plain == Cmd(FALSE, 2, 0, FALSE, 0, FALSE)
Failing == Cmd(FALSE, 0, 2, FALSE, 1, TRUE)
\* Jobs: one that does not fill its pipe, one whose standard error is redirected,
\* and one that fills its pipe.
Short == Cmd(TRUE, 1, 0, FALSE, 0, FALSE)
Silent == Cmd(TRUE, 0, 0, TRUE, 0, FALSE)
Long == Cmd(TRUE, 2, 0, FALSE, 0, FALSE)

Both(x, y) == (a :> x) @@ (b :> y)
MCCommands ==
  {Both(x, y) : x \in {Plain, Short}, y \in {Plain, Failing, Short, Silent}}

MCJobs == {Both(Long, Long)}
=============================================================================
