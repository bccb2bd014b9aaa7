--------------------------- MODULE MCExecCommand ---------------------------
(***************************************************************************)
(* Two executions of a run.                                                *)
(***************************************************************************)
EXTENDS ExecCommand

\* The first command's two lines are enough for a second write, behind a
\* length that the next reset takes away; its third line is too long for the
\* scanner.  The second command's three leave one when a late write of the
\* first has made the buffer short under its second write.  The two streams
\* meet only in the process that writes, so one is enough.
MCWrites == <<<<"out", "out", "out">>, <<"out", "out", "out">>>>
MCLong   == {[exec |-> 1, no |-> 3]}
=============================================================================
