--------------------------- MODULE MCPipeCommand ---------------------------
(***************************************************************************)
(* A pipe of three stages over kernel pipes that hold two lines.  The      *)
(* first stage writes five lines, the second is content with four of them, *)
(* the third would read more than there are.                               *)
(***************************************************************************)
EXTENDS PipeCommand

MCTakes == <<5, 4, 9>>
=============================================================================
