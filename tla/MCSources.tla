----------------------------- MODULE MCSources -----------------------------
(***************************************************************************)
(* A claude session of five records with a subagent that writes twice; two *)
(* pi sessions in two files of a header and three lines; two devin nodes.  *)
(***************************************************************************)
EXTENDS Sources

MCClaudeStarts ==
  {<<>>, "c1" :> [lines |-> <<"u1", "u2">>, tail |-> "ended", agent |-> 1]}

MCPiStarts ==
  {[p \in {1} |-> [lines |-> <<Header("s1"), Entry("e1", NoNode)>>,
                   tail |-> "ended", mtime |-> 0]]}

MCDevinStarts ==
  {{[EmptyRow("d1") EXCEPT !.head = "n1",
       !.nodes = [n \in {"n1"} |-> [parent |-> NoNode, kind |-> "prompt"]]]}}

MCKindOf ==
  [u1 |-> "prompt", u2 |-> "call", u3 |-> "result", u4 |-> "result", u5 |-> "blocks"]

MCRoleOf == [e1 |-> "reply", e2 |-> "call"]
=============================================================================
