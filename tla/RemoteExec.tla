------------------------------ MODULE RemoteExec ------------------------------
(***************************************************************************)
(* What a remote command promises its caller: the outcomes RemoteTransfer  *)
(* gives to every command it runs.                                         *)
(***************************************************************************)

VARIABLES
  result,   \* none yet, "whole", "error", or "cut": Ok for part of the work
  hidden    \* something went wrong that the caller is not told

execVars == <<result, hidden>>

Init == result = "none" /\ hidden = FALSE

Hide == hidden' = TRUE /\ UNCHANGED result

\* The call returns once.
Return ==
  /\ result = "none"
  /\ result' \in {"whole", "error"} \cup (IF hidden THEN {"cut"} ELSE {})
  /\ UNCHANGED hidden

\* A command that was cut off from its caller may still come to its end.
Settle == result = "cut" /\ result' = "whole" /\ UNCHANGED hidden

Next == Hide \/ Return \/ Settle

Spec     == Init /\ [][Next]_execVars
FairSpec == Spec /\ WF_execVars(Return)
==============================================================================
