---------------------------- MODULE AtomicManifest ----------------------------
(***************************************************************************)
(* What the copy manifest promises to the code that uses it: a save takes  *)
(* effect at once or not at all, and a load gives back the manifest saved  *)
(* last, one saved earlier after a power loss, or an empty one.            *)
(***************************************************************************)
CONSTANTS Value,     \* what a manifest may list
          Empty      \* a new manifest

VARIABLES
  stored,   \* the manifest the next run would load
  mem,      \* the manifest of the running process
  running,  \* whether there is one
  saved     \* every manifest saved so far

atomicVars == <<stored, mem, running, saved>>

Init == stored = Empty /\ mem = Empty /\ running = FALSE /\ saved = {}

Load ==
  /\ ~running
  /\ running' = TRUE
  /\ \/ mem' = stored /\ UNCHANGED stored
     \/ mem' = Empty /\ stored' \in {stored, Empty}
  /\ UNCHANGED saved

Change == running /\ mem' \in Value /\ UNCHANGED <<stored, running, saved>>

Save ==
  /\ running
  /\ stored' = mem
  /\ saved' = saved \cup {mem}
  /\ UNCHANGED <<mem, running>>

\* The process ends, dropping the manifest or leaving it to a later run.
End ==
  /\ running
  /\ running' = FALSE
  /\ stored' \in {stored, Empty}
  /\ UNCHANGED <<mem, saved>>

PowerLoss ==
  /\ running' = FALSE
  /\ stored' \in saved \cup {stored, Empty}
  /\ UNCHANGED <<mem, saved>>

Next == Load \/ Change \/ Save \/ End \/ PowerLoss

Spec == Init /\ [][Next]_atomicVars
================================================================================
