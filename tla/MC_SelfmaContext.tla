-------------------------- MODULE MC_SelfmaContext --------------------------
(* Small instances of SelfmaContext for TLC.                                *)
EXTENDS SelfmaContext, TLC

\* Items are only compared: safety does not depend on which is which ...
AlikeItems == Permutations(Items)

\* ... and neither does it depend on which context is which.
AlikeAll == Permutations(Items) \cup Permutations(Ctx)

\* schema_meta is written and never read back: states that differ there only
\* have the same future.
ReadState == <<dbProjects, dbTasks, memory, control, history, faults>>
=============================================================================
