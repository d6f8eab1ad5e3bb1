----------------------------- MODULE MCTaskStore -----------------------------
(* Instances of TaskStore for TLC. *)
EXTENDS TaskStore, TLC

CONSTANTS t1, t2, t3, task, m1, m2, artifact

MCThreads == {t1, t2, t3}
MCTwoThreads == {t1, t2}
MCTasks == {task}
MCMessages == {m1}
MCTwoMessages == {m1, m2}
MCArtifacts == {artifact}
MCNone == {}

MCOneState == {"completed"}
MCStates == {"completed", "working"}
MCInterrupted == {"input-required"}

MCSuspendCalls == {"get_or_create", "suspend", "resume"}
MCSlotCalls == MCSuspendCalls \cup {"set_state"}
MCAllCalls == StoreCalls

MCEnvAll == EnvEvents
MCEnvNoIdle == {"retention", "timeout", "shutdown"}

SlotSymmetry == Permutations(MCThreads) \cup Permutations(MCTwoMessages)
=============================================================================
