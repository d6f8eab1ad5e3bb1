---------------------------- MODULE MCA2AServer ----------------------------
(* Instances of A2AServer for TLC: which requests arrive, and on which tasks. *)
EXTENDS A2AServer, TLC

CONSTANTS r1, r2, r3, r4, taskA

MCOne == {r1}
MCTwo == {r1, r2}
MCThree == {r1, r2, r3}
MCFour == {r1, r2, r3, r4}
MCFirst == {r1}
MCSecond == {r2}
MCNone == {}
MCTasks == {taskA}
MCTarget == [r \in Requests |-> taskA]
MCThreads == Requests \X {"request", "handler"}
MCMessages == Requests
MCArtifacts == Requests \cup {Partial}
MCStates == TaskStates
MCCalls == StoreCalls

SendSend == (r1 :> "send" @@ r2 :> "send")
SendSendCancel == (r1 :> "send" @@ r2 :> "send" @@ r3 :> "cancel")
StreamSend == (r1 :> "stream" @@ r2 :> "send")
SendResub == (r1 :> "send" @@ r2 :> "resubscribe")
SendSendSetGet ==
    (r1 :> "send" @@ r2 :> "send" @@ r3 :> "push_set" @@ r4 :> "get")

MCInput == {"input-required"}
MCBoth == InterruptedStates
MCTalkMoves == {"ask", "complete", "return", "raise"}
MCAskFail == {"ask", "fail"}
MCLingerMoves == {"ask", "complete", "linger", "done"}
MCPushMoves == {"ask", "emit", "update", "complete", "fail", "cancel", "catch"}
MCUpdates == {"completed", "input-required"}
MCEnvAll == EnvEvents
MCTimeout == {"timeout"}
MCDeadline == {"deadline"}
MCDisconnect == {"disconnect"}
MCUnreachable == {"unreachable"}
=============================================================================
