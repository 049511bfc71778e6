----------------------------- MODULE MCAgentRun -----------------------------
(***************************************************************************)
(* The detailed agent of AgentRun implements MessageDelivery: a message    *)
(* waits in the loop's pending list or in its queue.                       *)
(***************************************************************************)
EXTENDS AgentRun

Waiting == [source \in Origin |->
    {m \in Range(pending) : origin[m] = source}
    \cup CASE source = "prompt"   -> {}
           [] source = "steer"    -> Range(steeringQueue)
           [] source = "followUp" -> Range(followUpQueue)]

DeliveredMessages ==
    {<<i, messages[i].msg>> : i \in {j \in 1..Len(messages) : messages[j].role = "user"}}

Delivery == INSTANCE MessageDelivery WITH
    Source <- Origin, waiting <- Waiting, delivered <- DeliveredMessages,
    gone <- discarded \cup dropped

\* The agent neither loses, duplicates nor reorders the messages of a source,
\* but for what a clear or a failing run gives up (agent.ts, agent-loop.ts).
ImplementsDelivery == Delivery!Spec

=============================================================================
