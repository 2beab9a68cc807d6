---------------------------- MODULE MCConversation ----------------------------
(***************************************************************************)
(* TLC instances of Conversation.                                          *)
(***************************************************************************)
EXTENDS ConversationProperties

Inputs(kinds) == [type |-> "UserInputs", kinds |-> kinds]

MCAsks ==
  { Inputs(k) : k \in { <<"blank">>, <<"ToolCallResult", "other">>,
                        <<"ToolCallResult", "ToolCallResult", "UserQuery", "CliAgentUserQuery">> } }
    \cup { [type |-> "CreateNewProject"], [type |-> "other"] }
MCParts == {"text", "blank", "tool", "cut", "reasoning"}

Piece(n) == [n |-> n, closes |-> FALSE]
Closing(n) == [n |-> n, closes |-> TRUE]

\* A new conversation, and one that began before the proxy was there.
Begun ==
  [tasks |-> << << [type |-> "user_query", text |-> << Piece(11) >>],
                   [type |-> "agent_reasoning", text |-> << Piece(12) >>],
                   [type |-> "other"],
                   [type |-> "tool_call", tool_call_id |-> 9, tool |-> "runShellCommand",
                    payload |-> << [id |-> 9, input |-> << Closing(13) >>] >>] >>,
                << [type |-> "tool_call_result", tool_call_id |-> 9,
                    result |-> Piece(14)],
                   [type |-> "agent_output", text |-> << Piece(15) >>] >> >>,
   transcript |-> << [role |-> "user", kind |-> "text", id |-> NoId, says |-> <<Piece(11)>>],
                     [role |-> "assistant", kind |-> "text", id |-> NoId, says |-> <<Piece(12)>>],
                     [role |-> "assistant", kind |-> "call", id |-> 9, says |-> <<Closing(13)>>],
                     [role |-> "user", kind |-> "result", id |-> 9, says |-> <<Piece(14)>>],
                     [role |-> "assistant", kind |-> "text", id |-> NoId, says |-> <<Piece(15)>>] >>]
MCHistories == { [tasks |-> <<>>, transcript |-> <<>>], Begun }
=============================================================================
