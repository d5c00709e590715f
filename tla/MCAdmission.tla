---------------------------- MODULE MCAdmission ----------------------------
(***************************************************************************)
(* Calls over two IDs: two batches that list the IDs in opposite orders,   *)
(* and a call of one conversation.                                         *)
(***************************************************************************)
EXTENDS Admission

CONSTANTS batch1, batch2, chat1, x, y

MCConversations ==
  [c \in Calls |-> CASE c = batch1 -> <<1, 2>> [] c = batch2 -> <<3, 4>>
                     [] c = chat1 -> <<5>>]
MCScopeOf == [r \in Requests |-> IF r \in {1, 4, 5} THEN x ELSE y]
=============================================================================
