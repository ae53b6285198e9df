------------------------------ MODULE MCRequests ------------------------------
(***************************************************************************)
(* From a message to an approved plan: the conversation, the decisions     *)
(* about a plan and its approval share no state, so that one run checks    *)
(* each by itself.                                                         *)
(***************************************************************************)
EXTENDS Conversation, ApprovalGate, MCDecisions

CONSTANTS read, write

serviceVars == <<conversationVars, gateVars>>

MCInit ==
    /\ ConversationInit /\ GateInit
    /\ \/ DecisionsInit
       \/ part \in {"conversation", "approval"} /\ DecisionsRest

MCNext ==
    \/ DecisionsNext /\ UNCHANGED serviceVars
    \/ /\ UNCHANGED decisionVars
       /\ \/ part = "conversation" /\ ConversationNext /\ UNCHANGED gateVars
          \/ part = "approval" /\ GateNext /\ UNCHANGED conversationVars

MCSpec == MCInit /\ [][MCNext]_<<serviceVars, decisionVars>>

\* Scopes are only compared, and the requests of both parts have the same names.
Interchangeable == Permutations(Request) \cup Permutations({read, write})
=============================================================================
