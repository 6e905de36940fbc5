---------------------------- MODULE MCHedgedCall ----------------------------
(***************************************************************************)
(* HedgedCall for TLC: conversations are alike.                            *)
(***************************************************************************)
EXTENDS HedgedCall, TLC

AnyConversation == Permutations(Conversations)
=============================================================================
