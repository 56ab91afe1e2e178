-------------------------- MODULE MCApprovalBroker --------------------------
(* A run streamed up to twice, the second time while or after the first. *)
EXTENDS ApprovalBroker
=============================================================================
