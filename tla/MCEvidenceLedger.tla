-------------------------- MODULE MCEvidenceLedger --------------------------
(* Small instances of EvidenceLedger.                                      *)
EXTENDS EvidenceLedger, TLC

OpSymmetry == Permutations(Ops)
MessageAndDecision == {"agent.message", "policy.decision"}
=============================================================================
