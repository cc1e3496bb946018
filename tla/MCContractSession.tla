------------------------- MODULE MCContractSession --------------------------
(* Small instances of ContractSession.                                     *)
EXTENDS ContractSession
=============================================================================
