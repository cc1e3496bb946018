------------------------- MODULE MCContractVerdicts -------------------------
(* Small instances of ContractVerdicts: one command and one path that the  *)
(* contract wants, one of each that it forbids.                            *)
EXTENDS ContractVerdicts

CONSTANTS public, secret

MoveIntoForbidden == {<<public, secret>>}
MoveOutOfForbidden == {<<secret, public>>}
Symmetric == Permutations(Correlations)
=============================================================================
