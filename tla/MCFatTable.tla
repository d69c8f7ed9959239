---------------------------- MODULE MCFatTable ----------------------------
(* FatTable on small volumes.                                               *)
EXTENDS FatChains
McInitCounts == {Unknown, 0, MaxCluster - 2}
McUnknown == {Unknown}
McAllFaults == AllFaults
McAllButChainIo == AllFaults \ {"chain_io"}
=============================================================================
