--------------------------- MODULE MCMultiRaftHost ---------------------------
(***************************************************************************)
(* One node with the metadata group, which the scan of the log recovered,  *)
(* and a tablet, registered at startup or created later.                   *)
(***************************************************************************)
EXTENDS MultiRaftHost, TLC

CONSTANTS metadata, tablet

MCGroups == {metadata, tablet}
MCTablets == {tablet}
MCIdentities == {<<metadata, 1>>, <<tablet, 1>>}
MCRecovered == {<<metadata, 1>>}
=============================================================================
