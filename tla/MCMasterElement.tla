-------------------------- MODULE MCMasterElement --------------------------
(* All classes; the reset of a block group leaves junk in its duration.    *)
EXTENDS MasterElement

AllKinds == DOMAIN Table
=============================================================================
