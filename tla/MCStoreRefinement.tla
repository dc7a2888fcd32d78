-------------------------- MODULE MCStoreRefinement --------------------------
\* StoreRefinement on the requests of MCTrustStore.
EXTENDS MCTrustStore, StoreRefinement
=============================================================================
