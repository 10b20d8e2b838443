----------------------------- MODULE MCStoreClients -----------------------------
(***************************************************************************)
(* A small instance of StoreClients for TLC.  The ids that the store draws *)
(* are only compared, so that they are as symmetric as the URLs.           *)
(***************************************************************************)
EXTENDS StoreClients, TLC

(* The ranker's clock is behind the store's, exact, or ahead of it.        *)
LeadSet == {-1, 0, 1}

Symmetry == Permutations(Updater) \union Permutations(URL)
                \union Permutations(LinkID) \union Permutations(EdgeID)
=============================================================================
