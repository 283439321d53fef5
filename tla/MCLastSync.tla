----------------------------- MODULE MCLastSync -----------------------------
(***************************************************************************)
(* One copy under no admission, one that adds a label the sync strips, one *)
(* that takes a label off which the sync wants, or one that does both.     *)
(***************************************************************************)
EXTENDS LastSync

SomePolicies == [adds : {{}, {"team"}}, removes : {{}, {"app"}}]

=============================================================================
