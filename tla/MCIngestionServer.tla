------------------------- MODULE MCIngestionServer -------------------------
(***************************************************************************)
(* Instances of IngestionServer: two methods (the metrics call, which      *)
(* leaves out samples without a value, and a call that pushes everything), *)
(* a bundle with one of each.                                              *)
(***************************************************************************)
EXTENDS IngestionServer

MCStartOrder == <<"metrics", "logs">>
OneMethod == <<"metrics">>
MCBundles == {<<"value", "novalue">>}
=============================================================================
