------------------------ MODULE MCConcurrentExtract ------------------------
(* Instances of ConcurrentExtract for TLC.                                 *)
EXTENDS ConcurrentExtract

(* The second of the counted rows has no link.                             *)
SecondBlank == {2}

NoneBlank == {}
=============================================================================
