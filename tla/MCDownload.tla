----------------------------- MODULE MCDownload -----------------------------
(* Instances of Download for TLC: a file of three chunks that is replaced by  *)
(* one of the same size or by a shorter one.                                  *)
EXTENDS Download

MCVersions == {"v1", "v2", "v3"}
MCSize == [v \in MCVersions |-> IF v = "v3" THEN 2 ELSE 3]
=============================================================================
