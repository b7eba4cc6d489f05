--------------------------- MODULE MCFileChannel ---------------------------
(* Instances of FileChannel for model checking.  Uploads, streams and      *)
(* watchers share only the channel, so that each workload is checked on    *)
(* its own.                                                                *)
EXTENDS FileChannel

OneKind == {{"upload"}, {"download"}, {"read"}, {"watch"}}

=============================================================================
