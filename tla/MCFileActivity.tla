---------------------------- MODULE MCFileActivity ----------------------------
(***************************************************************************)
(* Small instances of FileActivity.                                        *)
(***************************************************************************)
EXTENDS FileActivity

SomeKinds == {"comment", "suggestion", "own"}
CommentsOnly == {"comment"}
MaybeOpened == {0, 1}
AllActivityFaults == {"query", "post", "kv", "crash"}
NoFaults == {}
=============================================================================
