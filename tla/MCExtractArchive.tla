-------------------------- MODULE MCExtractArchive --------------------------
(* ExtractArchive for TLC: a directory, a file in it and a file beside it. *)
EXTENDS ExtractArchive

MCPaths == {<<"d">>, <<"d", "f">>, <<"g">>}
=============================================================================
