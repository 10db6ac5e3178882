--------------------------- MODULE MCFilePrinting ---------------------------
(* FilePrinting with the files applications print for TLC.                 *)
EXTENDS FilePrinting

PrintedFiles == {<<>>, <<"x">>, <<"x", "CR", "LF", "x">>, <<"x", "Z", "x">>, <<"Z">>}

=============================================================================
