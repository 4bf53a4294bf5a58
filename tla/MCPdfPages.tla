----------------------------- MODULE MCPdfPages -----------------------------
(* A small instance of PdfPages for TLC: no page, one, an empty one, two   *)
(* and three; sizes that a field of Width digits holds in its lower half.  *)
EXTENDS PdfPages

SomeDocuments == {<<>>, <<2>>, <<0, 1>>, <<3, 1>>, <<2, 1, 2>>}
=============================================================================
