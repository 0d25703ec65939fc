--------------------------- MODULE MCEvidencePacking ---------------------------
(* A TLC instance of EvidencePacking: the rows a search may return.          *)
EXTENDS EvidencePacking

CONSTANTS source

Row(kind, passage, parents, boundaries) ==
  [kind |-> kind, source |-> source, passage |-> passage, parents |-> parents,
   length |-> Max(boundaries), boundaries |-> boundaries]

\* One source of three passages, reached directly, semantically and as a
\* continuation, and memories of one, two and three byte characters.
MCRowShapes ==
  {Row("passage", 1, {}, {0, 2}),
   Row("passage", 2, {}, {0, 1, 2}),
   Row("semantic_passage", 1, {}, {0, 2}),
   Row("adjacent_continuation", 3, {2}, {0, 1}),
   Row("memory", 0, {}, {0, 1, 2, 5}),
   Row("semantic_memory", 0, {}, {0, 3})}

MCRequests == [max_context_bytes : {None, 2}, max_tokens : {None, 2}]
=============================================================================
