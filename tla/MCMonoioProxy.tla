--------------------------- MODULE MCMonoioProxy ---------------------------
(* Small instances of MonoioProxy.                                         *)
EXTENDS MonoioProxy

Get == [kind |-> "h1", chunked |-> FALSE, length |-> -1, close |-> FALSE, parts |-> <<>>]
GetAndClose == [Get EXCEPT !.close = TRUE]
Post == [Get EXCEPT !.length = 2, !.parts = <<"data", "data">>]
PostChunked == [Get EXCEPT !.chunked = TRUE, !.parts = <<"data", "end1", "end2">>]
OfKind(k) == [Get EXCEPT !.kind = k]

Ok == [kind |-> "h1", bodyless |-> FALSE, chunked |-> FALSE, length |-> 2, close |-> FALSE,
       interim |-> FALSE, parts |-> <<"data", "data">>]
OkAndClose == [Ok EXCEPT !.close = TRUE]
OkEmpty == [Ok EXCEPT !.length = 0, !.parts = <<>>]
OkToHead == [Ok EXCEPT !.bodyless = TRUE, !.parts = <<>>]
OkUntilClose == [Ok EXCEPT !.length = -1]
OkChunked == [Ok EXCEPT !.length = -1, !.chunked = TRUE, !.parts = <<"data", "end1", "end2">>]
OkMarked == [OkChunked EXCEPT !.parts = <<"mark", "end1", "end2">>]
OkAfterInterim == [Ok EXCEPT !.interim = TRUE]
Malformed == [Ok EXCEPT !.kind = "bad"]

\* Requests whose length is known, pipelined.
MCScripts ==
  {<<Post, Get>>, <<Get, GetAndClose>>}
MCResponses == {Ok, OkAndClose, OkUntilClose}

\* Every way a request can be refused, first and second on its connection, and
\* every framing.
MCAllScripts ==
  MCScripts \cup {<<PostChunked>>} \cup {<<OfKind(k)>> : k \in Kinds}
  \cup {<<Get, OfKind(k)>> : k \in Kinds}
MCAllResponses == MCResponses \cup {OkEmpty, OkToHead, OkChunked, OkMarked, OkAfterInterim, Malformed}

MCGetScripts == {<<Get, Get>>}
MCChunkedOnly == {OkChunked}
=============================================================================
