--------------------------- MODULE MCProxyServer ---------------------------
(* ProxyServer with a preface of three bytes and HTTP/1 heads that leave it *)
(* at the first and at the last of them.                                    *)
EXTENDS ProxyServer

MCPreface == <<"P", "R", "I">>
MCHeads == {<<"G", "E">>, <<"P", "R", "O", "P">>}
=============================================================================
