----------------------------- MODULE MCHeaders -----------------------------
(***************************************************************************)
(* Chains of up to two proxies of any kind, with requests and responses    *)
(* that have hop-by-hop headers, a Connection header with several lines,   *)
(* repeated lines, and every kind of X-Forwarded-For, and rules with one   *)
(* or two header filters.                                                  *)
(***************************************************************************)
EXTENDS Headers

\* A header map, from sets of choices for the values of some names.
Present(h) == RestrictValues(h, LAMBDA values : values # <<>>)

MCRequests ==
    {Present("connection" :> c @@ "keep-alive" :> k @@ "x-a" :> a @@ "x-b" :> b
             @@ "x-forwarded-for" :> f @@ "x-forwarded-proto" :> p @@ "host" :> <<<<"site">>>>) :
        c \in {<<>>, <<<<"keep-alive", "x-a">>>>, <<<<"close">>, <<"x-b", "x-forwarded-for">>>>,
              <<<<"x-a", "opaque">>, <<"x-b", InvalidName>>>>},
        k \in {<<>>, <<<<"5">>>>},
        a \in {<<>>, <<<<"1">>>>, <<<<"1">>, <<"2">>>>},
        b \in {<<<<"3">>>>},
        f \in {<<>>, <<<<"c0">>>>, <<<<"opaque">>>>, <<<<"c0">>, <<"c1">>>>},
        p \in {<<>>, <<<<"https">>>>}}

MCResponses ==
    {Present("connection" :> c @@ "upgrade" :> u @@ "x-a" :> a @@ "x-b" :> b) :
        c \in {<<>>, <<<<"close", "x-a">>>>, <<<<"close">>, <<"x-b">>>>, <<<<"x-a", "opaque">>>>},
        u \in {<<>>, <<<<"h2c">>>>},
        a \in {<<>>, <<<<"1">>, <<"2">>>>},
        b \in {<<<<"3">>>>}}

Modifier(type, set, add, remove) ==
    [type |-> type, body |-> [set |-> set, add |-> add, remove |-> remove]]

OnRequest(set, add, remove) == Modifier("RequestHeaderModifier", set, add, remove)
OnResponse(set, add, remove) == Modifier("ResponseHeaderModifier", set, add, remove)

MCRuleFilters ==
    {<<>>,
     <<OnRequest(<<<<"x-a", <<"7">>>>>>, <<<<"x-a", <<"8">>>>, <<"te", <<"trailers">>>>>>, <<"x-b">>)>>,
     <<OnRequest(<<<<"host", <<"other">>>>>>, <<<<"x-b", InvalidValue>>, <<InvalidName, <<"9">>>>>>, <<>>),
       OnResponse(<<>>, <<<<"x-a", <<"8">>>>, <<"x-b", <<"9">>>>>>, <<"upgrade">>)>>,
     <<[type |-> "RequestMirror", body |-> None], [type |-> "RequestHeaderModifier", body |-> None],
       OnResponse(<<<<"x-a", <<"7">>>>>>, <<>>, <<"x-b", InvalidName>>)>>}

=============================================================================
