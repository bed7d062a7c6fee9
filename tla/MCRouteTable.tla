---------------------------- MODULE MCRouteTable ----------------------------
(***************************************************************************)
(* Every sequence of up to three routes over hostnames of every kind and   *)
(* overlapping paths, and every request that tells them apart.             *)
(***************************************************************************)
EXTENDS RouteTable

Labels == {"*", "a", "A", "b", "com", "[", ":", "]", "1"}

MCLower == [l \in Labels |-> IF l = "A" THEN "a" ELSE l]

\* "[::1]"
MCLiteral == <<"[", ":", ":", "1", "]">>

MCHostnames == {NoHost, <<"*", "com">>, <<"*", "A", "com">>, <<"A", "com">>}

MCRoutes == {<<<<"">>, "Prefix">>, <<<<"x", "">>, "Prefix">>, <<<<"x", "">>, "Exact">>,
             <<<<"x", "y">>, "Exact">>, <<<<"x", "y", "*">>, "Exact">>}

MCSpecs ==
  {[hostname |-> h, path |-> p[1], path_match |-> p[2]] : h \in MCHostnames, p \in MCRoutes}
  \cup {[hostname |-> h, path |-> <<"*path">>, path_match |-> "Prefix"] : h \in {<<"*">>, MCLiteral}}

\* "/xy" begins with "/x" as a text, not as a path.
MCSpelling ==
  [s \in {"", "x", "y", "z", "xy", "v", "*", "*path"} |->
     CASE s = "" -> <<>> [] s = "xy" -> <<"x", "y">> [] OTHER -> <<s>>]

MCReplacements == {<<"">>, <<"v">>, <<"v", "">>, <<"x", "v">>}

Host(text) == [text |-> text, long |-> FALSE]

MCHosts == {NoHost, Host(<<"a", "com">>), Host(<<"b", "A", "com", ":", "80">>), Host(<<"b", "com">>),
            Host(<<"b">>), [Host(<<"A", "com">>) EXCEPT !.long = TRUE],
            Host(MCLiteral \o <<":", "80">>), Host(Front(MCLiteral))}

MCPaths == {<<>>, <<"">>, <<"x">>, <<"x", "">>, <<"x", "y">>, <<"x", "y", "">>, <<"x", "y", "z">>,
            <<"xy">>}

MCRequests == [host : MCHosts, path : MCPaths]

=============================================================================
