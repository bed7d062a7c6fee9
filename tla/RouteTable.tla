----------------------------- MODULE RouteTable -----------------------------
(***************************************************************************)
(* The route table (crates/core/src/route_table.rs): a RouteTableBuilder   *)
(* takes one route after another, `build` compiles what it has been given, *)
(* and `lookup` matches a Host header and a request path against it.       *)
(*                                                                         *)
(* A hostname is the sequence of its labels, <<"a", "example", "com">>,    *)
(* with a dot between two labels that follow each other; the colons and    *)
(* brackets of a port or of an IPv6 literal are elements of their own.  A  *)
(* path is the sequence of the segments that follow its slashes: "/api" is *)
(* <<"api">>, "/api/" is <<"api", "">>, "/" is <<"">> and the empty string *)
(* is <<>>.  Of what a route does with a request only the rewrite of its   *)
(* path is looked at: an action is the number of the `add` that made it.   *)
(***************************************************************************)
EXTENDS Integers, Filters

CONSTANTS
  Specs,       \* `RouteSpec`s: [hostname, path, path_match]
  NoHost,      \* `None` as the hostname of a route or of a request
  Requests,    \* [host, path]; a host is NoHost or [text, long]
  Lower,       \* ASCII lower case of every label
  Spelling,    \* the words that a path segment consists of, for rewrites, which are textual
  Replacements,\* paths that `ReplacePrefixMatch` filters put in place of a prefix
  NoRoute,     \* `None` as the result of a lookup
  MaxRoutes    \* bound on the calls of `add`

VARIABLES
  builder,   \* [exact, wildcard, default_routes, route_count]: maps from a lower-cased hostname
             \* to lists of (pattern, action), and the list of hostname-less routes
  added      \* the specs it was given (history variable)

vars == <<builder, added>>

-----------------------------------------------------------------------------
(* Hostnames.                                                              *)

to_lower(labels) == [i \in DOMAIN labels |-> Lower[labels[i]]]

IsDefault(h)  == h = NoHost \/ h = <<"*">>
IsWildcard(h) == h # NoHost /\ Len(h) > 1 /\ Head(h) = "*"

\* The keys the two maps can have.
Hostnames    == {s.hostname : s \in Specs}
ExactKeys    == {to_lower(h) : h \in {x \in Hostnames : ~IsDefault(x) /\ ~IsWildcard(x)}}
WildcardKeys == {to_lower(Tail(h)) : h \in {x \in Hostnames : IsWildcard(x)}}

\* The port follows the first colon, or the closing bracket of an IPv6 literal.
host_without_port(text) ==
  LET first(c) == SelectInSeq(text, LAMBDA e : e = c)   \* 0 if there is none
  IN  IF text # <<>> /\ Head(text) = "["
      THEN IF first("]") = 0 THEN text ELSE SubSeq(text, 1, first("]"))
      ELSE IF first(":") = 0 THEN text ELSE SubSeq(text, 1, first(":") - 1)

\* `lowercase_ascii_into` leaves a host that is longer than MAX_HOST_LEN as it is.
normalized(host) ==
  LET stripped == host_without_port(host.text)
  IN  IF host.long THEN stripped ELSE to_lower(stripped)

-----------------------------------------------------------------------------
(* Path patterns.                                                          *)

Static(segs)   == [segs |-> segs, catchall |-> FALSE]
CatchAll(segs) == [segs |-> segs, catchall |-> TRUE]

trim_end(segs) ==
  SubSeq(segs, 1, Max({0} \cup {i \in DOMAIN segs : segs[i] # ""}))

\* The shorthands are prefixes, whatever their kind.
IsShorthand(path) == path # <<>> /\ Last(path) \in {"*", "*path", "*catchall"}

BasePath(path) ==
  LET stripped == IF IsShorthand(path) THEN Front(path) ELSE path
  IN  IF stripped = <<>> THEN <<"">> ELSE stripped

\* Mutant: the pattern for the prefix with a trailing slash is forgotten.
ExpandWithoutSlash(path, kind) ==
  LET trimmed == trim_end(BasePath(path))
  IN  IF kind = "Exact" /\ ~IsShorthand(path)
      THEN <<Static(BasePath(path))>>
      ELSE IF trimmed = <<>>
           THEN <<Static(<<"">>), CatchAll(<<>>)>>
           ELSE <<Static(trimmed), CatchAll(trimmed)>>

expand_pattern(path, kind) ==
  LET trimmed == trim_end(BasePath(path))
  IN  IF kind = "Exact" /\ ~IsShorthand(path)
      THEN <<Static(BasePath(path))>>
      ELSE IF trimmed = <<>>
           THEN <<Static(<<"">>), CatchAll(<<>>)>>
           ELSE <<Static(trimmed), Static(trimmed \o <<"">>), CatchAll(trimmed)>>

-----------------------------------------------------------------------------
(* The matchit router (external).  A pattern that is already there is      *)
(* refused.  A static pattern is preferred to a catch-all and a longer     *)
(* catch-all to a shorter one; a catch-all matches at least one character. *)

PatternMatches(pattern, path) ==
  IF pattern.catchall
  THEN IsStrictPrefix(pattern.segs, path) /\ path # pattern.segs \o <<"">>
  ELSE pattern.segs = path

Better(p, q) == ~p.catchall \/ (q.catchall /\ Len(p.segs) >= Len(q.segs))

\* Mutant: the first route that matches is taken.
AtFirstMatch(list, path) ==
  LET hits == {i \in DOMAIN list : PatternMatches(list[i].pattern, path)}
  IN  IF hits = {} THEN NoRoute ELSE list[Min(hits)].action

\* `HostRouter::at` on the router that `build` compiles from a list of routes.
at(list, path) ==
  LET hits == {i \in DOMAIN list : PatternMatches(list[i].pattern, path)}
      best == {i \in hits : \A j \in hits : Better(list[i].pattern, list[j].pattern)}
  IN  IF best = {} THEN NoRoute ELSE list[Min(best)].action

-----------------------------------------------------------------------------
(* RouteTable::lookup.                                                     *)

LookupExact(t, labels, path) ==
  IF labels \in ExactKeys THEN at(t.exact[labels], path) ELSE NoRoute

\* Suffixes after a dot from the most specific one, until one of them has a matching route.
LookupWildcard(t, labels, path) ==
  LET suffix(i) == SubSeq(labels, i, Len(labels))
      dots == {i \in 2..Len(labels) : {labels[i - 1], labels[i]} \cap {"[", ":", "]"} = {}}
      hits == {i \in dots : /\ suffix(i) \in WildcardKeys
                            /\ at(t.wildcard[suffix(i)], path) # NoRoute}
  IN  IF hits = {} THEN NoRoute ELSE at(t.wildcard[suffix(Min(hits))], path)

\* Mutant: a hostname that has routes of its own never falls through.
LookupWithoutFallThrough(t, host, path) ==
  LET clean_path == IF path = <<>> THEN <<"">> ELSE path
      labels     == IF host = NoHost THEN <<>> ELSE normalized(host)
      ofWildcard == LookupWildcard(t, labels, clean_path)
  IN  IF labels \in ExactKeys /\ t.exact[labels] # <<>> THEN at(t.exact[labels], clean_path)
      ELSE IF ofWildcard # NoRoute THEN ofWildcard
      ELSE at(t.default_routes, clean_path)

lookup(t, host, path) ==
  LET clean_path == IF path = <<>> THEN <<"">> ELSE path
      ofExact    == IF host = NoHost THEN NoRoute ELSE LookupExact(t, normalized(host), clean_path)
      ofWildcard == IF host = NoHost THEN NoRoute ELSE LookupWildcard(t, normalized(host), clean_path)
  IN  IF ofExact # NoRoute THEN ofExact
      ELSE IF ofWildcard # NoRoute THEN ofWildcard
      ELSE at(t.default_routes, clean_path)

-----------------------------------------------------------------------------
(* RouteTableBuilder.                                                      *)

new ==
  [exact          |-> [k \in ExactKeys |-> <<>>],
   wildcard       |-> [k \in WildcardKeys |-> <<>>],
   default_routes |-> <<>>,
   route_count    |-> 0]

add(b, spec) ==
  LET patterns == expand_pattern(spec.path, spec.path_match)
      h        == spec.hostname
      count    == b.route_count + 1
      routes   == [i \in DOMAIN patterns |-> [pattern |-> patterns[i], action |-> count]]
  IN  CASE IsDefault(h)  -> [b EXCEPT !.route_count = count, !.default_routes = @ \o routes]
        [] IsWildcard(h) -> [b EXCEPT !.route_count = count,
                                      !.wildcard[to_lower(Tail(h))] = @ \o routes]
        [] OTHER         -> [b EXCEPT !.route_count = count, !.exact[to_lower(h)] = @ \o routes]

\* RouteConfig::compile, and ClusterState::compile with the routes in the order its hash map
\* has them: one `add` after another.
compile(specs) == FoldLeft(add, new, specs)

\* RouteConfig::single_upstream.
single_upstream == [hostname |-> NoHost, path |-> <<"">>, path_match |-> "Prefix"]

Init ==
  /\ builder = new
  /\ added = <<>>

Add(spec) ==
  /\ builder.route_count < MaxRoutes
  /\ builder' = add(builder, spec)
  /\ added' = Append(added, spec)

Next == \E spec \in Specs : Add(spec)

Spec == Init /\ [][Next]_vars

-----------------------------------------------------------------------------
(* Properties.                                                             *)

(***************************************************************************)
(* The matching rules, stated on the routes as the control plane gave them *)
(* and without patterns, maps or tiers.                                    *)
(***************************************************************************)
\* How specific a route's hostname is for a host, -1 if it does not match.
HostRank(spec, host) ==
  LET h      == spec.hostname
      labels == IF host = NoHost THEN <<>> ELSE normalized(host)
      n      == Len(labels)
  IN  IF IsDefault(h) THEN 0
      ELSE IF host = NoHost THEN -1
      ELSE IF IsWildcard(h)
           THEN IF Len(h) <= n /\ to_lower(Tail(h)) = SubSeq(labels, n - Len(h) + 2, n)
                THEN Len(h) - 1
                ELSE -1
      ELSE IF to_lower(h) = labels THEN n + 1 ELSE -1

\* How specific its path is, -1 if it does not match.  A prefix matches whole segments,
\* and a route that names the whole path, trailing slash or not, beats every other one.  An
\* Exact and a Prefix route that name the same path tie, in the code and so here: expand_pattern
\* gives both the same pattern.  (k8s/gateway-api-crds.yaml:6753 has Exact take precedence.)
PathRank(spec, path) ==
  LET p    == IF path = <<>> THEN <<"">> ELSE path
      base == BasePath(spec.path)
      pre  == trim_end(base)
  IN  IF spec.path_match = "Exact" /\ ~IsShorthand(spec.path)
      THEN IF p = base THEN Len(p) + 1 ELSE -1
      ELSE IF ~IsPrefix(pre, p) THEN -1
      ELSE IF p \in {pre, pre \o <<"">>} THEN Len(p) + 1
      ELSE Len(pre)

MatchedBy(i, r) == HostRank(added[i], r.host) >= 0 /\ PathRank(added[i], r.path) >= 0

AtLeastAsGood(i, j, r) ==
  LET hi == HostRank(added[i], r.host)
      hj == HostRank(added[j], r.host)
  IN  hi > hj \/ (hi = hj /\ PathRank(added[i], r.path) >= PathRank(added[j], r.path))

BestMatch(r) ==
  LET hits == {i \in DOMAIN added : MatchedBy(i, r)}
      best == {i \in hits : \A j \in hits : AtLeastAsGood(i, j, r)}
  IN  IF best = {} THEN NoRoute ELSE Min(best)

\* "exact hostname, then the longest matching wildcard, then the hostname-less default"
\* (RouteTable::lookup): whatever routes were added before it and in whatever order, a request
\* gets the route with the most specific hostname that also matches its path, then the one that
\* matches most of the path, then the one added first, be it Exact or Prefix; it falls through
\* a hostname whose paths do not match, and has no route only if none matches.
LookupIsBestMatch == \A r \in Requests : lookup(builder, r.host, r.path) = BestMatch(r)

\* The (hostname, pattern) pairs that a route claims.
Claims(spec) ==
  LET h == IF IsDefault(spec.hostname) THEN <<>> ELSE to_lower(spec.hostname)
  IN  {<<h, p>> : p \in ToSet(expand_pattern(spec.path, spec.path_match))}

\* `for stored in self.routes.values()` adds routes in the order of a hash map, which differs
\* from one rebuild to the next: the order of two routes decides what a request gets only if
\* they claim the same pattern of the same hostname, "resolved first-wins".
OrderMattersOnlyForConflicts ==
  \A i \in 1..Len(added) - 1 :
    LET swap(k)  == CASE k = i -> i + 1 [] k = i + 1 -> i [] OTHER -> k
        other    == compile([k \in DOMAIN added |-> added[swap(k)]])
        back(a)  == IF a = NoRoute THEN NoRoute ELSE swap(a)
    IN  Claims(added[i]) \cap Claims(added[i + 1]) = {} =>
          \A r \in Requests :
            lookup(builder, r.host, r.path) = back(lookup(other, r.host, r.path))

\* "Seed the table before serving so there is never a window where requests 404": with the
\* catch-all of `single_upstream` among its routes a table has a route for every request.
SeedMatchesEverything ==
  single_upstream \in ToSet(added) =>
    \A r \in Requests : lookup(builder, r.host, r.path) # NoRoute

-----------------------------------------------------------------------------
(* Rewrites: what the route that a lookup selects makes of the path.       *)

\* The text of a path.
Text(segs) == FlattenSeq([i \in DOMAIN segs |-> <<Slash>> \o Spelling[segs[i]]])

\* The filters of the route, had its rule a `ReplacePrefixMatch` filter: ClusterState::compile
\* compiles them "per match, not per rule".
RewritingFilters(spec, replacement) ==
  compile_filters(<<[type |-> "URLRewrite",
                     body |-> [type |-> "ReplacePrefixMatch", replacement |-> Text(replacement)]]>>,
                  Text(spec.path))

\* A request that a prefix route is selected for has the segments of that prefix, and those
\* only, replaced: the textual strip_prefix always applies and never splits a segment, and
\* the result has neither lost nor doubled a slash, whichever of prefix, replacement and path
\* end in one.  (The shorthands keep their star in the prefix: their paths are not rewritten.)
RewriteReplacesSegments ==
  \A r \in Requests, replacement \in Replacements :
    LET route == lookup(builder, r.host, r.path)
        spec  == added[route]
        out   == trim_end(replacement)
        rest  == SubSeq(r.path, Len(trim_end(spec.path)) + 1, Len(r.path))
    IN  route # NoRoute /\ r.path # <<>> =>
          (spec.path_match = "Prefix" /\ ~IsShorthand(spec.path) =>
             apply_url_rewrite(RewritingFilters(spec, replacement), Text(r.path))
               = Text(IF out \o rest = <<>> THEN <<"">> ELSE out \o rest))

=============================================================================
