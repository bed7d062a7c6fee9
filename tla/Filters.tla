------------------------------ MODULE Filters ------------------------------
(***************************************************************************)
(* A route's filter pipeline: lb_core::filter (crates/core/src/filter.rs), *)
(* the Gateway API filters it is compiled from (compile_filters of         *)
(* crates/core/src/gateway.rs) and the header map it is applied to.        *)
(*                                                                         *)
(* A header map is a function from the names present to the sequence of    *)
(* their values; names are compared without regard to case, so a name is   *)
(* one string.  A path is the sequence of the words and slashes of its     *)
(* text: "/api/users" is <<"/", "api", "/", "users">> and "/apix" is       *)
(* <<"/", "api", "x">>, so that a textual prefix need not end at a slash.  *)
(***************************************************************************)
EXTENDS Naturals, SequencesExt

CONSTANT None   \* the Option value None

-----------------------------------------------------------------------------
(* http::HeaderMap (external). *)

contains_key(headers, name) == name \in DOMAIN headers

get_all(headers, name) == IF contains_key(headers, name) THEN headers[name] ELSE <<>>

insert(headers, name, value) == (name :> <<value>>) @@ headers

append(headers, name, value) ==
    (name :> Append(get_all(headers, name), value)) @@ headers

removeAll(headers, names) == Restrict(headers, DOMAIN headers \ names)

\* HeaderName::from_bytes and HeaderValue::from_str refuse these.
InvalidName == "an invalid name"
InvalidValue == <<"an invalid value">>

-----------------------------------------------------------------------------
(* Header modifiers: [op |-> "Set" | "Add" | "Remove", name, value]. *)

\* Compiled::compile gives None for a modifier that is not valid HTTP.
Compiles(modifier) ==
    /\ modifier.name # InvalidName
    /\ modifier.op # "Remove" => modifier.value # InvalidValue

\* Compiled::apply.
apply(headers, modifier) ==
    CASE modifier.op = "Set"    -> insert(headers, modifier.name, modifier.value)
      [] modifier.op = "Add"    -> append(headers, modifier.name, modifier.value)
      [] modifier.op = "Remove" -> removeAll(headers, {modifier.name})

\* RouteFilters::new: the invalid modifiers are dropped.
RouteFilters(request, response, rewrite) ==
    [request_headers  |-> SelectSeq(request, Compiles),
     response_headers |-> SelectSeq(response, Compiles),
     url_rewrite      |-> rewrite]

NoFilters == RouteFilters(<<>>, <<>>, None)

is_noop(filters) == filters = NoFilters

rewrites_path(filters) == filters.url_rewrite # None

apply_request_headers(filters, headers) ==
    FoldLeft(apply, headers, filters.request_headers)

apply_response_headers(filters, headers) ==
    FoldLeft(apply, headers, filters.response_headers)

-----------------------------------------------------------------------------
(* URL rewrites. *)

Slash == "/"

\* str::trim_end_matches('/').
trim_slashes(text) ==
    SubSeq(text, 1, SelectLastInSeq(text, LAMBDA c : c # Slash))

\* RouteFilters::apply_url_rewrite.  The prefix is stripped as text.
apply_url_rewrite(filters, path) ==
    LET rw == filters.url_rewrite
        out  == trim_slashes(rw.replacement)
        rest == SubSeq(path, Len(rw.prefix) + 1, Len(path))
    IN  IF rw = None THEN path
        ELSE IF rw.type = "Exact" THEN rw.replacement
        ELSE IF ~IsPrefix(rw.prefix, path) THEN path
        ELSE IF rest = <<>> THEN IF out = <<>> THEN <<Slash>> ELSE out
        ELSE IF Head(rest) = Slash THEN out \o rest
        ELSE out \o <<Slash>> \o rest

-----------------------------------------------------------------------------
(* compile_filters.  A filter of an HTTPRoute rule has a type and, unless  *)
(* it is None, a body: [set, add, remove] for the header modifiers,        *)
(* [type, replacement] for URLRewrite.                                     *)

\* HeaderFilter::to_modifiers.
to_modifiers(h) ==
    LET modifiers(op, nvs) == [i \in DOMAIN nvs |->
                                 [op |-> op, name |-> nvs[i][1], value |-> nvs[i][2]]]
    IN  modifiers("Set", h.set) \o modifiers("Add", h.add)
          \o [i \in DOMAIN h.remove |->
                [op |-> "Remove", name |-> h.remove[i], value |-> <<>>]]

\* Mutant: the prefix keeps its trailing slash.
RewriteUntrimmed(path, matched_prefix) ==
    CASE path.type = "ReplacePrefixMatch" /\ path.replacement # None ->
            [type |-> "Prefix", prefix |-> matched_prefix, replacement |-> path.replacement]
      [] path.type = "ReplaceFullPath" /\ path.replacement # None ->
            [type |-> "Exact", replacement |-> path.replacement]
      [] OTHER -> None

\* The rewrite that one URLRewrite filter stands for.
Rewrite(path, matched_prefix) ==
    CASE path.type = "ReplacePrefixMatch" /\ path.replacement # None ->
            [type |-> "Prefix", prefix |-> trim_slashes(matched_prefix),
             replacement |-> path.replacement]
      [] path.type = "ReplaceFullPath" /\ path.replacement # None ->
            [type |-> "Exact", replacement |-> path.replacement]
      [] OTHER -> None

\* The header modifiers of all filters in order, the rewrite of the last
\* URLRewrite filter that has a path; filters of other types are ignored, and
\* so is one without the body of its type.
compile_filters(filters, matched_prefix) ==
    LET step(acc, f) ==
            CASE f.body = None -> acc
              [] f.type = "RequestHeaderModifier"  -> [acc EXCEPT !.request = @ \o to_modifiers(f.body)]
              [] f.type = "ResponseHeaderModifier" -> [acc EXCEPT !.response = @ \o to_modifiers(f.body)]
              [] f.type = "URLRewrite" -> [acc EXCEPT !.rewrite = Rewrite(f.body, matched_prefix)]
              [] OTHER -> acc
        all == FoldLeft(step, [request |-> <<>>, response |-> <<>>, rewrite |-> None], filters)
    IN  RouteFilters(all.request, all.response, all.rewrite)

=============================================================================
