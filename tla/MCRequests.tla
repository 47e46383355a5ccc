----------------------------- MODULE MCRequests -----------------------------
(* The handlers and the enrichment for TLC.  These parts share no state    *)
(* here: a behaviour looks at one of them while the other ones rest.       *)
EXTENDS CsvExport, Capture, EntryHandlers, Urls, Enrichers, Access

CONSTANTS h1, h2

VARIABLE part

\* Links for Capture
MCSameLink == {{"a", "b"}, {"c"}}

-----------------------------------------------------------------------------
(* URLs                                                                    *)

Pair(key, value) == [key |-> key, value |-> value, readable |-> TRUE]
Unreadable(key, value) == [Pair(key, value) EXCEPT !.readable = FALSE]
Queries == {<<>>, <<Pair("v", 1), Pair("w", 1)>>, <<Pair("w", 1), Pair("utm", 1), Pair("v", 1)>>,
            <<Pair("v", 1), Pair("v", 2)>>, <<Pair("v", 2), Pair("v", 1)>>, <<Pair("utm", 1)>>,
            <<Pair("v", 1), Unreadable("w", 1), Pair("w", 1)>>,
            <<Unreadable("v", 1)>>, <<Unreadable("v", 2)>>, <<Unreadable("utm", 1)>>}
Paths == {<<"", 0, {}>>, <<"", 1, {}>>, <<"/a/b", 0, {}>>, <<"/a/b", 2, {}>>,
          <<"/a/b", 0, {2}>>, <<"/a/b", 1, {3}>>}

URL(scheme, user, host, port, path, query) ==
    [scheme |-> scheme, capitals |-> TRUE, user |-> user, host |-> host,
     brackets |-> IF host \in IPv6Hosts \cup {"::1"} THEN 1 ELSE 0, port |-> port,
     path |-> path[1], slashes |-> path[2], escaped |-> path[3],
     query |-> query, mark |-> FALSE, fragment |-> TRUE]

Refused == {URL("ftp", FALSE, "host", "", <<"", 0, {}>>, <<>>),
            URL("http", TRUE, "host", "", <<"", 0, {}>>, <<>>),
            URL("http", FALSE, "app.localhost", "", <<"", 0, {}>>, <<>>)}
Bare == [URL("http", FALSE, "host", "", <<"", 1, {}>>, <<>>) EXCEPT !.mark = TRUE, !.fragment = FALSE]
LinksTo(hosts, ports, paths, queries) ==
    {URL(scheme, FALSE, host, port, path, query) :
        scheme \in {"http", "https"}, host \in hosts, port \in ports,
        path \in paths, query \in queries}

Root == {<<"", 0, {}>>}
MCGiven == LinksTo({"host"}, {""}, Paths, {<<>>, <<Pair("v", 1)>>}) \cup LinksTo({"host"}, {"", "80"}, Root, Queries)
              \cup LinksTo({"host"}, {"8080"}, Root, {<<>>})
              \cup LinksTo(IPv6Hosts, {"", "443"}, Root, {<<>>}) \cup Refused \cup {Bare}
\* Every kind of host with every kind of port.
MCGivenIPv6 == LinksTo({"host"} \cup IPv6Hosts, {"", "80", "8080"}, Paths, {<<>>})

MCEndings == UNION {[1..n -> {"a", "(", ")", "."}] : n \in 1..4}
MCTails == UNION {[1..n -> {")", "."}] : n \in 0..3}

-----------------------------------------------------------------------------
(* Links to enrich and the pages they lead to                              *)

MCJobs == {[scheme |-> s, host |-> h, video |-> v] :
              s \in {"https", "ftp"}, h \in {h1, Podcasts}, v \in BOOLEAN}
MCSite == [h \in Hosts |-> h]
Element(tag, text, seconds, json) == [tag |-> tag, text |-> text, seconds |-> seconds, json |-> json]
Says(tag, text) == Element(tag, text, 0, <<>>)
Node(holder, isArray, seconds) == [holder |-> holder, isArray |-> isArray, seconds |-> seconds]
JSON == {<<>>, <<Node(0, FALSE, 0)>>, <<Node(0, FALSE, 5)>>,
         <<Node(0, FALSE, 0), Node(1, FALSE, 0), Node(1, FALSE, 7)>>,
         <<Node(0, TRUE, 0), Node(1, FALSE, 0), Node(2, FALSE, 8), Node(1, FALSE, 9)>>,
         <<Node(0, FALSE, 0), Node(1, FALSE, 6), Node(1, FALSE, 7)>>}
UpTo3(elements) == UNION {[1..n -> elements] : n \in 0..3}

MCWebPages == UpTo3({Says("title", Blank), Says("title", "t1"), Says("title", "t2"),
                     Says("og:title", "t3"), Says("og:title", "t4"), Says("og:title", Blank),
                     Says("og:description", "d1"), Says("description", "d2"),
                     Says("canonical", h1), Says("canonical", h2), Says("canonical", "invalid")})
MCPodcastPages == UpTo3({Says("apple:title", "t1"), Says("og:title", "t2"),
                         Says("apple:description", "d1"), Says("og:description", "d2"),
                         Element("music:duration", Blank, 0, <<>>), Element("music:duration", Blank, 3, <<>>)}
                        \cup {Element("ld+json", Blank, 0, json) : json \in JSON})

-----------------------------------------------------------------------------
MCInit ==
    /\ part \in {"export", "capture", "rows", "links", "enrichment", "access"}
    /\ Init /\ CaptureInit /\ HandlersInit /\ UrlInit /\ FetchInit /\ AccessInit
    /\ part # "export" => table = {}

Rests(p, v) == IF part = p THEN TRUE ELSE UNCHANGED v

MCNext ==
    /\ UNCHANGED part
    /\ \/ part = "export"     /\ Next
       \/ part = "capture"    /\ CaptureNext
       \/ part = "rows"       /\ HandlersNext
       \/ part = "links"      /\ UrlNext
       \/ part = "enrichment" /\ FetchNext
       \/ part = "access"     /\ AccessNext
    /\ Rests("export", vars)
    /\ Rests("capture", captureVars)
    /\ Rests("rows", handlerVars)
    /\ Rests("links", urlVars)
    /\ Rests("enrichment", fetchVars)
    /\ Rests("access", accessVars)

MCSpec == MCInit /\ [][MCNext]_<<part, vars, captureVars, handlerVars, urlVars, fetchVars, accessVars>>

Symmetry == Permutations(Calls) \cup Permutations(Entries) \cup Permutations(Tabs)
               \cup Permutations(Servers)
=============================================================================
