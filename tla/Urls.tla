-------------------------------- MODULE Urls --------------------------------
(***************************************************************************)
(* Links as users give them: the shared text that prefills the form        *)
(* (sharedPrefillURL), the check on saving (ValidateSourceURL) and the key *)
(* by which duplicates are found (NormalizeURL).                           *)
(* A URL is a record of the parts that url.Parse tells apart:              *)
(*   scheme, capitals (in the scheme or the host), user, host, brackets    *)
(*   (around the host), port, path, slashes (that end the path), escaped   *)
(*   (which slashes of the path are written %2F), query (pairs: key,       *)
(*   value, readable), mark (a bare question mark at the end), fragment    *)
(* A pair is not readable with a semicolon in it or a % that two digits do *)
(* not follow: ?p=x;h=1 is such a pair, with key p.                        *)
(***************************************************************************)
EXTENDS Naturals, Sequences, FiniteSets, SequencesExt

CONSTANTS
    Given,          \* URLs as users spell them
    Keys,           \* the keys of their queries
    Tracking,       \* those of trackingParams
    Tails,          \* what may follow a link in a text, as sequences of characters
    Endings         \* ends of links, as sequences of characters

\* A link is spelled with characters and ends with these, "a" standing for the other
\* ones; "." stands for the punctuation and the quotes that strings.TrimRight strips.
Characters == {"a", "(", ")", "."}

Parts == {"scheme", "capitals", "user", "host", "brackets", "port", "path", "slashes",
          "escaped", "query", "mark", "fragment"}

IsLink(url) ==
    /\ DOMAIN url = Parts /\ url = [p \in Parts |-> url[p]]
    /\ url.user \in BOOLEAN
    /\ Len(url.query) \in Nat /\ DOMAIN url.query = 1..Len(url.query)
    /\ \A n \in DOMAIN url.query : url.query[n].readable \in BOOLEAN

ASSUME LinksOK == \A url \in Given : IsLink(url) /\ url.scheme # "none"

ASSUME TextsOK == Endings \subseteq Seq(Characters) /\ Tails \subseteq Seq({")", "."})

VARIABLES
    box,            \* the URL of the form, or Nothing
    saved,          \* the URL of an entry, its key and, history, as it was typed
    shared          \* the end of the link in the text that was shared, and what is left
                    \* of it, once its suffix is trimmed

urlVars == <<box, saved, shared>>

Nothing == [scheme |-> "none"]
NoText == [link |-> <<>>, trimmed |-> <<>>]

-----------------------------------------------------------------------------
(* package urlutil and package netguard                                    *)

IPv6Hosts == {"2001:4860::8888"}

\* IsLocalhost and IsUnsafeIP
Unsafe(host) == host \in {"localhost", "app.localhost", "10.0.0.1", "::1"}

\* url.Parse of Go 1.26 takes brackets around an IPv6 address, once.
Parses(url) == url.brackets = IF url.host \in IPv6Hosts \cup {"::1"} THEN 1 ELSE 0

\* The errors of parsePublicHTTPURL
Valid(url) ==
    /\ Parses(url)
    /\ url.scheme \in {"http", "https"}
    /\ ~url.user
    /\ ~Unsafe(url.host)

DefaultPort(url) == IF url.scheme = "http" THEN "80" ELSE "443"

\* The result of parsePublicHTTPURL.  net.JoinHostPort puts brackets around a host
\* that has a colon, and such a host has got them already.
Canonical(url) ==
    LET port == IF url.port = DefaultPort(url) THEN "" ELSE url.port IN
    [url EXCEPT !.capitals = FALSE,
                !.port = port,
                !.brackets = IF url.host \notin IPv6Hosts THEN 0 ELSE IF port = "" THEN 1 ELSE 2]

\* The pairs at some places of a query, in their order.
PairsAt(query, places) ==
    LET Place(n) == CHOOSE p \in places : Cardinality({q \in places : q < p}) = n - 1
    IN [n \in 1..Cardinality(places) |-> query[Place(n)]]

PairsOf(query, key) == PairsAt(query, {n \in DOMAIN query : query[n].key = key})

\* url.ParseQuery drops the pairs that it cannot read, and parsed.Query its error.
ParseQuery(query) == PairsAt(query, {n \in DOMAIN query : query[n].readable})

\* parsed.Query.  Encode sorts it by key, so that it tells what the map does.
Values(query) == [k \in Keys |-> ParseQuery(PairsOf(query, k))]

IsMeaningful(k) == k \notin Tracking

\* Mutant of TrimSlashes: strings.TrimSuffix.
TrimOneSlash(url) == IF url.slashes = 0 THEN 0 ELSE url.slashes - 1

TrimSlashes(url) == 0

\* A path that is empty once it is trimmed is the root.  Without RawPath a slash that was
\* written %2F is a slash like the others.
Normalize(url) ==
    LET parsed == Canonical(url) IN
    [parsed EXCEPT !.fragment = FALSE,
                   !.slashes = IF parsed.path = "" THEN 1 ELSE TrimSlashes(parsed),
                   !.escaped = {},
                   !.query = Restrict(Values(parsed.query), {k \in Keys : IsMeaningful(k)})]

-----------------------------------------------------------------------------
(* A text that was shared: trimSharedLinkSuffix                            *)

Count(s, char) == Cardinality({n \in 1..Len(s) : s[n] = char})

\* Mutant of Closes: every bracket is taken for the sentence's.
ClosesAny(s) == Last(s) = ")"

\* The closing bracket is the sentence's: the link does not open it.
Closes(s) == Last(s) = ")" /\ Count(s, ")") > Count(s, "(")

\* The loop strips punctuation, then one bracket, until there is neither at the end.
Stops(s) == s # <<>> => ~(Last(s) = "." \/ Closes(s))

TrimShared(link) ==
    LET Rest(n) == SubSeq(link, 1, n)
        end == CHOOSE n \in 0..Len(link) :
                  Stops(Rest(n)) /\ \A m \in (n + 1)..Len(link) : ~Stops(Rest(m))
    IN Rest(end)

-----------------------------------------------------------------------------
UrlInit ==
    /\ box = Nothing
    /\ saved = Nothing
    /\ shared = NoText

\* CapturePage with ?url=: a URL that is not valid leaves the field empty.
Prefill(url) ==
    /\ box = Nothing
    /\ box' = IF Valid(url) THEN Canonical(url) ELSE Nothing
    /\ shared' = NoText
    /\ UNCHANGED saved

\* CapturePage with ?text=.  Bound: before anything is saved.
ShareText(link, tail) ==
    /\ box = Nothing /\ saved = Nothing /\ shared = NoText
    /\ shared' = [link |-> link, trimmed |-> TrimShared(link \o tail)]
    /\ UNCHANGED <<box, saved>>

TypeUrl(url) ==
    /\ box = Nothing
    /\ box' = url
    /\ shared' = NoText
    /\ UNCHANGED saved

\* The answer to POST /api/entries is an error, or the URL is stored.
SaveUrl ==
    /\ box # Nothing /\ saved = Nothing
    /\ Valid(box)
    /\ Valid(Canonical(box))
    /\ saved' = [source |-> Canonical(box), key |-> Normalize(Canonical(box)), typed |-> box]
    /\ box' = Nothing
    /\ UNCHANGED shared

LeaveForm ==
    /\ box' = Nothing /\ shared' = NoText
    /\ UNCHANGED saved

\* The row's link (SafeLinkURL) is shared from another device.
ShareRow ==
    /\ saved # Nothing /\ Valid(saved.source)
    /\ Prefill(Canonical(saved.source))

UrlNext ==
    \/ \E url \in Given : Prefill(url) \/ TypeUrl(url)
    \/ \E link \in Endings, tail \in Tails : ShareText(link, tail)
    \/ SaveUrl \/ LeaveForm
    \/ ShareRow

UrlSpec == UrlInit /\ [][UrlNext]_urlVars

-----------------------------------------------------------------------------
(* Properties                                                              *)

\* Two links to one page: scheme, host, port and path agree, up to capitals, the default
\* port and slashes at the end; encoded slashes are in the same places; and every key that
\* is no tracker has the same pairs in the same order.  Neither a fragment nor a bare
\* question mark says anything of the page.
SamePage(a, b) ==
    /\ a.scheme = b.scheme /\ a.host = b.host
    /\ a.port = b.port \/ {a.port, b.port} = {"", DefaultPort(a)}
    /\ a.path = b.path /\ a.escaped = b.escaped
    /\ \A k \in Keys \ Tracking : PairsOf(a.query, k) = PairsOf(b.query, k)

\* Every pair that says something of the page can be read.
AllRead(url) ==
    \A k \in Keys \ Tracking :
       LET pairs == PairsOf(url.query, k) IN \A n \in DOMAIN pairs : pairs[n].readable

\* Two spellings of one page have one key, unless just one of them ends with a bare question
\* mark.  Two links with one key are one page, unless they differ in encoded slashes or have
\* pairs that cannot be read: NormalizeURL loses both.
KeyIsThePage ==
    box # Nothing /\ saved # Nothing /\ Valid(box) =>
       LET typed == saved.typed
           sameKey == Normalize(Canonical(box)) = saved.key
       IN /\ SamePage(box, typed) /\ box.mark = typed.mark => sameKey
          /\ sameKey /\ box.escaped = typed.escaped /\ AllRead(box) /\ AllRead(typed) =>
                SamePage(box, typed)

Balanced(s) == /\ \A n \in 1..Len(s) : LET t == SubSeq(s, 1, n) IN Count(t, "(") >= Count(t, ")")
               /\ Count(s, "(") = Count(s, ")")

\* What a sentence puts after a link comes off, and nothing of a link whose brackets
\* are balanced.
SharedLinkSurvives ==
    shared # NoText /\ Balanced(shared.link) /\ Last(shared.link) # "." =>
       shared.trimmed = shared.link

\* ValidateSourceURL "validates and canonicalizes a user-submitted source URL before
\* storage" (normalize.go:60): what it accepts, Create can store.
WhatValidatesIsStored == box # Nothing /\ Valid(box) => Valid(Canonical(box))

-----------------------------------------------------------------------------
(* What is left of a text that was shared never depends on the form.       *)
ShareInv ==
    shared # NoText => \E link \in Endings, tail \in Tails :
       shared = [link |-> link, trimmed |-> TrimShared(link \o tail)]

\* What the form holds is a link, and the key of an entry is that of what was typed.
LinksInv ==
    /\ box # Nothing => IsLink(box)
    /\ saved # Nothing =>
          LET url == saved.typed IN
          /\ IsLink(url) /\ Valid(url)
          /\ saved = [source |-> Canonical(url), key |-> Normalize(Canonical(url)), typed |-> url]
=============================================================================
