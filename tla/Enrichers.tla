----------------------------- MODULE Enrichers ------------------------------
(***************************************************************************)
(* The enrichment of a link: the registry's choice of an enricher, the     *)
(* fetch with its redirects, and what is read from the page.  Names may    *)
(* resolve to another address each time they are looked up.                *)
(*                                                                         *)
(* A page is the sequence of the elements that its enricher reads, in the  *)
(* order of the walk.  An element is a record with a tag and the tag's     *)
(* text, seconds (0 if they make no sense) or JSON value.  The latter is a *)
(* sequence of nodes, each after the one that holds it: holder (0 at the   *)
(* root), isArray, and seconds, what parseDurationValue makes of a         *)
(* "duration" of its own (0: none, or none that is positive).              *)
(***************************************************************************)
EXTENDS Naturals, Sequences

CONSTANTS
    Jobs,           \* links: scheme, host and whether extractVideoID finds a video
    Hosts,          \* among them Podcasts and GoogleApis
    Podcasts, GoogleApis,
    Site,           \* Site[h]: the registrable domain of h
    EstimatesTime,  \* the hosts that classifySourceType takes for text
    WebPages, PodcastPages,
    MaxRedirects    \* maxRedirects

ASSUME HostsOK == {Podcasts, GoogleApis} \subseteq Hosts /\ Podcasts # GoogleApis

IsTree(json) ==
    /\ json \in Seq([holder : Nat, isArray : BOOLEAN, seconds : Nat])
    /\ \A n \in DOMAIN json : json[n].holder < n /\ (n > 1 => json[n].holder > 0)

ASSUME PagesOK == \A p \in PodcastPages : Len(p) \in Nat /\ \A n \in 1..Len(p) : IsTree(p[n].json)

VARIABLES
    job,            \* the link, or NoLink
    fetch,          \* the stage, the enricher, the URL it is at and its requests so far
    page,           \* the page
    read,           \* how many of its elements have been read
    found           \* the Result

fetchVars == <<job, fetch, page, read, found>>

NoLink == [scheme |-> "none"]
NoFetch == [stage |-> "idle"]
Blank == ""

Enricher(name) == [youtube  |-> [priority |-> 10,  hosts |-> {GoogleApis}],
                   podcast  |-> [priority |-> 20,  hosts |-> {Podcasts}],
                   web      |-> [priority |-> 100, hosts |-> Hosts]][name]

CanHandle(name, link) ==
    CASE name = "youtube" -> link.video
      [] name = "podcast" -> link.host = Podcasts
      [] name = "web"     -> TRUE

\* Registry.Enrich: the first by priority that can handle the link, and no other.
Choice(registered, link) ==
    CHOOSE name \in registered :
       /\ CanHandle(name, link)
       /\ \A other \in registered : CanHandle(other, link) =>
             Enricher(name).priority <= Enricher(other).priority

NoResult == [title |-> Blank, description |-> Blank, runtime |-> 0, key |-> Blank]

FetchInit ==
    /\ job = NoLink
    /\ fetch = NoFetch
    /\ page = <<>> /\ read = 0
    /\ found = NoResult

\* main.go registers YouTube only with an API key.
Enrich(link, registered) ==
    /\ fetch = NoFetch
    /\ job' = link
    /\ LET by == Choice(registered, link) IN
       fetch' = [stage |-> IF by = "youtube" THEN "dial" ELSE "check", by |-> by,
                 at |-> IF by = "youtube" THEN [scheme |-> "https", host |-> GoogleApis]
                        ELSE [scheme |-> link.scheme, host |-> link.host],
                 requests |-> 0]
    /\ UNCHANGED <<page, read, found>>

Fail ==
    /\ fetch' = [fetch EXCEPT !.stage = "failed"]
    /\ UNCHANGED <<job, page, read, found>>

\* The addresses that a look-up may return at any time.
Addresses == {"public", "private", "none"}

\* validateFetchURL
CheckUrl ==
    /\ fetch.stage = "check"
    /\ \E address \in Addresses :
          IF fetch.at.scheme \in {"http", "https"} /\ address = "public"
          THEN /\ fetch' = [fetch EXCEPT !.stage = "dial"]
               /\ UNCHANGED <<job, page, read, found>>
          ELSE Fail

\* safeDialContext looks the name up once more and checks what it is connected to.
Dial ==
    /\ fetch.stage = "dial"
    /\ \E address \in Addresses :
          IF address = "public"
          THEN /\ fetch' = [fetch EXCEPT !.stage = "sent", !.requests = @ + 1]
               /\ UNCHANGED <<job, page, read, found>>
          ELSE Fail

\* CheckRedirect
Follows(to, address) ==
    /\ fetch.requests < MaxRedirects
    /\ to.scheme = "https" \/ (to.scheme = "http" /\ fetch.by # "youtube")
    /\ address = "public"
    /\ to.host \in Enricher(fetch.by).hosts

Redirected ==
    /\ fetch.stage = "sent"
    /\ \E scheme \in {"http", "https", "ftp"}, host \in Hosts, address \in Addresses :
          LET to == [scheme |-> scheme, host |-> host] IN
          IF Follows(to, address)
          THEN /\ fetch' = [fetch EXCEPT !.stage = "dial", !.at = to]
               /\ UNCHANGED <<job, page, read, found>>
          ELSE Fail

\* A status that is no success, a time-out, a page that cannot be read, no such video.
FetchFails ==
    /\ fetch.stage \in {"check", "dial", "sent"}
    /\ Fail

\* YouTube's answer gives the video's own title, text and time; its key is the video.
ReceiveVideo ==
    /\ fetch.stage = "sent" /\ fetch.by = "youtube"
    /\ \E seconds \in {0, 60} :
          found' = [title |-> "snippet", description |-> "snippet", runtime |-> seconds,
                    key |-> "video"]
    /\ fetch' = [fetch EXCEPT !.stage = "done"]
    /\ UNCHANGED <<job, page, read>>

ReceivePage ==
    /\ fetch.stage = "sent" /\ fetch.by # "youtube"
    /\ page' \in IF fetch.by = "web" THEN WebPages ELSE PodcastPages
    /\ UNCHANGED read
    /\ found' = [found EXCEPT !.key = fetch.at.host]
    /\ fetch' = [fetch EXCEPT !.stage = "reading"]
    /\ UNCHANGED job

-----------------------------------------------------------------------------
(* extractMetadata and extractPodcastMetadata                              *)

\* Mutant of Overrides: whichever element comes first.
OverridesNothing(field) == FALSE

\* The element gives the field its value whatever it holds, or only if it is blank.
Overrides(field) == field \in {"og:title", "og:description"}
Fills(field) ==
    field \in {"og:title", "og:description"} \cup IF fetch.by = "web" THEN {"title", "description"}
              ELSE {"apple:title", "apple:description"}

Titles == {"og:title", "title", "apple:title"}
Descriptions == {"og:description", "description", "apple:description"}
FieldOf(tag) == IF tag \in Titles THEN "title" ELSE "description"

\* Mutant of OnSite: the site of the link that was captured.
OnSiteAsked(host) == Site[host] = Site[job.host]

\* resolveCanonicalURL
OnSite(host) == Site[host] = Site[fetch.at.host]

\* Mutant of MusicDuration: a value that is no positive number counts.
MusicDurationAny(seconds) == seconds

MusicDuration(seconds) == IF seconds > 0 THEN seconds ELSE found.runtime

Held(json, n) == {k \in DOMAIN json : json[k].holder = n}

\* findDurationSeconds of node n: what it may return, {} for 0, given what it may return
\* of those that n holds.  It looks through objects in the random order of Go's maps and
\* through arrays from the front.
FoundAt(json, n, find) ==
    LET good == {k \in Held(json, n) : find[k] # {}} IN
    IF json[n].seconds > 0 THEN {json[n].seconds}
    ELSE IF json[n].isArray /\ good # {} THEN find[CHOOSE k \in good : \A l \in good : k <= l]
    ELSE UNION {find[k] : k \in good}

Durations(json) ==
    LET find[n \in DOMAIN json] == FoundAt(json, n, find)
    IN IF json = <<>> THEN {} ELSE find[1]

ReadElement ==
    /\ fetch.stage = "reading" /\ read < Len(page)
    /\ read' = read + 1
    /\ LET element == page[read']  tag == element.tag  text == element.text IN
       \/ /\ tag \in Titles \cup Descriptions
          /\ LET field == FieldOf(tag) IN
             found' = IF text # Blank /\ (Overrides(tag) \/ (Fills(tag) /\ found[field] = Blank))
                      THEN [found EXCEPT ![field] = text] ELSE found
       \/ /\ tag = "canonical"
          /\ found' = IF text \in Hosts /\ OnSite(text) THEN [found EXCEPT !.key = text]
                      ELSE found
       \/ /\ tag = "music:duration"
          /\ found' = [found EXCEPT !.runtime = MusicDuration(element.seconds)]
       \/ /\ tag = "ld+json"
          /\ \E seconds \in IF Durations(element.json) = {} THEN {0} ELSE Durations(element.json) :
                found' = IF found.runtime = 0 THEN [found EXCEPT !.runtime = seconds] ELSE found
    /\ UNCHANGED <<job, fetch, page>>

\* The web enricher estimates how long a text takes to read, if it has any words.
FinishPage ==
    /\ fetch.stage = "reading" /\ read = Len(page)
    /\ \E estimate \in {0, 300} :
          found' = IF fetch.by = "web" /\ job.host \in EstimatesTime
                   THEN [found EXCEPT !.runtime = estimate] ELSE found
    /\ fetch' = [fetch EXCEPT !.stage = "done"]
    /\ UNCHANGED <<job, page, read>>

FetchNext ==
    \/ \E link \in Jobs, registered \in {{"web", "podcast"}, {"web", "podcast", "youtube"}} :
          Enrich(link, registered)
    \/ CheckUrl \/ Dial \/ Redirected \/ FetchFails
    \/ ReceiveVideo \/ ReceivePage
    \/ ReadElement \/ FinishPage

FetchSpec == FetchInit /\ [][FetchNext]_fetchVars

-----------------------------------------------------------------------------
(* Properties                                                              *)

IsFirst(n, S) == n \in S /\ \A m \in S : n <= m
IsLast(n, S) == n \in S /\ \A m \in S : m <= n

PageIsRead == fetch.stage = "done" /\ fetch.by # "youtube"

\* Those of the first k elements with this tag that say something.
Tagged(tag, k) == {n \in 1..k : page[n].tag = tag /\ page[n].text # Blank}

Best(text, graph, plain, k) ==
    IF Tagged(graph, k) # {}
    THEN \E n \in Tagged(graph, k) : IsLast(n, Tagged(graph, k)) /\ text = page[n].text
    ELSE IF Tagged(plain, k) # {}
    THEN \E n \in Tagged(plain, k) : IsFirst(n, Tagged(plain, k)) /\ text = page[n].text
    ELSE text = Blank

BestTags(k) ==
    /\ Best(found.title, "og:title", IF fetch.by = "web" THEN "title" ELSE "apple:title", k)
    /\ Best(found.description, "og:description",
            IF fetch.by = "web" THEN "description" ELSE "apple:description", k)

\* "Open Graph tags take priority" (web.go:115), in whatever order the page has them, and
\* blank ones do not count.
BestTagWins == PageIsRead => BestTags(Len(page))

Positive(k) == {n \in 1..k : page[n].tag = "music:duration" /\ page[n].seconds > 0}
SecondsIn(json) == {json[n].seconds : n \in DOMAIN json} \ {0}
Scripts(k) == {n \in 1..k : page[n].tag = "ld+json" /\ SecondsIn(page[n].json) # {}}

Duration(seconds, k) ==
    IF Positive(k) # {}
    THEN \E n \in Positive(k) : IsLast(n, Positive(k)) /\ seconds = page[n].seconds
    ELSE IF Scripts(k) # {}
    THEN \E n \in Scripts(k) : IsFirst(n, Scripts(k)) /\ seconds \in SecondsIn(page[n].json)
    ELSE seconds = 0

\* A podcast's duration is found if the page has one anywhere: "malformed metadata cannot
\* suppress a valid JSON-LD duration below" (podcast.go:142).
DurationIsFound == PageIsRead /\ fetch.by = "podcast" => Duration(found.runtime, Len(page))

\* The canonical URL keys the summary cache: it is on the site that the page was read
\* from, whatever the links and the redirects say, or it is the video's.
SummaryKeyIsThePages ==
    fetch.stage = "done" =>
       IF fetch.by = "youtube" THEN found.key = "video" ELSE Site[found.key] = Site[fetch.at.host]

-----------------------------------------------------------------------------
(* Why: what was found is what the elements that were read have to say.    *)
OnPage(k) ==
    /\ BestTags(k)
    /\ Site[found.key] = Site[fetch.at.host]

FetchInv ==
    /\ fetch = NoFetch \/
          fetch = [stage |-> fetch.stage, by |-> fetch.by, at |-> fetch.at, requests |-> fetch.requests]
    /\ found = [title |-> found.title, description |-> found.description,
                runtime |-> found.runtime, key |-> found.key]
    /\ fetch.stage \in {"idle", "check", "dial", "sent", "reading", "done", "failed"}
    /\ fetch.stage \in {"idle", "check", "dial", "sent"} =>
          found.title = Blank /\ found.description = Blank /\ found.runtime = 0 /\ read = 0
    /\ fetch.stage = "reading" =>
          /\ fetch.by # "youtube" /\ read \in Nat /\ OnPage(read)
          /\ fetch.by = "podcast" => page \in PodcastPages /\ read <= Len(page) /\ Duration(found.runtime, read)
    /\ fetch.stage = "done" =>
          IF fetch.by = "youtube" THEN found.key = "video"
          ELSE OnPage(Len(page)) /\ (fetch.by = "podcast" => Duration(found.runtime, Len(page)))
=============================================================================
