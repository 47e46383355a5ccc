------------------------- MODULE ComputationProofs --------------------------
(***************************************************************************)
(* Theorems about what the program computes: the keys of links and the     *)
(* text around them (Urls), what a page says of itself (Enrichers) and the *)
(* sums of a report (Report), for any links, pages, zones and entries.     *)
(***************************************************************************)
EXTENDS Urls, Enrichers, Report, FiniteSetTheorems, SequenceTheorems,
        WellFoundedInduction, NaturalsInduction, TLAPS

-----------------------------------------------------------------------------
(* Urls                                                                    *)

\* The characters of a text are counted.
LEMMA CountType ==
  ASSUME NEW s, Len(s) \in Nat, NEW char
  PROVE  /\ IsFiniteSet({n \in 1..Len(s) : s[n] = char})
         /\ Count(s, char) \in Nat
<1>1. IsFiniteSet(1..Len(s))
  BY FS_Interval
<1>2. QED
  BY <1>1, FS_Subset, FS_CardinalityType DEF Count

\* trimSharedLinkSuffix of a link whose brackets match and that ends with no punctuation,
\* and of a tail of punctuation and closing brackets: the tail comes off, and nothing else.
LEMMA TailsComeOff ==
  ASSUME NEW link \in Seq(Characters), NEW tail \in Seq({")", "."}),
         Count(link, "(") = Count(link, ")"), link # <<>> => Last(link) # "."
  PROVE  TrimShared(link \o tail) = link
<1> DEFINE w == link \o tail  L == Len(link)
           Rest(n) == SubSeq(w, 1, n)
           Ends(n) == Stops(Rest(n)) /\ \A m \in (n + 1)..Len(w) : ~Stops(Rest(m))
<1>1. /\ w \in Seq(Characters) /\ Len(w) = L + Len(tail) /\ L \in Nat /\ Len(tail) \in Nat
      /\ \A n \in 1..L : w[n] = link[n]
      /\ \A n \in (L + 1)..Len(w) : w[n] \in {")", "."}
  <2>1. tail \in Seq(Characters) /\ w \in Seq(Characters)
    BY DEF Characters
  <2>2. Len(w) = L + Len(tail) /\ L \in Nat /\ Len(tail) \in Nat
    BY <2>1
  <2>3. \A n \in 1..L : w[n] = link[n]
    BY <2>1
  <2>4. ASSUME NEW n \in (L + 1)..Len(w) PROVE w[n] \in {")", "."}
    <3>1. w[n] = tail[n - L] /\ n - L \in 1..Len(tail)
      BY <2>1, <2>2
    <3>2. QED
      BY <3>1
  <2>5. QED
    BY <2>1, <2>2, <2>3, <2>4
<1> HIDE DEF w
<1>2. ASSUME NEW n \in 0..Len(w)
      PROVE  /\ Rest(n) \in Seq(Characters) /\ Len(Rest(n)) = n
             /\ \A i \in 1..n : Rest(n)[i] = w[i]
  BY <1>1
<1>3. Rest(L) = link
  <2>1. L \in 0..Len(w)
    BY <1>1
  <2> HIDE DEF Rest
  <2>2. Len(Rest(L)) = Len(link) /\ \A i \in 1..Len(link) : Rest(L)[i] = link[i]
    BY <1>1, <1>2, <2>1
  <2>3. QED
    BY <1>2, <2>1, <2>2, SeqEqual
<1>4. Stops(link)
  <2>1. Len(link) \in Nat
    BY <1>1
  <2>2. Count(link, "(") \in Nat
    BY <2>1, CountType
  <2>3. QED
    BY <2>2 DEF Stops, Closes
<1> HIDE DEF Rest
<1>5. ASSUME NEW m \in (L + 1)..Len(w) PROVE ~Stops(Rest(m))
  <2> DEFINE s == Rest(m)
  <2>1. s \in Seq(Characters) /\ Len(s) = m /\ \A i \in 1..m : s[i] = w[i]
    BY <1>1, <1>2
  <2>2. s # <<>> /\ Last(s) = w[m] /\ w[m] \in {")", "."}
    BY <1>1, <2>1 DEF Last
  <2>3. Len(s) \in Nat /\ Len(link) \in Nat /\ m \in (L + 1)..Len(w) /\ Len(link) = L
    BY <1>1, <2>1
  <2> HIDE DEF s, L
  <2>4. ASSUME w[m] = ")" PROVE Count(s, ")") > Count(s, "(")
    <3> DEFINE open == {n \in 1..Len(link) : link[n] = "("}
               open1 == {n \in 1..Len(s) : s[n] = "("}
               close == {n \in 1..Len(link) : link[n] = ")"}
               close1 == {n \in 1..Len(s) : s[n] = ")"}
    <3>1. open1 = open
      <4>1. \A n \in 1..Len(link) : n \in 1..Len(s) /\ s[n] = link[n]
        BY <1>1, <2>1, <2>3
      <4>2. \A n \in 1..Len(s) : n \notin 1..Len(link) => s[n] \in {")", "."}
        BY <1>1, <2>1, <2>3
      <4>3. QED
        BY <4>1, <4>2
    <3>2. close \subseteq close1 /\ m \in close1 /\ m \notin close
      BY <1>1, <2>1, <2>3, <2>4
    <3>3. IsFiniteSet(close) /\ IsFiniteSet(close1)
      BY <2>3, CountType
    <3> HIDE DEF close, open, close1, open1
    <3>4. Cardinality(close \cup {m}) = Cardinality(close) + 1 /\ Cardinality(close) \in Nat
      BY <3>2, <3>3, FS_AddElement, FS_CardinalityType
    <3>5. Cardinality(close \cup {m}) <= Cardinality(close1) /\ Cardinality(close1) \in Nat
      BY <3>2, <3>3, FS_Subset, FS_CardinalityType
    <3>6. Cardinality(close) = Cardinality(open)
      BY DEF Count, close, open
    <3>7. Cardinality(close1) > Cardinality(open)
      BY <3>4, <3>5, <3>6
    <3>8. QED
      BY <3>1, <3>7 DEF Count, close1, open1
  <2>5. QED
    BY <2>2, <2>4 DEF s, Stops, Closes
<1>6. L \in 0..Len(w) /\ Ends(L)
  BY <1>1, <1>3, <1>4, <1>5
<1>7. \A n \in 0..Len(w) : Ends(n) => n = L
  BY <1>1, <1>3, <1>4, <1>5
<1>8. (CHOOSE n \in 0..Len(w) : Ends(n)) = L
  <2> HIDE DEF Ends
  <2>1. QED
    BY <1>6, <1>7
<1>9. TrimShared(w) = Rest(CHOOSE n \in 0..Len(w) : Ends(n))
  BY DEF TrimShared, Rest
<1>10. QED
  BY <1>3, <1>8, <1>9 DEF w

\* SharedLinkSurvives of the runs, for any ends of links and any tails: nothing of a link
\* whose brackets are balanced is lost, and nothing of the sentence around it is left.
THEOREM LinksSurvive == UrlSpec => []SharedLinkSurvives
<1>1. UrlInit => ShareInv
  BY DEF UrlInit, ShareInv
<1>2. ShareInv /\ [UrlNext]_urlVars => ShareInv'
  BY DEF ShareInv, UrlNext, urlVars, Prefill, TypeUrl, ShareText, SaveUrl, LeaveForm, ShareRow
<1>3. ShareInv => SharedLinkSurvives
  <2> SUFFICES ASSUME ShareInv, shared # NoText, Balanced(shared.link), Last(shared.link) # "."
               PROVE  shared.trimmed = shared.link
    BY DEF SharedLinkSurvives
  <2>1. PICK link \in Endings, tail \in Tails :
           shared = [link |-> link, trimmed |-> TrimShared(link \o tail)]
    BY DEF ShareInv
  <2>2. Count(link, "(") = Count(link, ")") /\ Last(link) # "."
    BY <2>1 DEF Balanced
  <2>3. TrimShared(link \o tail) = link
    BY <2>2, TailsComeOff, TextsOK
  <2>4. QED
    BY <2>1, <2>3
<1>4. QED
  BY <1>1, <1>2, <1>3, PTL DEF UrlSpec

(***************************************************************************)
(* The key of a link: NormalizeURL after ValidateSourceURL.                *)
(***************************************************************************)

\* The port that parsePublicHTTPURL keeps.
Port(url) == IF url.port = DefaultPort(url) THEN "" ELSE url.port

\* The brackets that net.JoinHostPort leaves around the host.
Brackets(url) == IF url.host \notin IPv6Hosts THEN 0 ELSE IF Port(url) = "" THEN 1 ELSE 2

\* What parsePublicHTTPURL makes of a part.
CanonicalPart(url, p) ==
    IF p = "capitals" THEN FALSE
    ELSE IF p = "port" THEN Port(url)
    ELSE IF p = "brackets" THEN Brackets(url)
    ELSE url[p]

\* The queries that are alike in what NormalizeURL leaves of them.
Telling(pairs) == Restrict(Values(pairs), {k \in Keys : IsMeaningful(k)})

\* What NormalizeURL makes of a part.
KeyPart(url, p) ==
    IF p = "fragment" THEN FALSE
    ELSE IF p = "slashes" THEN IF url.path = "" THEN 1 ELSE 0
    ELSE IF p = "escaped" THEN {}
    ELSE IF p = "query" THEN Telling(url.query)
    ELSE CanonicalPart(url, p)

\* parsePublicHTTPURL, part by part.
LEMMA CanonicalParts ==
  ASSUME NEW url, IsLink(url)
  PROVE  Canonical(url) = [p \in Parts |-> CanonicalPart(url, p)]
<1> DEFINE port == Port(url)  brackets == Brackets(url)
<1>1. DOMAIN url = Parts /\ url = [p \in Parts |-> url[p]]
  BY DEF IsLink
<1>2. Canonical(url) = [url EXCEPT !.capitals = FALSE, !.port = port, !.brackets = brackets]
  BY DEF Canonical, Port, Brackets
<1> HIDE DEF port, brackets
<1>3. [url EXCEPT !.capitals = FALSE, !.port = port, !.brackets = brackets] =
        [p \in Parts |-> IF p = "brackets" THEN brackets ELSE IF p = "port" THEN port
                         ELSE IF p = "capitals" THEN FALSE ELSE url[p]]
  BY <1>1
<1>4. QED
  BY <1>2, <1>3 DEF CanonicalPart, port, brackets

\* What parsePublicHTTPURL returns is a URL like another: it can be stored and given again.
LEMMA CanonicalIsLink ==
  ASSUME NEW url, IsLink(url)
  PROVE  IsLink(Canonical(url))
<1> DEFINE c == Canonical(url)
<1>1. c = [p \in Parts |-> CanonicalPart(url, p)]
  BY CanonicalParts
<1> HIDE DEF c
<1>2. c.user = url.user /\ c.query = url.query
  BY <1>1 DEF Parts, CanonicalPart
<1>3. QED
  BY <1>1, <1>2 DEF IsLink, c

\* NormalizeURL of what was stored, part by part: to store the URL first changes nothing.
LEMMA KeyParts ==
  ASSUME NEW url, IsLink(url)
  PROVE  Normalize(Canonical(url)) = [p \in Parts |-> KeyPart(url, p)]
<1> DEFINE c == Canonical(url)  d == Canonical(c)
           slashes == IF url.path = "" THEN 1 ELSE 0  telling == Telling(url.query)
<1>1. IsLink(c) /\ c = [p \in Parts |-> CanonicalPart(url, p)]
  BY CanonicalIsLink, CanonicalParts
<1>2. IsLink(d) /\ d = [p \in Parts |-> CanonicalPart(c, p)]
  BY <1>1, CanonicalIsLink, CanonicalParts
<1> HIDE DEF c, d
<1>3. /\ c.scheme = url.scheme /\ c.host = url.host /\ c.path = url.path
      /\ c.query = url.query /\ c.port = Port(url)
  BY <1>1 DEF Parts, CanonicalPart
<1>4. Port(c) = Port(url)
  BY <1>3 DEF Port, DefaultPort
<1>5. Brackets(c) = Brackets(url)
  BY <1>3, <1>4 DEF Brackets
<1>6. \A p \in Parts : CanonicalPart(c, p) = CanonicalPart(url, p)
  BY <1>1, <1>4, <1>5 DEF CanonicalPart
<1>7. d = [p \in Parts |-> CanonicalPart(url, p)]
  BY <1>2, <1>6
<1>8. d.path = url.path /\ d.query = url.query
  BY <1>7 DEF Parts, CanonicalPart
<1>9. Normalize(c) = [d EXCEPT !.fragment = FALSE, !.slashes = slashes, !.escaped = {}, !.query = telling]
  BY <1>8 DEF Normalize, TrimSlashes, Telling, d
<1> HIDE DEF slashes, telling
<1>10. [d EXCEPT !.fragment = FALSE, !.slashes = slashes, !.escaped = {}, !.query = telling] =
         [p \in Parts |-> IF p = "query" THEN telling ELSE IF p = "escaped" THEN {}
                          ELSE IF p = "slashes" THEN slashes ELSE IF p = "fragment" THEN FALSE
                          ELSE d[p]]
  BY <1>7
<1>11. \A p \in Parts : d[p] = CanonicalPart(url, p)
  BY <1>7
<1>12. QED
  BY <1>9, <1>10, <1>11 DEF KeyPart, slashes, telling, c

\* Two keys are equal when they are equal in every part.
LEMMA KeysAlike ==
  ASSUME NEW a, NEW b, IsLink(a), IsLink(b)
  PROVE  Normalize(Canonical(a)) = Normalize(Canonical(b)) <=>
           /\ a.scheme = b.scheme /\ a.user = b.user /\ a.host = b.host
           /\ Brackets(a) = Brackets(b) /\ Port(a) = Port(b) /\ a.path = b.path
           /\ Telling(a.query) = Telling(b.query) /\ a.mark = b.mark
<1>1. Normalize(Canonical(a)) = Normalize(Canonical(b)) <=> \A p \in Parts : KeyPart(a, p) = KeyPart(b, p)
  <2>1. /\ Normalize(Canonical(a)) = [p \in Parts |-> KeyPart(a, p)]
        /\ Normalize(Canonical(b)) = [p \in Parts |-> KeyPart(b, p)]
    BY KeyParts
  <2>2. QED
    BY <2>1
<1>2. ASSUME \A p \in Parts : KeyPart(a, p) = KeyPart(b, p)
      PROVE  /\ a.scheme = b.scheme /\ a.user = b.user /\ a.host = b.host
             /\ Brackets(a) = Brackets(b) /\ Port(a) = Port(b) /\ a.path = b.path
             /\ Telling(a.query) = Telling(b.query) /\ a.mark = b.mark
  BY <1>2 DEF Parts, KeyPart, CanonicalPart
<1>3. ASSUME /\ a.scheme = b.scheme /\ a.user = b.user /\ a.host = b.host
             /\ Brackets(a) = Brackets(b) /\ Port(a) = Port(b) /\ a.path = b.path
             /\ Telling(a.query) = Telling(b.query) /\ a.mark = b.mark
      PROVE  \A p \in Parts : KeyPart(a, p) = KeyPart(b, p)
  BY <1>3 DEF Parts, KeyPart, CanonicalPart
<1>4. QED
  BY <1>1, <1>2, <1>3

\* Two ports are alike once the default one is left out.
LEMMA Defaults ==
  ASSUME NEW none, NEW default, NEW p, NEW q, default # none
  PROVE  (IF p = default THEN none ELSE p) = (IF q = default THEN none ELSE q) <=>
           p = q \/ {p, q} = {none, default}
OBVIOUS

\* All places of a sequence, in their order.
LEMMA AllPlaces ==
  ASSUME NEW s, NEW N \in Nat, s = [n \in 1..N |-> s[n]]
  PROVE  PairsAt(s, 1..N) = s
<1> DEFINE Place(n) == CHOOSE p \in 1..N : Cardinality({q \in 1..N : q < p}) = n - 1
<1>1. ASSUME NEW m \in Nat PROVE Cardinality(1..m) = m
  BY FS_Interval
<1>2. ASSUME NEW p \in 1..N PROVE Cardinality({q \in 1..N : q < p}) = p - 1
  <2>1. {q \in 1..N : q < p} = 1..(p - 1)
    OBVIOUS
  <2>2. p - 1 \in Nat
    OBVIOUS
  <2>3. QED
    BY <1>1, <2>1, <2>2
<1>3. ASSUME NEW n \in 1..N PROVE Place(n) = n
  BY <1>2
<1> HIDE DEF Place
<1>4. [n \in 1..N |-> s[Place(n)]] = [n \in 1..N |-> s[n]]
  BY <1>3
<1>5. PairsAt(s, 1..N) = [n \in 1..N |-> s[Place(n)]]
  BY <1>1 DEF PairsAt, Place
<1>6. QED
  BY <1>4, <1>5

\* url.ParseQuery keeps the pairs of a key if it can read them all.
LEMMA ReadPairs ==
  ASSUME NEW url, IsLink(url), NEW k, \A n \in DOMAIN PairsOf(url.query, k) : PairsOf(url.query, k)[n].readable
  PROVE  ParseQuery(PairsOf(url.query, k)) = PairsOf(url.query, k)
<1> DEFINE places == {n \in DOMAIN url.query : url.query[n].key = k}
           N == Cardinality(places)
           pairs == PairsOf(url.query, k)
<1>1. N \in Nat
  <2>1. Len(url.query) \in Nat /\ places \subseteq 1..Len(url.query)
    BY DEF IsLink
  <2> HIDE DEF places
  <2>2. IsFiniteSet(1..Len(url.query))
    BY <2>1, FS_Interval
  <2>3. QED
    BY <2>1, <2>2, FS_Subset, FS_CardinalityType
<1> HIDE DEF N
<1>2. pairs = [n \in 1..N |-> pairs[n]] /\ DOMAIN pairs = 1..N
  BY DEF PairsOf, PairsAt, N
<1> HIDE DEF pairs
<1>3. {n \in DOMAIN pairs : pairs[n].readable} = 1..N
  BY <1>2 DEF pairs
<1>4. QED
  BY <1>1, <1>2, <1>3, AllPlaces DEF ParseQuery, pairs

\* Two valid links to one page have one key, up to a bare question mark, and two with one
\* key are one page if their encoded slashes agree and all that they say can be read.
LEMMA KeysDiffer ==
  ASSUME NEW a, NEW b, IsLink(a), IsLink(b), Valid(a), Valid(b)
  PROVE  LET sameKey == Normalize(Canonical(a)) = Normalize(Canonical(b)) IN
         /\ SamePage(a, b) /\ a.mark = b.mark => sameKey
         /\ sameKey /\ a.escaped = b.escaped /\ AllRead(a) /\ AllRead(b) => SamePage(a, b)
<1>1. /\ Telling(a.query) = Telling(b.query) <=>
            \A k \in Keys \ Tracking : Values(a.query)[k] = Values(b.query)[k]
      /\ \A k \in Keys \ Tracking :
            /\ Values(a.query)[k] = ParseQuery(PairsOf(a.query, k))
            /\ Values(b.query)[k] = ParseQuery(PairsOf(b.query, k))
  <2> DEFINE M == {k \in Keys : IsMeaningful(k)}  va == Values(a.query)  vb == Values(b.query)
  <2>1. M = Keys \ Tracking
    BY DEF IsMeaningful
  <2>2. Telling(a.query) = [k \in M |-> va[k]] /\ Telling(b.query) = [k \in M |-> vb[k]]
    BY DEF Telling, Restrict
  <2> HIDE DEF M, va, vb
  <2>3. Telling(a.query) = Telling(b.query) <=> \A k \in Keys \ Tracking : va[k] = vb[k]
    BY <2>1, <2>2
  <2>4. QED
    BY <2>3 DEF va, vb, Values
<1>2. ASSUME \A k \in Keys \ Tracking : PairsOf(a.query, k) = PairsOf(b.query, k)
      PROVE  Telling(a.query) = Telling(b.query)
  BY <1>1, <1>2
<1>3. ASSUME Telling(a.query) = Telling(b.query), AllRead(a), AllRead(b),
             NEW k \in Keys \ Tracking
      PROVE  PairsOf(a.query, k) = PairsOf(b.query, k)
  <2>1. /\ \A n \in DOMAIN PairsOf(a.query, k) : PairsOf(a.query, k)[n].readable
        /\ \A n \in DOMAIN PairsOf(b.query, k) : PairsOf(b.query, k)[n].readable
    BY <1>3 DEF AllRead
  <2>2. /\ ParseQuery(PairsOf(a.query, k)) = PairsOf(a.query, k)
        /\ ParseQuery(PairsOf(b.query, k)) = PairsOf(b.query, k)
    BY <2>1, ReadPairs
  <2>3. ParseQuery(PairsOf(a.query, k)) = ParseQuery(PairsOf(b.query, k))
    BY <1>1, <1>3
  <2>4. QED
    BY <2>2, <2>3
<1>4. a.user = b.user
  <2>1. a.user \in BOOLEAN /\ b.user \in BOOLEAN
    BY DEF IsLink
  <2>2. QED
    BY <2>1 DEF Valid
<1>5. ASSUME a.scheme = b.scheme, a.host = b.host
      PROVE  /\ Port(a) = Port(b) => Brackets(a) = Brackets(b)
             /\ Port(a) = Port(b) <=> a.port = b.port \/ {a.port, b.port} = {"", DefaultPort(a)}
  <2>1. DefaultPort(a) = DefaultPort(b) /\ DefaultPort(a) # ""
    BY <1>5 DEF DefaultPort
  <2>2. Port(a) = Port(b) => Brackets(a) = Brackets(b)
    BY <1>5 DEF Brackets
  <2>3. Port(a) = Port(b) <=> a.port = b.port \/ {a.port, b.port} = {"", DefaultPort(a)}
    <3> DEFINE Kept(p) == IF p = DefaultPort(a) THEN "" ELSE p
    <3>1. Port(a) = Kept(a.port) /\ Port(b) = Kept(b.port)
      BY <2>1 DEF Port
    <3>2. Kept(a.port) = Kept(b.port) <=> a.port = b.port \/ {a.port, b.port} = {"", DefaultPort(a)}
      <4>1. ASSUME NEW p, NEW q, NEW default, default # ""
            PROVE  (IF p = default THEN "" ELSE p) = (IF q = default THEN "" ELSE q) <=>
                      p = q \/ {p, q} = {"", default}
        BY <4>1, Defaults
      <4>2. QED
        BY <2>1, <4>1
    <3> HIDE DEF Kept
    <3>3. QED
      BY <3>1, <3>2
  <2>4. QED
    BY <2>2, <2>3
<1>6. QED
  BY <1>2, <1>3, <1>4, <1>5, KeysAlike DEF SamePage

\* LinksInv, of one value of each variable.
BoxHolds(b) == b # Nothing => IsLink(b)

\* LinksInv, of the URL of an entry.
SavedHolds(s) ==
    s # Nothing =>
       LET url == s.typed IN
       /\ IsLink(url) /\ Valid(url)
       /\ s = [source |-> Canonical(url), key |-> Normalize(Canonical(url)), typed |-> url]

\* Whatever is typed, shared or saved, the form holds a link and the stored key is the one
\* of what was typed.
LEMMA LinksStep == LinksInv /\ [UrlNext]_urlVars => LinksInv'
<1> SUFFICES ASSUME LinksInv, [UrlNext]_urlVars PROVE LinksInv'
  OBVIOUS
<1>1. BoxHolds(box) /\ SavedHolds(saved)
  BY DEF LinksInv, BoxHolds, SavedHolds
<1>2. ASSUME NEW url, IsLink(url), Prefill(url)
      PROVE  BoxHolds(box') /\ SavedHolds(saved')
  <2>1. saved' = saved /\ box' \in {Canonical(url), Nothing}
    BY <1>2 DEF Prefill
  <2>2. QED
    BY <1>1, <1>2, <2>1, CanonicalIsLink DEF BoxHolds
<1>3. ASSUME NEW url \in Given, TypeUrl(url)
      PROVE  BoxHolds(box') /\ SavedHolds(saved')
  BY <1>1, <1>3, LinksOK DEF TypeUrl, BoxHolds
<1>4. ASSUME NEW link, NEW tail, ShareText(link, tail)
      PROVE  BoxHolds(box') /\ SavedHolds(saved')
  BY <1>1, <1>4 DEF ShareText
<1>5. ASSUME SaveUrl
      PROVE  BoxHolds(box') /\ SavedHolds(saved')
  <2>1. /\ IsLink(box) /\ Valid(box) /\ box' = Nothing
        /\ saved' = [source |-> Canonical(box), key |-> Normalize(Canonical(box)), typed |-> box]
    BY <1>1, <1>5 DEF SaveUrl, BoxHolds
  <2>2. saved'.typed = box
    BY <2>1
  <2>3. QED
    BY <2>1, <2>2 DEF SavedHolds, BoxHolds
<1>6. ASSUME LeaveForm
      PROVE  BoxHolds(box') /\ SavedHolds(saved')
  BY <1>1, <1>6 DEF LeaveForm, BoxHolds
<1>7. ASSUME ShareRow
      PROVE  BoxHolds(box') /\ SavedHolds(saved')
  <2> DEFINE u == saved.typed
  <2>1. IsLink(u) /\ saved = [source |-> Canonical(u), key |-> Normalize(Canonical(u)), typed |-> u]
    BY <1>1, <1>7 DEF ShareRow, SavedHolds
  <2> HIDE DEF u
  <2>2. saved.source = Canonical(u)
    BY <2>1
  <2>3. IsLink(Canonical(saved.source))
    BY <2>1, <2>2, CanonicalIsLink
  <2>4. Prefill(Canonical(saved.source))
    BY <1>7 DEF ShareRow
  <2>5. QED
    BY <1>2, <2>3, <2>4
<1>8. ASSUME UNCHANGED urlVars
      PROVE  BoxHolds(box') /\ SavedHolds(saved')
  BY <1>1, <1>8 DEF urlVars
<1>9. BoxHolds(box') /\ SavedHolds(saved')
  BY <1>2, <1>3, <1>4, <1>5, <1>6, <1>7, <1>8, LinksOK DEF UrlNext
<1>10. LinksInv' <=> BoxHolds(box') /\ SavedHolds(saved')
  BY DEF LinksInv, BoxHolds, SavedHolds
<1>11. QED
  BY <1>9, <1>10

\* KeyIsThePage of the runs, for any keys of queries, trackers and links: spellings of one
\* page have one key but for a bare question mark, and links with one key are one page but
\* for encoded slashes and pairs that cannot be read.
THEOREM KeysAreFaithful == UrlSpec => []KeyIsThePage
<1>1. UrlInit => LinksInv
  BY DEF UrlInit, LinksInv
<1>2. LinksInv => KeyIsThePage
  <2> SUFFICES ASSUME LinksInv, box # Nothing, saved # Nothing, Valid(box)
               PROVE  LET u == saved.typed  sameKey == Normalize(Canonical(box)) = saved.key IN
                      /\ SamePage(box, u) /\ box.mark = u.mark => sameKey
                      /\ sameKey /\ box.escaped = u.escaped /\ AllRead(box) /\ AllRead(u) =>
                            SamePage(box, u)
    BY DEF KeyIsThePage
  <2> DEFINE u == saved.typed
  <2>1. /\ IsLink(box) /\ IsLink(u) /\ Valid(u)
        /\ saved = [source |-> Canonical(u), key |-> Normalize(Canonical(u)), typed |-> u]
    BY DEF LinksInv
  <2> HIDE DEF u
  <2>2. saved.key = Normalize(Canonical(u))
    BY <2>1
  <2>3. LET sameKey == Normalize(Canonical(box)) = Normalize(Canonical(u)) IN
        /\ SamePage(box, u) /\ box.mark = u.mark => sameKey
        /\ sameKey /\ box.escaped = u.escaped /\ AllRead(box) /\ AllRead(u) => SamePage(box, u)
    BY <2>1, KeysDiffer
  <2>4. QED
    BY <2>2, <2>3 DEF u
<1>3. QED
  BY <1>1, <1>2, LinksStep, PTL DEF UrlSpec

\* Of the links that ValidateSourceURL accepts NormalizeURL refuses the IPv6 ones with a port
\* other than the default, and no others: WhatValidatesIsStored fails for those alone.
THEOREM OnlyIPv6IsRefused ==
  UrlSpec => [](box # Nothing /\ Valid(box) =>
                   (Valid(Canonical(box)) <=> box.host \notin IPv6Hosts \/ Port(box) = ""))
<1>1. UrlInit => LinksInv
  BY DEF UrlInit, LinksInv
<1>2. LinksInv => (box # Nothing /\ Valid(box) =>
                     (Valid(Canonical(box)) <=> box.host \notin IPv6Hosts \/ Port(box) = ""))
  <2> SUFFICES ASSUME LinksInv, box # Nothing, Valid(box)
               PROVE  Valid(Canonical(box)) <=> box.host \notin IPv6Hosts \/ Port(box) = ""
    OBVIOUS
  <2> DEFINE c == Canonical(box)
  <2>1. c = [p \in Parts |-> CanonicalPart(box, p)]
    BY CanonicalParts DEF LinksInv
  <2> HIDE DEF c
  <2>2. /\ c.scheme = box.scheme /\ c.user = box.user /\ c.host = box.host
        /\ c.brackets = Brackets(box)
    BY <2>1 DEF Parts, CanonicalPart
  <2>3. box.host # "::1"
    BY DEF Valid, Unsafe
  <2>4. Parses(c) <=> box.host \notin IPv6Hosts \/ Port(box) = ""
    <3>1. /\ box.host \in IPv6Hosts => (Parses(c) <=> Brackets(box) = 1)
          /\ box.host \notin IPv6Hosts => (Parses(c) <=> Brackets(box) = 0)
      BY <2>2, <2>3 DEF Parses
    <3>2. CASE box.host \notin IPv6Hosts
      BY <3>1, <3>2 DEF Brackets
    <3>3. CASE box.host \in IPv6Hosts /\ Port(box) = ""
      BY <3>1, <3>3 DEF Brackets
    <3>4. CASE box.host \in IPv6Hosts /\ Port(box) # ""
      <4>1. Brackets(box) = 2
        BY <3>4 DEF Brackets
      <4>2. Brackets(box) # 1
        BY <4>1
      <4>3. QED
        BY <3>1, <3>4, <4>2
    <3>5. QED
      BY <3>2, <3>3, <3>4
  <2>5. Valid(c) <=> Parses(c)
    BY <2>2 DEF Valid
  <2>6. QED
    BY <2>4, <2>5 DEF c
<1>3. QED
  BY <1>1, <1>2, LinksStep, PTL DEF UrlSpec

-----------------------------------------------------------------------------
(* Enrichers                                                               *)

\* A set of numbers has a least one.
LEMMA Least ==
  ASSUME NEW S, S \subseteq Nat, S # {}
  PROVE  \E n \in S : \A m \in S : n <= m
<1> DEFINE R == OpToRel(<, Nat)
<1>1. IsWellFoundedOn(R, Nat)
  BY NatLessThanWellFounded
<1>2. \A x, y \in Nat : <<y, x>> \in R <=> y < x
  BY DEF OpToRel
<1> HIDE DEF R
<1>3. PICK n \in S : \A m \in S : ~(<<m, n>> \in R)
  BY <1>1, WFMin
<1>4. ASSUME NEW m \in S PROVE n <= m
  <2>1. ~(m < n) /\ m \in Nat /\ n \in Nat
    BY <1>2, <1>3
  <2>2. QED
    BY <2>1
<1>5. QED
  BY <1>4

\* The equation that find of Durations has to satisfy, for the nodes from k on.
FindsFrom(json, k, find) == find = [n \in k .. Len(json) |-> FoundAt(json, n, find)]

\* What findDurationSeconds finds in a node depends on the nodes that it holds alone.
LEMMA FoundLater ==
  ASSUME NEW json, IsTree(json), NEW n \in DOMAIN json, NEW f, NEW g,
         \A k \in DOMAIN json : k > n => f[k] = g[k]
  PROVE  FoundAt(json, n, f) = FoundAt(json, n, g)
<1>1. \A k \in Held(json, n) : k \in DOMAIN json /\ k > n /\ f[k] = g[k]
  BY DEF Held, IsTree
<1>2. {k \in Held(json, n) : f[k] # {}} = {k \in Held(json, n) : g[k] # {}}
  BY <1>1
<1> DEFINE good == {k \in Held(json, n) : g[k] # {}}
<1>3. UNION {f[k] : k \in good} = UNION {g[k] : k \in good}
  BY <1>1
<1>4. good # {} => f[CHOOSE k \in good : \A l \in good : k <= l] = g[CHOOSE k \in good : \A l \in good : k <= l]
  <2>1. ASSUME good # {} PROVE \E k \in good : \A l \in good : k <= l
    <3>1. good \subseteq Nat
      BY <1>1 DEF IsTree
    <3>2. QED
      BY <2>1, <3>1, Least
  <2>2. QED
    BY <1>1, <2>1
<1>5. QED
  BY <1>2, <1>3, <1>4 DEF FoundAt

\* findDurationSeconds is defined on every tree of JSON: a function that finds so exists,
\* built from the last node to the first.
LEMMA FindExists ==
  ASSUME NEW json, IsTree(json)
  PROVE  \E find : find = [n \in DOMAIN json |-> FoundAt(json, n, find)]
<1> DEFINE L == Len(json)
           Missing == {d \in 0..L : ~ \E find : FindsFrom(json, L + 1 - d, find)}
<1>1. L \in Nat /\ DOMAIN json = 1..L
  BY DEF IsTree
<1>2. SUFFICES ASSUME Missing # {} PROVE FALSE
  <2>1. L \notin Missing
    BY <1>2
  <2>2. PICK find : FindsFrom(json, L + 1 - L, find)
    BY <1>1, <2>1
  <2>3. L + 1 - L .. Len(json) = DOMAIN json
    BY <1>1
  <2>4. QED
    BY <2>2, <2>3 DEF FindsFrom
<1> HIDE DEF L
<1>a. Missing \subseteq Nat
  BY <1>1
<1> HIDE DEF Missing
<1>3. PICK d \in Missing : \A e \in Missing : d <= e
  BY <1>a, <1>2, Least
<1>4. d \in 0..L /\ ~ \E find : FindsFrom(json, L + 1 - d, find)
  BY <1>3 DEF Missing
<1>5. CASE d = 0
  <2> DEFINE f == [n \in {} |-> FoundAt(json, n, 0)]
  <2>1. (L + 1 - d) .. Len(json) = {}
    BY <1>1, <1>5 DEF L
  <2>2. FindsFrom(json, L + 1 - d, f)
    BY <2>1 DEF FindsFrom
  <2>3. QED
    BY <1>4, <2>2
<1>6. CASE d # 0
  <2>1. d - 1 \in 0..L /\ d - 1 \notin Missing
    BY <1>1, <1>3, <1>4, <1>6
  <2>2. PICK f : FindsFrom(json, L + 1 - (d - 1), f)
    BY <2>1 DEF Missing
  <2> DEFINE k == L + 1 - d
             g == [n \in k .. L |-> IF n = k THEN FoundAt(json, k, f) ELSE f[n]]
  <2>3. k \in 1..L /\ L + 1 - (d - 1) = k + 1
    BY <1>1, <1>4, <1>6
  <2>4. f = [n \in (k + 1) .. L |-> FoundAt(json, n, f)]
    BY <2>2, <2>3 DEF FindsFrom, L
  <2> HIDE DEF k
  <2>5. \A m \in DOMAIN json : m > k => f[m] = g[m]
    BY <1>1, <2>3
  <2> HIDE DEF g
  <2>6. \A n \in k .. L : FoundAt(json, n, g) = FoundAt(json, n, f)
    <3> TAKE n \in k .. L
    <3>1. n \in DOMAIN json /\ \A m \in DOMAIN json : m > n => g[m] = f[m]
      BY <1>1, <2>3, <2>5
    <3>2. QED
      BY <3>1, FoundLater
  <2>7. g = [n \in k .. L |-> FoundAt(json, n, g)]
    <3>1. \A n \in k .. L : g[n] = FoundAt(json, n, f)
      BY <1>1, <2>3, <2>4 DEF g
    <3>2. g = [n \in k .. L |-> g[n]]
      BY DEF g
    <3>3. QED
      BY <2>6, <3>1, <3>2
  <2>8. FindsFrom(json, k, g)
    BY <2>7 DEF FindsFrom, L
  <2>9. QED
    BY <1>4, <2>8 DEF k
<1>7. QED
  BY <1>5, <1>6

\* The durations of a document are those of its root.
LEMMA DurationsFind ==
  ASSUME NEW json, IsTree(json)
  PROVE  \E find : /\ \A n \in DOMAIN json : find[n] = FoundAt(json, n, find)
                   /\ Durations(json) = IF json = <<>> THEN {} ELSE find[1]
<1> DEFINE find == CHOOSE f : f = [n \in DOMAIN json |-> FoundAt(json, n, f)]
<1>1. find = [n \in DOMAIN json |-> FoundAt(json, n, find)]
  BY FindExists
<1>2. Durations(json) = IF json = <<>> THEN {} ELSE find[1]
  BY DEF Durations
<1> HIDE DEF find
<1>3. QED
  BY <1>1, <1>2

(* A duration anywhere in the tree is found, and nothing else is.          *)
LEMMA DurationsAreThere ==
  ASSUME NEW json, IsTree(json)
  PROVE  Durations(json) \subseteq SecondsIn(json) /\ (Durations(json) = {} <=> SecondsIn(json) = {})
<1>1. PICK find : /\ \A n \in DOMAIN json : find[n] = FoundAt(json, n, find)
                  /\ Durations(json) = IF json = <<>> THEN {} ELSE find[1]
  BY DurationsFind
<1> DEFINE L == Len(json)
<1>2. /\ L \in Nat /\ DOMAIN json = 1..L /\ (json = <<>> <=> L = 0)
      /\ \A n \in DOMAIN json : json[n].seconds \in Nat /\ json[n].holder \in Nat /\ json[n].holder < n
                                /\ (n > 1 => json[n].holder > 0)
  <2>1. json \in Seq([holder : Nat, isArray : BOOLEAN, seconds : Nat])
    BY DEF IsTree
  <2>2. L \in Nat /\ DOMAIN json = 1..L /\ (json = <<>> <=> L = 0)
    BY <2>1
  <2>3. \A n \in DOMAIN json : json[n] \in [holder : Nat, isArray : BOOLEAN, seconds : Nat]
    <3> DEFINE Nodes == [holder : Nat, isArray : BOOLEAN, seconds : Nat]
    <3>1. json \in Seq(Nodes)
      BY <2>1
    <3> HIDE DEF Nodes
    <3>2. \A n \in DOMAIN json : json[n] \in Nodes
      BY <3>1
    <3>3. QED
      BY <3>2 DEF Nodes
  <2>4. QED
    BY <2>2, <2>3 DEF IsTree
<1> HIDE DEF L
<1>3. ASSUME NEW n \in DOMAIN json
      PROVE  /\ \A k \in Held(json, n) : k \in DOMAIN json /\ k > n
             /\ json[n].seconds # 0 => find[n] = {json[n].seconds}
             /\ json[n].seconds = 0 => /\ \A x \in find[n] : \E k \in Held(json, n) : x \in find[k]
                                       /\ \A k \in Held(json, n) : find[k] # {} => find[n] # {}
  <2> DEFINE good == {k \in Held(json, n) : find[k] # {}}
             least == CHOOSE k \in good : \A l \in good : k <= l
  <2>1. \A k \in Held(json, n) : k \in DOMAIN json /\ k > n
    BY <1>2 DEF Held
  <2>2. find[n] = IF json[n].seconds > 0 THEN {json[n].seconds}
                  ELSE IF json[n].isArray /\ good # {} THEN find[least]
                  ELSE UNION {find[k] : k \in good}
    BY <1>1 DEF FoundAt
  <2>3. good # {} => least \in good
    <3>1. good \subseteq Nat
      BY <1>2, <2>1
    <3> HIDE DEF good
    <3>2. good # {} => \E k \in good : \A l \in good : k <= l
      BY <3>1, Least
    <3>3. QED
      BY <3>2
  <2>4. good \subseteq Held(json, n) /\ \A k \in Held(json, n) : k \in good <=> find[k] # {}
    OBVIOUS
  <2>5. json[n].seconds # 0 => find[n] = {json[n].seconds}
    BY <1>2, <2>2
  <2> HIDE DEF good, least
  <2>6. CASE json[n].seconds = 0 /\ json[n].isArray /\ good # {}
    BY <2>1, <2>2, <2>3, <2>4, <2>6
  <2>7. CASE json[n].seconds = 0 /\ ~(json[n].isArray /\ good # {})
    <3>1. find[n] = UNION {find[k] : k \in good}
      BY <2>2, <2>7
    <3>2. QED
      BY <2>1, <2>4, <2>7, <3>1
  <2>8. QED
    BY <2>1, <2>5, <2>6, <2>7
(* What a node finds is in the tree: for the last one that does not,      *)
(* consider the one that it holds and takes it from.                       *)
<1>4. \A n \in DOMAIN json : find[n] \subseteq SecondsIn(json)
  <2> DEFINE Bad == {d \in 0..L : L - d \in DOMAIN json /\ ~(find[L - d] \subseteq SecondsIn(json))}
  <2>1. SUFFICES ASSUME Bad # {} PROVE FALSE
    <3>1. ASSUME NEW n \in DOMAIN json PROVE find[n] \subseteq SecondsIn(json)
      <4>1. L - n \in 0..L /\ L - (L - n) = n
        BY <1>2
      <4>2. L - n \notin Bad
        BY <2>1
      <4>3. QED
        BY <4>1, <4>2
    <3>2. QED
      BY <3>1
  <2>2. Bad \subseteq Nat
    BY <1>2
  <2> HIDE DEF Bad
  <2>3. PICK d \in Bad : \A e \in Bad : d <= e
    BY <2>1, <2>2, Least
  <2> DEFINE n == L - d
  <2>4. d \in 0..L /\ n \in DOMAIN json /\ ~(find[n] \subseteq SecondsIn(json))
    BY <2>3 DEF Bad
  <2>5. ASSUME NEW k \in DOMAIN json, k > n PROVE find[k] \subseteq SecondsIn(json)
    <3>1. L - k \in 0..L /\ L - (L - k) = k /\ ~(d <= L - k)
      BY <1>2, <2>4, <2>5
    <3>2. L - k \notin Bad
      BY <2>3, <3>1
    <3>3. QED
      BY <3>1, <3>2, <2>5 DEF Bad
  <2> HIDE DEF n
  <2>6. \A k \in Held(json, n) : find[k] \subseteq SecondsIn(json)
    BY <1>3, <2>4, <2>5
  <2>7. CASE json[n].seconds > 0
    BY <1>2, <1>3, <2>4, <2>7 DEF SecondsIn
  <2>8. CASE json[n].seconds = 0
    BY <1>3, <2>4, <2>6, <2>8
  <2>9. QED
    BY <1>2, <2>4, <2>7, <2>8
(* A node whose holder finds nothing finds nothing: the first that does is *)
(* the root.                                                               *)
<1>5. (\E n \in DOMAIN json : find[n] # {}) => find[1] # {}
  <2> DEFINE Finds == {n \in DOMAIN json : find[n] # {}}
  <2>1. SUFFICES ASSUME Finds # {} PROVE find[1] # {}
    OBVIOUS
  <2>2. Finds \subseteq Nat
    BY <1>2
  <2> HIDE DEF Finds
  <2>3. PICK n \in Finds : \A m \in Finds : n <= m
    BY <2>1, <2>2, Least
  <2>4. n \in DOMAIN json /\ find[n] # {}
    BY <2>3 DEF Finds
  <2>5. CASE n = 1
    BY <2>4, <2>5
  <2>6. CASE n # 1
    <3> DEFINE m == json[n].holder
    <3>1. m \in DOMAIN json /\ m < n /\ m \in Nat /\ n \in Nat
      BY <1>2, <2>4, <2>6
    <3>2. n \in Held(json, m)
      BY <2>4 DEF Held
    <3> HIDE DEF m
    <3>3. find[m] # {}
      BY <1>3, <2>4, <3>1, <3>2
    <3>4. QED
      BY <2>3, <3>1, <3>3 DEF Finds
  <2>7. QED
    BY <2>5, <2>6
<1>6. SecondsIn(json) # {} => \E n \in DOMAIN json : find[n] # {}
  <2>1. ASSUME NEW n \in DOMAIN json, json[n].seconds # 0 PROVE find[n] # {}
    BY <1>2, <1>3, <2>1
  <2>2. QED
    BY <2>1 DEF SecondsIn
<1>7. json = <<>> => SecondsIn(json) = {}
  BY <1>2 DEF SecondsIn
<1>8. json # <<>> => 1 \in DOMAIN json
  BY <1>2
<1>9. QED
  BY <1>1, <1>4, <1>5, <1>6, <1>7, <1>8

\* One element of the page more: the graph tag overrides what there is, the other one fills
\* a blank.
LEMMA BestStep ==
  ASSUME read \in Nat, NEW graph, NEW plain, NEW text, NEW next,
         Best(text, graph, plain, read),
         LET element == page[read + 1] IN
         \/ /\ element.tag \notin {graph, plain} \/ element.text = Blank
            /\ next = text
         \/ element.tag = graph /\ element.text # Blank /\ next = element.text
         \/ /\ element.tag = plain /\ element.tag # graph /\ element.text # Blank
            /\ next = IF text = Blank THEN element.text ELSE text
  PROVE  Best(next, graph, plain, read + 1)
<1> DEFINE element == page[read + 1]
           G == Tagged(graph, read)  P == Tagged(plain, read)
           G1 == Tagged(graph, read + 1)  P1 == Tagged(plain, read + 1)
<1>1. /\ \A n \in G \cup P : n \in 1..read /\ n < read + 1 /\ n <= read + 1 /\ page[n].text # Blank
      /\ G1 = IF element.tag = graph /\ element.text # Blank THEN G \cup {read + 1} ELSE G
      /\ P1 = IF element.tag = plain /\ element.text # Blank THEN P \cup {read + 1} ELSE P
  BY DEF Tagged
<1>2. IF G # {} THEN \E n \in G : IsLast(n, G) /\ text = page[n].text
      ELSE IF P # {} THEN \E n \in P : IsFirst(n, P) /\ text = page[n].text
      ELSE text = Blank
  BY DEF Best
<1>3. IF G1 # {} THEN \E n \in G1 : IsLast(n, G1) /\ next = page[n].text
      ELSE IF P1 # {} THEN \E n \in P1 : IsFirst(n, P1) /\ next = page[n].text
      ELSE next = Blank
  <2> HIDE DEF G, P, G1, P1
  <2>1. CASE (element.tag \notin {graph, plain} \/ element.text = Blank) /\ next = text
    BY <1>1, <1>2, <2>1
  <2>2. CASE element.tag = graph /\ element.text # Blank /\ next = element.text
    BY <1>1, <2>2 DEF IsLast
  <2>3. CASE /\ element.tag = plain /\ element.tag # graph /\ element.text # Blank
             /\ next = IF text = Blank THEN element.text ELSE text
    <3>1. G1 = G /\ P1 = P \cup {read + 1}
      BY <1>1, <2>3
    <3>2. CASE G # {}
      BY <1>1, <1>2, <2>3, <3>1, <3>2
    <3>3. CASE G = {} /\ P # {}
      <4>1. PICK n \in P : IsFirst(n, P) /\ text = page[n].text
        BY <1>2, <3>3
      <4>2. IsFirst(n, P1)
        BY <1>1, <3>1, <4>1 DEF IsFirst
      <4>3. next = page[n].text
        BY <1>1, <2>3, <4>1
      <4>4. QED
        BY <3>1, <3>3, <4>1, <4>2, <4>3
    <3>4. CASE G = {} /\ P = {}
      BY <1>2, <2>3, <3>1, <3>4 DEF IsFirst
    <3>5. QED
      BY <3>2, <3>3, <3>4
  <2>4. QED
    BY <2>1, <2>2, <2>3
<1>4. QED
  BY <1>3 DEF Best

\* One element of the page more: the last music:duration, or the first one of ld+json.
LEMMA DurationStep ==
  ASSUME read \in Nat, NEW runtime, NEW next, Duration(runtime, read), IsTree(page[read + 1].json),
         LET element == page[read + 1] IN
         \/ element.tag \notin {"music:duration", "ld+json"} /\ next = runtime
         \/ /\ element.tag = "music:duration"
            /\ next = IF element.seconds > 0 THEN element.seconds ELSE runtime
         \/ /\ element.tag = "ld+json"
            /\ \E seconds \in IF Durations(element.json) = {} THEN {0} ELSE Durations(element.json) :
                  next = IF runtime = 0 THEN seconds ELSE runtime
  PROVE  Duration(next, read + 1)
<1> DEFINE element == page[read + 1]
           P == Positive(read)  S == Scripts(read)
           P1 == Positive(read + 1)  S1 == Scripts(read + 1)
           positive == element.tag = "music:duration" /\ element.seconds > 0
           script == element.tag = "ld+json" /\ SecondsIn(element.json) # {}
<1>1. /\ \A n \in P \cup S : n \in 1..read /\ n < read + 1 /\ n <= read + 1
      /\ \A n \in P : page[n].seconds # 0
      /\ P1 = IF positive THEN P \cup {read + 1} ELSE P
      /\ S1 = IF script THEN S \cup {read + 1} ELSE S
  BY DEF Positive, Scripts
<1>2. IF P # {} THEN \E n \in P : IsLast(n, P) /\ runtime = page[n].seconds
      ELSE IF S # {} THEN \E n \in S : IsFirst(n, S) /\ runtime \in SecondsIn(page[n].json)
      ELSE runtime = 0
  BY DEF Duration
<1>3. \A json : 0 \notin SecondsIn(json)
  BY DEF SecondsIn
<1>4. \/ positive /\ next = element.seconds
      \/ ~positive /\ ~script /\ next = runtime
      \/ ~positive /\ script /\ runtime # 0 /\ next = runtime
      \/ ~positive /\ script /\ runtime = 0 /\ next \in SecondsIn(element.json)
  <2>1. CASE element.tag \notin {"music:duration", "ld+json"}
    BY <2>1
  <2>2. CASE element.tag = "music:duration"
    BY <2>2
  <2>3. CASE element.tag = "ld+json"
    <3>1. PICK seconds \in IF Durations(element.json) = {} THEN {0} ELSE Durations(element.json) :
             next = IF runtime = 0 THEN seconds ELSE runtime
      BY <2>3
    <3>2. /\ Durations(element.json) \subseteq SecondsIn(element.json)
          /\ Durations(element.json) = {} <=> SecondsIn(element.json) = {}
      BY DurationsAreThere
    <3>3. ~positive /\ (script <=> SecondsIn(element.json) # {})
      BY <2>3
    <3> HIDE DEF positive, script, element
    <3>4. QED
      BY <3>1, <3>2, <3>3
  <2>4. QED
    BY <2>1, <2>2, <2>3
<1>5. IF P1 # {} THEN \E n \in P1 : IsLast(n, P1) /\ next = page[n].seconds
      ELSE IF S1 # {} THEN \E n \in S1 : IsFirst(n, S1) /\ next \in SecondsIn(page[n].json)
      ELSE next = 0
  <2>a. element = page[read + 1]
    OBVIOUS
  <2> HIDE DEF P, S, P1, S1, positive, script, element
  <2>1. CASE positive /\ next = element.seconds
    BY <1>1, <2>1, <2>a DEF IsLast
  <2>2. CASE ~positive /\ ~script /\ next = runtime
    BY <1>1, <1>2, <2>2
  <2>3. CASE ~positive /\ script /\ runtime # 0 /\ next = runtime
    <3>1. CASE P # {}
      BY <1>1, <1>2, <2>3, <3>1
    <3>2. CASE P = {}
      <4>1. PICK n \in S : IsFirst(n, S) /\ runtime \in SecondsIn(page[n].json)
        BY <1>2, <2>3, <3>2
      <4>2. P1 = {} /\ S1 = S \cup {read + 1} /\ IsFirst(n, S1) /\ n \in S1
        BY <1>1, <2>3, <3>2, <4>1 DEF IsFirst
      <4>3. QED
        BY <2>3, <4>1, <4>2
    <3>3. QED
      BY <3>1, <3>2
  <2>4. CASE ~positive /\ script /\ runtime = 0 /\ next \in SecondsIn(element.json)
    <3>1. P = {} /\ S = {}
      BY <1>1, <1>2, <1>3, <2>4
    <3>2. P1 = {} /\ S1 = {read + 1} /\ IsFirst(read + 1, S1)
      BY <1>1, <2>4, <3>1 DEF IsFirst
    <3>3. QED
      BY <2>4, <3>2, <2>a
  <2>5. QED
    BY <1>4, <2>1, <2>2, <2>3, <2>4
<1>6. QED
  BY <1>5 DEF Duration

\* A field of the metadata that is set leaves the other ones alone.
LEMMA FieldsKept ==
  ASSUME NEW f, f = [title |-> f.title, description |-> f.description,
                     runtime |-> f.runtime, key |-> f.key],
         NEW v
  PROVE  /\ [f EXCEPT !.title = v] =
              [title |-> v, description |-> f.description, runtime |-> f.runtime, key |-> f.key]
         /\ [f EXCEPT !.description = v] =
              [title |-> f.title, description |-> v, runtime |-> f.runtime, key |-> f.key]
         /\ [f EXCEPT !.runtime = v] =
              [title |-> f.title, description |-> f.description, runtime |-> v, key |-> f.key]
         /\ [f EXCEPT !.key = v] =
              [title |-> f.title, description |-> f.description, runtime |-> f.runtime, key |-> v]
OBVIOUS

\* The record of a fetch.
FetchIs == fetch = NoFetch \/
          fetch = [stage |-> fetch.stage, by |-> fetch.by, at |-> fetch.at, requests |-> fetch.requests]

\* A fetch that goes on keeps its enricher and where it is.
LEMMA FetchMoves ==
  ASSUME FetchIs, fetch # NoFetch, NEW stage
  PROVE  LET f == [fetch EXCEPT !.stage = stage]
         IN /\ f = [stage |-> f.stage, by |-> f.by, at |-> f.at, requests |-> f.requests]
            /\ f.stage = stage /\ f.by = fetch.by /\ f.at = fetch.at
BY DEF FetchIs

\* Nothing is read from a page yet.
Starting == {"idle", "check", "dial", "sent"}

\* A fetch that is not idle is one.
LEMMA Idle ==
  ASSUME FetchInv, fetch.stage # "idle" PROVE fetch # NoFetch
BY DEF NoFetch

\* A step before the page is there, or one that fails.
LEMMA NothingRead ==
  ASSUME FetchInv, UNCHANGED <<page, read, found>>,
         fetch' = [stage |-> fetch'.stage, by |-> fetch'.by, at |-> fetch'.at, requests |-> fetch'.requests],
         fetch'.stage = "failed" \/ (fetch.stage \in Starting /\ fetch'.stage \in Starting)
  PROVE  FetchInv'
BY DEF FetchInv, Starting

\* A fetch that fails.
LEMMA FailStep ==
  ASSUME FetchInv, fetch.stage # "idle", Fail PROVE FetchInv'
<1>1. fetch # NoFetch /\ FetchIs
  BY Idle DEF FetchInv, FetchIs
<1>2. fetch' = [fetch EXCEPT !.stage = "failed"] /\ UNCHANGED <<page, read, found>>
  BY DEF Fail
<1>3. QED
  BY <1>1, <1>2, FetchMoves, NothingRead

\* An element of the page: title, description, canonical link, or duration.
LEMMA ReadStep ==
  ASSUME FetchInv, ReadElement PROVE FetchInv'
<1> DEFINE element == page[read + 1]
           TitleTag == IF fetch.by = "web" THEN "title" ELSE "apple:title"
           DescriptionTag == IF fetch.by = "web" THEN "description" ELSE "apple:description"
<1>1. /\ fetch.stage = "reading" /\ read < Len(page) /\ read' = read + 1
      /\ UNCHANGED <<job, fetch, page>>
  BY DEF ReadElement
<1>2. /\ read \in Nat /\ fetch.by # "youtube" /\ fetch # NoFetch
      /\ Best(found.title, "og:title", TitleTag, read)
      /\ Best(found.description, "og:description", DescriptionTag, read)
      /\ Site[found.key] = Site[fetch.at.host]
      /\ fetch.by = "podcast" => page \in PodcastPages /\ Duration(found.runtime, read)
      /\ found = [title |-> found.title, description |-> found.description,
                  runtime |-> found.runtime, key |-> found.key]
  BY <1>1, Idle DEF FetchInv, OnPage, BestTags
<1>3. fetch.by = "podcast" => IsTree(element.json) /\ read + 1 <= Len(page)
  BY <1>1, <1>2, PagesOK
<1>4. SUFFICES /\ found' = [title |-> found'.title, description |-> found'.description,
                            runtime |-> found'.runtime, key |-> found'.key]
               /\ Best(found'.title, "og:title", TitleTag, read + 1)
               /\ Best(found'.description, "og:description", DescriptionTag, read + 1)
               /\ Site[found'.key] = Site[fetch.at.host]
               /\ fetch.by = "podcast" => Duration(found'.runtime, read + 1)
  <2>1. \A text, graph, plain, k : Best(text, graph, plain, k)' <=> Best(text, graph, plain, k)
    BY <1>1 DEF Best, Tagged
  <2>2. \A runtime, k : Duration(runtime, k)' <=> Duration(runtime, k)
    BY <1>1 DEF Duration, Positive, Scripts
  <2>3. BestTags(read)' /\ (fetch.by = "podcast" => Duration(found.runtime, read)')
    BY <1>1, <1>4 DEF BestTags, Best, Tagged, Duration, Positive, Scripts
  <2>4. read' \in Nat
    BY <1>1, <1>2
  <2>5. QED
    BY <1>1, <1>2, <1>3, <1>4, <2>3, <2>4 DEF FetchInv, OnPage
<1>5. CASE /\ element.tag \in Titles \cup Descriptions
           /\ found' = IF element.text # Blank /\
                          (Overrides(element.tag) \/ (Fills(element.tag) /\ found[FieldOf(element.tag)] = Blank))
                       THEN [found EXCEPT ![FieldOf(element.tag)] = element.text] ELSE found
  <2>1. fetch.by = "podcast" => Duration(found.runtime, read + 1)
    BY <1>2, <1>3, <1>5, DurationStep DEF Titles, Descriptions
  <2>2. CASE element.tag \in Titles
    <3>1. found' = IF element.text # Blank /\
                      (element.tag = "og:title" \/ (element.tag \in {"og:title", TitleTag} /\ found.title = Blank))
                   THEN [found EXCEPT !.title = element.text] ELSE found
      BY <1>5, <2>2 DEF FieldOf, Overrides, Fills, Titles
    <3>2. found' = [title |-> found'.title, description |-> found.description,
                    runtime |-> found.runtime, key |-> found.key]
          /\ \/ /\ element.tag \notin {"og:title", TitleTag} \/ element.text = Blank
                /\ found'.title = found.title
             \/ element.tag = "og:title" /\ element.text # Blank /\ found'.title = element.text
             \/ /\ element.tag = TitleTag /\ element.tag # "og:title" /\ element.text # Blank
                /\ found'.title = IF found.title = Blank THEN element.text ELSE found.title
      BY <1>2, <3>1, FieldsKept
    <3>3. Best(found'.title, "og:title", TitleTag, read + 1)
      BY <1>2, <3>2, BestStep
    <3>4. element.tag \notin {"og:description", DescriptionTag}
      BY <2>2 DEF Titles
    <3>5. Best(found.description, "og:description", DescriptionTag, read + 1)
      BY <1>2, <3>4, BestStep
    <3>6. QED
      BY <1>2, <2>1, <3>2, <3>3, <3>5
  <2>3. CASE element.tag \in Descriptions
    <3>1. found' = IF element.text # Blank /\
                      (element.tag = "og:description" \/
                         (element.tag \in {"og:description", DescriptionTag} /\ found.description = Blank))
                   THEN [found EXCEPT !.description = element.text] ELSE found
      BY <1>5, <2>3 DEF FieldOf, Overrides, Fills, Titles, Descriptions
    <3>2. found' = [title |-> found.title, description |-> found'.description,
                    runtime |-> found.runtime, key |-> found.key]
          /\ \/ /\ element.tag \notin {"og:description", DescriptionTag} \/ element.text = Blank
                /\ found'.description = found.description
             \/ element.tag = "og:description" /\ element.text # Blank
                /\ found'.description = element.text
             \/ /\ element.tag = DescriptionTag /\ element.tag # "og:description" /\ element.text # Blank
                /\ found'.description = IF found.description = Blank THEN element.text ELSE found.description
      BY <1>2, <3>1, FieldsKept
    <3>3. Best(found'.description, "og:description", DescriptionTag, read + 1)
      BY <1>2, <3>2, BestStep
    <3>4. element.tag \notin {"og:title", TitleTag}
      BY <2>3 DEF Descriptions
    <3>5. Best(found.title, "og:title", TitleTag, read + 1)
      BY <1>2, <3>4, BestStep
    <3>6. QED
      BY <1>2, <2>1, <3>2, <3>3, <3>5
  <2>4. QED
    BY <1>5, <2>2, <2>3
<1>6. ASSUME element.tag \notin Titles \cup Descriptions
      PROVE  /\ Best(found.title, "og:title", TitleTag, read + 1)
             /\ Best(found.description, "og:description", DescriptionTag, read + 1)
  <2>1. element.tag \notin {"og:title", TitleTag, "og:description", DescriptionTag}
    BY <1>6 DEF Titles, Descriptions
  <2>2. QED
    BY <1>2, <2>1, BestStep
<1>7. CASE /\ element.tag = "canonical"
           /\ found' = IF element.text \in Hosts /\ OnSite(element.text)
                       THEN [found EXCEPT !.key = element.text] ELSE found
  <2>1. fetch.by = "podcast" => Duration(found.runtime, read + 1)
    BY <1>2, <1>3, <1>7, DurationStep
  <2>2. element.tag \notin Titles \cup Descriptions
    BY <1>7 DEF Titles, Descriptions
  <2>3. found' = [title |-> found.title, description |-> found.description,
                  runtime |-> found.runtime, key |-> found'.key]
        /\ Site[found'.key] = Site[fetch.at.host]
    BY <1>2, <1>7, FieldsKept DEF OnSite
  <2>4. QED
    BY <1>6, <2>1, <2>2, <2>3
<1>8. CASE /\ element.tag = "music:duration"
           /\ found' = [found EXCEPT !.runtime = MusicDuration(element.seconds)]
  <2>1. found' = [title |-> found.title, description |-> found.description,
                  runtime |-> found'.runtime, key |-> found.key]
        /\ found'.runtime = IF element.seconds > 0 THEN element.seconds ELSE found.runtime
    BY <1>2, <1>8, FieldsKept DEF MusicDuration
  <2>2. fetch.by = "podcast" => Duration(found'.runtime, read + 1)
    BY <1>2, <1>3, <1>8, <2>1, DurationStep
  <2>3. element.tag \notin Titles \cup Descriptions
    BY <1>8 DEF Titles, Descriptions
  <2>4. QED
    BY <1>2, <1>6, <2>1, <2>2, <2>3
<1>9. CASE /\ element.tag = "ld+json"
           /\ \E seconds \in IF Durations(element.json) = {} THEN {0} ELSE Durations(element.json) :
                 found' = IF found.runtime = 0 THEN [found EXCEPT !.runtime = seconds] ELSE found
  <2>1. PICK seconds \in IF Durations(element.json) = {} THEN {0} ELSE Durations(element.json) :
           found' = IF found.runtime = 0 THEN [found EXCEPT !.runtime = seconds] ELSE found
    BY <1>9
  <2>2. found' = [title |-> found.title, description |-> found.description,
                  runtime |-> found'.runtime, key |-> found.key]
        /\ found'.runtime = IF found.runtime = 0 THEN seconds ELSE found.runtime
    BY <1>2, <2>1, FieldsKept
  <2>3. fetch.by = "podcast" => Duration(found'.runtime, read + 1)
    BY <1>2, <1>3, <1>9, <2>1, <2>2, DurationStep
  <2>4. element.tag \notin Titles \cup Descriptions
    BY <1>9 DEF Titles, Descriptions
  <2>5. QED
    BY <1>2, <1>6, <2>2, <2>3, <2>4
<1>10. QED
  BY <1>1, <1>5, <1>7, <1>8, <1>9 DEF ReadElement

\* Every step of an enricher.
LEMMA FetchStep ==
  ASSUME FetchInv, FetchNext PROVE FetchInv'
<1>1. ASSUME NEW link, NEW registered, Enrich(link, registered) PROVE FetchInv'
  <2>1. /\ fetch = NoFetch /\ UNCHANGED <<page, read, found>>
        /\ fetch' = [stage |-> fetch'.stage, by |-> fetch'.by, at |-> fetch'.at, requests |-> fetch'.requests]
        /\ fetch'.stage \in {"dial", "check"}
    BY <1>1 DEF Enrich
  <2>2. QED
    BY <2>1, NothingRead DEF Starting, NoFetch
<1>2. ASSUME fetch # NoFetch, NEW stage \in {"dial"},
             fetch.stage \in Starting, fetch' = [fetch EXCEPT !.stage = stage], UNCHANGED <<page, read, found>>
      PROVE  FetchInv'
  BY <1>2, FetchMoves, NothingRead DEF FetchInv, FetchIs, Starting
<1>3. CASE CheckUrl
  BY <1>2, <1>3, Idle, FailStep DEF CheckUrl, Starting
<1>4. CASE Dial
  <2>1. CASE Fail
    BY <1>4, <2>1, FailStep DEF Dial
  <2>2. CASE ~Fail
    <3>1. /\ fetch' = [fetch EXCEPT !.stage = "sent", !.requests = @ + 1]
          /\ fetch.stage = "dial" /\ UNCHANGED <<page, read, found>>
      BY <1>4, <2>2 DEF Dial
    <3>2. fetch = [stage |-> fetch.stage, by |-> fetch.by, at |-> fetch.at, requests |-> fetch.requests]
      BY <3>1, Idle DEF FetchInv
    <3>3. fetch' = [stage |-> fetch'.stage, by |-> fetch'.by, at |-> fetch'.at, requests |-> fetch'.requests]
          /\ fetch'.stage = "sent"
      BY <3>1, <3>2
    <3>4. QED
      BY <3>1, <3>3, NothingRead DEF Starting
  <2>3. QED
    BY <2>1, <2>2
<1>5. CASE Redirected
  <2>1. CASE Fail
    BY <1>5, <2>1, FailStep DEF Redirected
  <2>2. CASE ~Fail
    <3>1. PICK to : /\ fetch' = [fetch EXCEPT !.stage = "dial", !.at = to]
                    /\ fetch.stage = "sent" /\ UNCHANGED <<page, read, found>>
      BY <1>5, <2>2 DEF Redirected
    <3>2. fetch = [stage |-> fetch.stage, by |-> fetch.by, at |-> fetch.at, requests |-> fetch.requests]
      BY <3>1, Idle DEF FetchInv
    <3>3. fetch' = [stage |-> fetch'.stage, by |-> fetch'.by, at |-> fetch'.at, requests |-> fetch'.requests]
          /\ fetch'.stage = "dial"
      BY <3>1, <3>2
    <3>4. QED
      BY <3>1, <3>3, NothingRead DEF Starting
  <2>3. QED
    BY <2>1, <2>2
<1>6. CASE FetchFails
  BY <1>6, FailStep DEF FetchFails
<1>7. CASE ReceiveVideo
  <2>1. /\ fetch.stage = "sent" /\ fetch.by = "youtube"
        /\ fetch' = [fetch EXCEPT !.stage = "done"]
        /\ found' = [title |-> found'.title, description |-> found'.description,
                     runtime |-> found'.runtime, key |-> found'.key] /\ found'.key = "video"
    BY <1>7 DEF ReceiveVideo
  <2>2. /\ fetch' = [stage |-> fetch'.stage, by |-> fetch'.by, at |-> fetch'.at, requests |-> fetch'.requests]
        /\ fetch'.stage = "done" /\ fetch'.by = "youtube"
    BY <2>1, Idle, FetchMoves DEF FetchInv, FetchIs
  <2>3. QED
    BY <2>1, <2>2 DEF FetchInv
<1>8. CASE ReceivePage
  <2>1. /\ fetch.stage = "sent" /\ fetch.by # "youtube"
        /\ fetch' = [fetch EXCEPT !.stage = "reading"]
        /\ found' = [found EXCEPT !.key = fetch.at.host]
        /\ read' = read
        /\ fetch.by = "podcast" => page' \in PodcastPages
    BY <1>8 DEF ReceivePage
  <2>2. /\ fetch' = [stage |-> fetch'.stage, by |-> fetch'.by, at |-> fetch'.at, requests |-> fetch'.requests]
        /\ fetch'.stage = "reading" /\ fetch'.by = fetch.by /\ fetch'.at = fetch.at
    BY <2>1, Idle, FetchMoves DEF FetchInv, FetchIs
  <2>3. /\ found' = [title |-> Blank, description |-> Blank, runtime |-> 0, key |-> fetch.at.host]
        /\ read' = 0
    BY <2>1, FieldsKept DEF FetchInv
  <2>4. found'.title = Blank /\ found'.description = Blank /\ found'.runtime = 0 /\ found'.key = fetch.at.host
    BY <2>3
  <2>5. BestTags(read)'
    BY <2>3, <2>4 DEF BestTags, Best, Tagged
  <2>6. Duration(found.runtime, read)'
    BY <2>3, <2>4 DEF Duration, Positive, Scripts
  <2>7. fetch.by = "podcast" => 0 <= Len(page')
    BY <2>1, PagesOK
  <2>8. QED
    BY <2>1, <2>2, <2>3, <2>4, <2>5, <2>6, <2>7 DEF FetchInv, OnPage
<1>9. CASE FinishPage
  <2>1. /\ fetch.stage = "reading" /\ read = Len(page) /\ UNCHANGED <<page, read>>
        /\ fetch' = [fetch EXCEPT !.stage = "done"]
    BY <1>9 DEF FinishPage
  <2>2. /\ fetch' = [stage |-> fetch'.stage, by |-> fetch'.by, at |-> fetch'.at, requests |-> fetch'.requests]
        /\ fetch'.stage = "done" /\ fetch'.by = fetch.by /\ fetch'.at = fetch.at
    BY <2>1, Idle, FetchMoves DEF FetchInv, FetchIs
  <2>3. /\ found' = [title |-> found.title, description |-> found.description,
                     runtime |-> found'.runtime, key |-> found.key]
        /\ fetch.by # "web" => found' = found
    <3>1. found = [title |-> found.title, description |-> found.description,
                   runtime |-> found.runtime, key |-> found.key]
      BY DEF FetchInv
    <3>2. PICK estimate \in {0, 300} : found' = IF fetch.by = "web" /\ job.host \in EstimatesTime
                                   THEN [found EXCEPT !.runtime = estimate] ELSE found
      BY <1>9 DEF FinishPage
    <3>3. QED
      BY <3>1, <3>2, FieldsKept
  <2>4. found'.title = found.title /\ found'.description = found.description /\ found'.key = found.key
    BY <2>3
  <2>5. BestTags(Len(page))'
    <3>1. BestTags(Len(page))
      BY <2>1 DEF FetchInv, OnPage
    <3>2. Best(found.title, "og:title", IF fetch.by = "web" THEN "title" ELSE "apple:title", Len(page))'
      BY <3>1, <2>1, <2>2, <2>4 DEF BestTags, Best, Tagged
    <3>3. Best(found.description, "og:description",
               IF fetch.by = "web" THEN "description" ELSE "apple:description", Len(page))'
      <4>1. Best(found.description, "og:description",
                 IF fetch.by = "web" THEN "description" ELSE "apple:description", Len(page))
        BY <3>1 DEF BestTags
      <4>2. page' = page /\ found'.description = found.description /\ fetch'.by = fetch.by
        BY <2>1, <2>2, <2>4
      <4>3. QED
        BY <4>1, <4>2 DEF Best, Tagged
    <3>4. QED
      BY <3>2, <3>3 DEF BestTags
  <2>6. fetch.by = "podcast" => Duration(found.runtime, Len(page))'
    BY <2>1, <2>3 DEF FetchInv, Duration, Positive, Scripts
  <2>7. QED
    BY <2>1, <2>2, <2>3, <2>4, <2>5, <2>6 DEF FetchInv, OnPage
<1>10. QED
  BY <1>1, <1>3, <1>4, <1>5, <1>6, <1>7, <1>8, <1>9, ReadStep DEF FetchNext

\* FetchInv holds: what was found is what the elements that were read have to say.
LEMMA FetchInductive == FetchSpec => []FetchInv
<1>1. FetchInit => FetchInv
  BY DEF FetchInit, FetchInv, NoFetch, NoResult
<1>2. FetchInv /\ [FetchNext]_fetchVars => FetchInv'
  <2> SUFFICES ASSUME FetchInv, [FetchNext]_fetchVars PROVE FetchInv'
    OBVIOUS
  <2>1. ASSUME UNCHANGED fetchVars PROVE FetchInv'
    <3>1. /\ BestTags(read)' <=> BestTags(read)
          /\ BestTags(Len(page))' <=> BestTags(Len(page))
      BY <2>1 DEF fetchVars, BestTags, Best, Tagged
    <3>2. /\ Duration(found.runtime, read)' <=> Duration(found.runtime, read)
          /\ Duration(found.runtime, Len(page))' <=> Duration(found.runtime, Len(page))
      BY <2>1 DEF fetchVars, Duration, Positive, Scripts
    <3>3. QED
      BY <2>1, <3>1, <3>2 DEF fetchVars, FetchInv, OnPage
  <2>2. QED
    BY <2>1, FetchStep
<1>3. QED
  BY <1>1, <1>2, PTL DEF FetchSpec

\* BestTagWins of the runs, for any pages: title and description are the last ones that
\* Open Graph tags say, or else the first of the other tags, in whatever order the page has
\* them.
THEOREM GraphTagsWin == FetchSpec => []BestTagWins
<1>1. FetchInv => BestTagWins
  BY DEF FetchInv, OnPage, BestTagWins, PageIsRead
<1>2. QED
  BY <1>1, FetchInductive, PTL

\* DurationIsFound of the runs, for any pages: the time of a podcast is the last positive
\* one of its music:duration tags, or else one of the first script that has any, and is
\* found if there is one.
THEOREM DurationsAreFound == FetchSpec => []DurationIsFound
<1>1. FetchInv => DurationIsFound
  BY DEF FetchInv, DurationIsFound, PageIsRead
<1>2. QED
  BY <1>1, FetchInductive, PTL

\* SummaryKeyIsThePages of the runs: the key of the summary cache is on the site that the
\* page was read from, whatever the links and the redirects say.
THEOREM KeysAreOnSite == FetchSpec => []SummaryKeyIsThePages
<1>1. FetchInv => SummaryKeyIsThePages
  BY DEF FetchInv, OnPage, SummaryKeyIsThePages
<1>2. QED
  BY <1>1, FetchInductive, PTL

-----------------------------------------------------------------------------
(* Report                                                                  *)

\* The quotient and the rest that Go takes of an instant, floored.
LEMMA DivIs ==
  ASSUME NEW x \in Int, NEW y \in Int, NEW p \in Nat \ {0}
  PROVE  /\ x \div p \in Int /\ x % p \in 0..(p - 1)
         /\ x = p * (x \div p) + (x % p)
         /\ y <= x \div p <=> y * p <= x
<1>1. x \div p \in Int /\ x % p \in 0..(p - 1) /\ x = p * (x \div p) + (x % p)
  OBVIOUS
<1> DEFINE q == x \div p  r == x % p
<1>2. q \in Int /\ r \in 0..(p - 1) /\ x = p * q + r
  BY <1>1
<1> HIDE DEF q, r
<1>3. ASSUME y <= q PROVE y * p <= x
  <2>1. PICK k \in Nat : q = y + k
    <3>1. q - y \in Nat /\ q = y + (q - y)
      BY <1>2, <1>3
    <3>2. QED
      BY <3>1
  <2>2. p * q = y * p + k * p /\ k * p \in Nat /\ y * p \in Int
    BY <2>1
  <2>3. QED
    BY <1>2, <2>2
<1>4. ASSUME ~(y <= q) PROVE ~(y * p <= x)
  <2>1. PICK k \in Nat : y = q + 1 + k
    <3>1. y - q - 1 \in Nat /\ y = q + 1 + (y - q - 1)
      BY <1>2, <1>4
    <3>2. QED
      BY <3>1
  <2>2. y * p = p * q + p + k * p /\ k * p \in Nat /\ p * q \in Int
    BY <1>2, <2>1
  <2>3. QED
    BY <1>2, <2>2
<1>5. QED
  BY <1>1, <1>3, <1>4 DEF q

\* A midnight and the change of the clocks: a day lacks it, or meets it twice, at its
\* beginning.
LEMMA MidnightsOfZone ==
  ASSUME NEW z \in Zones, NEW d \in Int
  PROVE  LET last == z.at + z.before - 1
             next == z.at + z.after
             L == d * DayHours
         IN /\ z.at \in Int /\ z.before \in Int /\ z.after \in Int
            /\ L \in Int /\ DayHours \in Nat \ {0}
            /\ last < L /\ L < next => L = last + 1 /\ next - L <= DayHours
            /\ next <= last /\ L <= last => L <= next
            /\ next <= last /\ L = next => z.before <= 0
<1> DEFINE last == z.at + z.before - 1
           next == z.at + z.after
           L == d * DayHours
           q == next \div DayHours
           r == next % DayHours
<1>1. /\ {z.at, z.before, z.after} \subseteq Int
      /\ next > last + 1 => (next - 1) \div DayHours = (last + 1) \div DayHours
      /\ next <= last => /\ last \div DayHours <= next \div DayHours
                         /\ z.before > 0 => next % DayHours # 0
  BY ZonesOK
<1>2. DayHours \in Nat \ {0}
  BY CalendarOK
<1>3. z.at \in Int /\ z.before \in Int /\ z.after \in Int
  BY <1>1
<1>4. L \in Int /\ last \in Int /\ next \in Int
  BY <1>2, <1>3
<1> HIDE DEF last, next
<1>5. ASSUME last < L, L < next PROVE L = last + 1 /\ next - L <= DayHours
  <2>1. d <= (next - 1) \div DayHours
    BY <1>2, <1>4, <1>5, DivIs
  <2>2. L <= last + 1
    <3>1. next > last + 1
      BY <1>4, <1>5
    <3>2. d <= (last + 1) \div DayHours
      BY <1>1, <2>1, <3>1
    <3>3. QED
      BY <1>2, <1>4, <3>2, DivIs
  <2>3. L = last + 1
    BY <1>4, <1>5, <2>2
  <2>4. ~((d + 1) * DayHours <= next - 1)
    <3>1. SUFFICES ASSUME (d + 1) * DayHours <= next - 1 PROVE FALSE
      OBVIOUS
    <3>2. d + 1 <= (next - 1) \div DayHours
      BY <1>2, <1>4, <3>1, DivIs
    <3>3. d + 1 <= (last + 1) \div DayHours
      BY <1>1, <1>4, <1>5, <2>3, <3>2
    <3>4. (d + 1) * DayHours <= last + 1
      BY <1>2, <1>4, <3>3, DivIs
    <3>5. (d + 1) * DayHours = d * DayHours + DayHours
      BY <1>2
    <3>6. QED
      BY <1>2, <1>4, <2>3, <3>4, <3>5
  <2>5. (d + 1) * DayHours = d * DayHours + DayHours
    BY <1>2
  <2>6. QED
    BY <1>2, <1>4, <2>3, <2>4, <2>5
<1>6. ASSUME next <= last, L <= last PROVE L <= next
  <2>1. d <= last \div DayHours /\ last \div DayHours \in Int /\ next \div DayHours \in Int
    BY <1>2, <1>4, <1>6, DivIs
  <2>2. d <= next \div DayHours
    BY <1>1, <1>6, <2>1
  <2>3. QED
    BY <1>2, <1>4, <2>2, DivIs
<1>7. ASSUME next <= last, L = next PROVE z.before <= 0
  <2>1. q \in Int /\ r \in 0..(DayHours - 1) /\ next = DayHours * q + r /\ d <= q
    <3>1. q \in Int /\ r \in 0..(DayHours - 1) /\ next = DayHours * q + r
      BY <1>2, <1>4, DivIs
    <3>2. L <= next
      BY <1>4, <1>7
    <3>3. d <= q
      BY <1>2, <1>4, <3>2, DivIs
    <3>4. QED
      BY <3>1, <3>3
  <2> HIDE DEF q, r
  <2>2. PICK k \in Nat : q = d + k
    <3>1. q - d \in Nat /\ q = d + (q - d)
      BY <2>1
    <3>2. QED
      BY <3>1
  <2>3. DayHours * q = d * DayHours + k * DayHours /\ k * DayHours \in Nat
    BY <1>2, <2>2
  <2>4. r = 0
    BY <1>2, <1>4, <1>7, <2>1, <2>3
  <2>5. next % DayHours = 0
    BY <2>4 DEF r
  <2>6. QED
    BY <1>1, <1>3, <1>7, <2>5
<1>8. QED
  BY <1>2, <1>3, <1>4, <1>5, <1>6, <1>7 DEF last, next

\* StartOfDay finds the midnight of every date in every zone, or where the day begins that
\* has none: the instants from it on are the ones whose local date is that date or a later
\* one.
LEMMA MidnightIsFound ==
  ASSUME zone \in Zones, NEW d \in Int
  PROVE  /\ StartOfDay(d) \in Int
         /\ \A t \in Int : t >= StartOfDay(d) <=> LocalDate(t) >= d
<1> DEFINE a == zone.at  b == zone.before  c == zone.after
           L == d * DayHours  G == GoMidnight(d)
           Reached(t) == t + ZoneOffset(t) >= L
           Start(s) == /\ s \in G .. G + 2 * DayHours
                       /\ \A t \in Int : t >= s <=> Reached(t)
<1>1. /\ a \in Int /\ b \in Int /\ c \in Int /\ L \in Int /\ DayHours \in Nat \ {0}
      /\ a + b - 1 < L /\ L < a + c => L = a + b /\ a + c - L <= DayHours
      /\ a + c <= a + b - 1 /\ L <= a + b - 1 => L <= a + c
      /\ a + c <= a + b - 1 /\ L = a + c => b <= 0
  <2>1. /\ a \in Int /\ b \in Int /\ c \in Int /\ L \in Int /\ DayHours \in Nat \ {0}
        /\ a + b - 1 < L /\ L < a + c => L = a + b - 1 + 1 /\ a + c - L <= DayHours
        /\ a + c <= a + b - 1 /\ L <= a + b - 1 => L <= a + c
        /\ a + c <= a + b - 1 /\ L = a + c => b <= 0
    BY MidnightsOfZone
  <2>2. QED
    BY <2>1
<1>2. \A t : ZoneOffset(t) = IF t < a THEN b ELSE c
  BY DEF ZoneOffset
<1>3. G = LET utc == L - ZoneOffset(L)
          IN IF (L < a) = (utc < a) THEN utc ELSE L - ZoneOffset(utc)
  BY DEF GoMidnight, SamePeriod
<1>4. \A t \in Int : Reached(t) <=> LocalDate(t) >= d
  <2> SUFFICES ASSUME NEW t \in Int PROVE Reached(t) <=> LocalDate(t) >= d
    OBVIOUS
  <2>1. t + ZoneOffset(t) \in Int
    BY <1>1, <1>2
  <2> DEFINE u == t + ZoneOffset(t)
  <2>2. u \div DayHours \in Int /\ (d <= u \div DayHours <=> d * DayHours <= u)
    BY <1>1, <2>1, DivIs
  <2>3. LocalDate(t) = u \div DayHours
    BY DEF LocalDate
  <2> HIDE DEF u
  <2>4. QED
    BY <1>1, <2>1, <2>2, <2>3 DEF u
<1> HIDE DEF a, b, c, L
<1>5. G \in Int /\ \E s \in Int : Start(s)
  <2>1. CASE L < a /\ L - b < a
    <3>1. G = L - b
      BY <1>1, <1>2, <1>3, <2>1
    <3>2. Start(G)
      BY <1>1, <1>2, <2>1, <3>1
    <3>3. QED
      BY <1>1, <3>1, <3>2
  <2>2. CASE L < a /\ ~(L - b < a)
    <3>1. G = L - c
      BY <1>1, <1>2, <1>3, <2>2
    <3>2. CASE L >= a + c
      <4>1. Start(G)
        BY <1>1, <1>2, <2>2, <3>1, <3>2
      <4>2. QED
        BY <1>1, <3>1, <4>1
    <3>3. CASE L < a + c
      <4>1. Start(a)
        BY <1>1, <1>2, <2>2, <3>1, <3>3
      <4> HIDE DEF Start
      <4>2. QED
        BY <1>1, <3>1, <4>1
    <3>4. QED
      BY <1>1, <3>2, <3>3
  <2>3. CASE L >= a /\ L - c >= a
    <3>1. G = L - c
      BY <1>1, <1>2, <1>3, <2>3
    <3>2. Start(G)
      BY <1>1, <1>2, <2>3, <3>1
    <3>3. QED
      BY <1>1, <3>1, <3>2
  <2>4. CASE L >= a /\ ~(L - c >= a)
    <3>1. G = L - b
      BY <1>1, <1>2, <1>3, <2>4
    <3>2. Start(G)
      BY <1>1, <1>2, <2>4, <3>1
    <3>3. QED
      BY <1>1, <3>1, <3>2
  <2>5. QED
    BY <1>1, <2>1, <2>2, <2>3, <2>4
<1>6. PICK s \in Int : Start(s)
  BY <1>5
<1> HIDE DEF G
<1> DEFINE First(t) == Reached(t) /\ \A u \in G .. (t - 1) : ~Reached(u)
<1>7. \A u \in Int : LocalDate(u) < d <=> ~Reached(u)
  <2> SUFFICES ASSUME NEW u \in Int PROVE LocalDate(u) < d <=> ~Reached(u)
    OBVIOUS
  <2>1. LocalDate(u) \in Int
    <3>1. u + ZoneOffset(u) \in Int
      BY <1>1, <1>2
    <3>2. QED
      BY <1>1, <3>1, DivIs DEF LocalDate
  <2>2. QED
    BY <1>4, <2>1
<1>8. \A t \in G .. G + 2 * DayHours :
        First(t) <=> /\ LocalDate(t) >= d
                     /\ \A u \in G .. (t - 1) : LocalDate(u) < d
  BY <1>1, <1>4, <1>5, <1>7
<1>9. s \in G .. G + 2 * DayHours /\ First(s)
  BY <1>1, <1>5, <1>6
<1>10. \A t \in G .. G + 2 * DayHours : First(t) => t = s
  BY <1>1, <1>5, <1>6
<1>11. StartOfDay(d) = CHOOSE t \in G .. G + 2 * DayHours : First(t)
  <2> DEFINE Before(t) == LocalDate(t) >= d /\ \A u \in G .. (t - 1) : LocalDate(u) < d
  <2>1. StartOfDay(d) = CHOOSE t \in G .. G + 2 * DayHours : Before(t)
    BY DEF StartOfDay, G
  <2>2. \A t \in G .. G + 2 * DayHours : First(t) <=> Before(t)
    BY <1>8
  <2> HIDE DEF Before, First
  <2>3. QED
    BY <2>1, <2>2
<1> HIDE DEF First
<1>12. StartOfDay(d) = s
  BY <1>9, <1>10, <1>11
<1>13. QED
  BY <1>4, <1>6, <1>12

\* SumFunction of a finite set is any sum that takes its members one at a time.
LEMMA SumIs ==
  ASSUME NEW S, IsFiniteSet(S), NEW f, DOMAIN f = S,
         NEW H, \A s \in SUBSET S : \A x \in s : H[s] = f[x] + H[s \ {x}],
         H[{}] = 0
  PROVE  SumFunction(f) = H[S]
<1> DEFINE Step(h) == [s \in SUBSET S |-> IF s = {} THEN 0
                                          ELSE LET x == CHOOSE x \in s : TRUE
                                               IN f[x] + h[s \ {x}]]
           H0 == [s \in SUBSET S |-> H[s]]
           iter == CHOOSE h : h = Step(h)
<1>1. SumFunction(f) = iter[S]
  BY DEF SumFunction, SumFunctionOnSet, FoldFunctionOnSet, MapThenFoldSet
<1>2. ASSUME NEW s \in SUBSET S, s # {}
      PROVE  LET x == CHOOSE x \in s : TRUE IN x \in s /\ s \ {x} \in SUBSET S
  BY <1>2
<1>3. H0 = Step(H0)
  <2>1. ASSUME NEW s \in SUBSET S PROVE H0[s] = Step(H0)[s]
    <3>1. CASE s = {}
      BY <3>1
    <3>2. CASE s # {}
      BY <1>2, <3>2
    <3>3. QED
      BY <3>1, <3>2
  <2>2. QED
    BY <2>1
<1> HIDE DEF H0
<1>4. iter = Step(iter)
  <2> HIDE DEF Step
  <2>1. QED
    BY <1>3
<1> HIDE DEF iter
<1>5. \A s \in SUBSET S : iter[s] = H[s]
  <2> DEFINE Wrong == {n \in Nat : \E s \in SUBSET S : Cardinality(s) = n /\ iter[s] # H[s]}
  <2>1. SUFFICES ASSUME NEW t \in SUBSET S, iter[t] # H[t] PROVE FALSE
    OBVIOUS
  <2>2. Cardinality(t) \in Wrong
    <3>1. Cardinality(t) \in Nat
      BY FS_Subset, FS_CardinalityType
    <3>2. QED
      BY <2>1, <3>1
  <2>3. PICK n \in Wrong : \A m \in Wrong : n <= m
    <3> HIDE DEF Wrong
    <3>1. Wrong \subseteq Nat
      BY DEF Wrong
    <3>2. QED
      BY <2>2, <3>1, Least
  <2>4. PICK s \in SUBSET S : Cardinality(s) = n /\ iter[s] # H[s]
    BY <2>3
  <2>5. iter[s] = Step(iter)[s]
    BY <1>4
  <2>6. s # {}
    BY <2>4, <2>5
  <2> DEFINE x == CHOOSE x \in s : TRUE
  <2>7. x \in s /\ s \ {x} \in SUBSET S
    BY <1>2, <2>6
  <2>8. iter[s] = f[x] + iter[s \ {x}]
    BY <2>5, <2>6
  <2> HIDE DEF x
  <2>9. Cardinality(s \ {x}) = n - 1 /\ Cardinality(s \ {x}) \in Nat /\ n \in Nat
    <3>1. IsFiniteSet(s)
      BY FS_Subset
    <3>2. n \in Nat
      BY <2>3
    <3>3. IsFiniteSet(s \ {x}) /\ Cardinality(s \ {x}) = n - 1
      BY <2>4, <2>7, <3>1, FS_RemoveElement
    <3>4. QED
      BY <3>2, <3>3, FS_CardinalityType
  <2>10. iter[s \ {x}] = H[s \ {x}]
    <3>1. SUFFICES ASSUME iter[s \ {x}] # H[s \ {x}] PROVE FALSE
      OBVIOUS
    <3>2. n - 1 \in Wrong
      BY <2>7, <2>9, <3>1
    <3> HIDE DEF Wrong
    <3>3. QED
      BY <2>3, <2>9, <3>2
  <2>11. QED
    BY <2>4, <2>7, <2>8, <2>10
<1>6. QED
  BY <1>1, <1>5

\* The sizes of two sets that share nothing add up.
LEMMA SplitSize ==
  ASSUME NEW S, NEW T, IsFiniteSet(S), IsFiniteSet(T), S \cap T = {}
  PROVE  /\ IsFiniteSet(S \cup T) /\ Cardinality(S) \in Nat /\ Cardinality(T) \in Nat
         /\ Cardinality(S \cup T) = Cardinality(S) + Cardinality(T)
<1> DEFINE both == S \cap T
<1>1. Cardinality(both) = 0
  BY FS_EmptySet
<1>2. /\ IsFiniteSet(S \cup T)
      /\ Cardinality(S \cup T) = Cardinality(S) + Cardinality(T) - Cardinality(both)
  BY FS_Union
<1>3. Cardinality(S) \in Nat /\ Cardinality(T) \in Nat
  BY FS_CardinalityType
<1> HIDE DEF both
<1>4. QED
  BY <1>1, <1>2, <1>3

\* Rows that are counted by a key are counted once each: GROUP BY loses none of them.
LEMMA KeysAddUp ==
  ASSUME NEW W, IsFiniteSet(W), NEW C, IsFiniteSet(C), NEW K
  PROVE  SumFunction([w \in W |-> Cardinality({e \in C : K[e] = w})])
           = Cardinality({e \in C : K[e] \in W})
<1> DEFINE f == [w \in W |-> Cardinality({e \in C : K[e] = w})]
           Of(V) == {e \in C : K[e] \in V}
           H == [V \in SUBSET W |-> Cardinality(Of(V))]
<1>1. ASSUME NEW V \in SUBSET W, NEW w \in V PROVE H[V] = f[w] + H[V \ {w}]
  <2> DEFINE own == {e \in C : K[e] = w}  rest == Of(V \ {w})
  <2>1. IsFiniteSet(own) /\ IsFiniteSet(rest)
    BY FS_Subset
  <2>2. own \cap rest = {} /\ Of(V) = own \cup rest
    OBVIOUS
  <2>3. H[V] = Cardinality(Of(V)) /\ H[V \ {w}] = Cardinality(rest) /\ f[w] = Cardinality(own)
    OBVIOUS
  <2> HIDE DEF own, rest, Of, H, f
  <2>4. Cardinality(own \cup rest) = Cardinality(own) + Cardinality(rest)
    BY <2>1, <2>2, SplitSize
  <2>5. QED
    BY <2>2, <2>3, <2>4
<1>2. H[{}] = 0
  <2>1. Of({}) = {}
    OBVIOUS
  <2>2. H[{}] = Cardinality({})
    BY <2>1
  <2>3. QED
    BY <2>2, FS_EmptySet
<1>3. DOMAIN f = W /\ H[W] = Cardinality(Of(W))
  OBVIOUS
<1> HIDE DEF f, H
<1>4. SumFunction(f) = H[W]
  BY <1>1, <1>2, <1>3, SumIs
<1>5. QED
  BY <1>3, <1>4 DEF f

\* The seconds of rows, as a set.
Units(rows) == {p \in rows \X (0..MaxSeconds) : p[2] < row[p[1]].holds.seconds}

\* SUM(runtime_seconds) counts the seconds of each row once.
LEMMA SecondsAreUnits ==
  ASSUME ReportTypeOK, NEW rows \in SUBSET listed
  PROVE  /\ IsFiniteSet(rows) /\ IsFiniteSet(Units(rows))
         /\ Seconds(rows) = Cardinality(Units(rows))
<1> DEFINE f == [e \in rows |-> row[e].holds.seconds]
           H == [s \in SUBSET rows |-> Cardinality(Units(s))]
<1>1. IsFiniteSet(rows) /\ \A s \in SUBSET rows : IsFiniteSet(Units(s))
  <2>1. IsFiniteSet(rows)
    <3>1. rows \in SUBSET Entries
      BY DEF ReportTypeOK
    <3>2. QED
      BY <3>1, RequestOK, FS_Subset
  <2>2. ASSUME NEW s \in SUBSET rows PROVE IsFiniteSet(Units(s))
    <3>1. IsFiniteSet(s)
      BY <2>1, FS_Subset
    <3>2. IsFiniteSet(0..MaxSeconds)
      BY RequestOK, FS_Interval
    <3>3. IsFiniteSet(s \X (0..MaxSeconds))
      BY <3>1, <3>2, FS_Product
    <3>4. Units(s) \in SUBSET (s \X (0..MaxSeconds))
      BY DEF Units
    <3>5. QED
      BY <3>3, <3>4, FS_Subset
  <2>3. QED
    BY <2>1, <2>2
<1>2. \A e \in rows : f[e] \in 0..MaxSeconds
  BY RequestOK DEF ReportTypeOK
<1>3. ASSUME NEW s \in SUBSET rows, NEW e \in s PROVE H[s] = f[e] + H[s \ {e}]
  <2> DEFINE own == {e} \X (0 .. (f[e] - 1))  rest == Units(s \ {e})
  <2>1. f[e] \in 0..MaxSeconds /\ f[e] = row[e].holds.seconds /\ MaxSeconds \in Nat
    BY <1>2, RequestOK
  <2>2. IsFiniteSet(own) /\ Cardinality(own) = f[e]
    <3> DEFINE k == f[e]  I == 0 .. (k - 1)
    <3>1. IsFiniteSet(I) /\ Cardinality(I) = f[e]
      <4>1. k \in Nat /\ k - 1 \in Int /\ 0 \in Int
        BY <2>1
      <4> HIDE DEF k
      <4>2. IsFiniteSet(0 .. (k - 1))
        BY <4>1, FS_Interval
      <4>3. Cardinality(0 .. (k - 1)) = IF 0 > k - 1 THEN 0 ELSE k - 1 - 0 + 1
        BY <4>1, FS_Interval
      <4>4. Cardinality(0 .. (k - 1)) = k
        BY <4>1, <4>3
      <4>5. QED
        BY <4>2, <4>4 DEF k
    <3>2. IsFiniteSet({e}) /\ Cardinality({e}) = 1
      BY FS_Singleton
    <3> HIDE DEF I
    <3>3. IsFiniteSet({e} \X I) /\ Cardinality({e} \X I) = 1 * Cardinality(I)
      BY <3>1, <3>2, FS_Product
    <3>4. QED
      BY <2>1, <3>1, <3>3 DEF I
  <2>3. own \cap rest = {}
    BY DEF Units
  <2>4. Units(s) = own \cup rest
    <3> HIDE DEF f
    <3>1. \A n \in 0..MaxSeconds : n < f[e] <=> n \in 0 .. (f[e] - 1)
      BY <2>1
    <3>2. 0 .. (f[e] - 1) \subseteq 0..MaxSeconds
      BY <2>1
    <3>3. QED
      BY <2>1, <3>1, <3>2 DEF Units
  <2>5. H[s] = Cardinality(Units(s)) /\ H[s \ {e}] = Cardinality(rest) /\ IsFiniteSet(rest)
    BY <1>1
  <2> HIDE DEF own, rest, H, f
  <2>6. Cardinality(own \cup rest) = Cardinality(own) + Cardinality(rest)
    BY <2>2, <2>3, <2>5, SplitSize
  <2>7. QED
    BY <2>2, <2>4, <2>5, <2>6
<1>4. H[{}] = 0
  <2>1. Units({}) = {}
    BY DEF Units
  <2>2. H[{}] = Cardinality({})
    BY <2>1
  <2>3. QED
    BY <2>2, FS_EmptySet
<1>5. DOMAIN f = rows /\ H[rows] = Cardinality(Units(rows)) /\ Seconds(rows) = SumFunction(f)
  BY DEF Seconds
<1> HIDE DEF f, H
<1>6. SumFunction(f) = H[rows]
  BY <1>1, <1>3, <1>4, <1>5, SumIs
<1>7. QED
  BY <1>1, <1>5, <1>6

\* The seconds of two sets of rows that share nothing add up.
LEMMA SecondsAddUp ==
  ASSUME ReportTypeOK, NEW S \in SUBSET listed, NEW T \in SUBSET listed, S \cap T = {}
  PROVE  Seconds(S \cup T) = Seconds(S) + Seconds(T)
<1>1. S \cup T \in SUBSET listed
  OBVIOUS
<1>2. /\ IsFiniteSet(Units(S)) /\ Seconds(S) = Cardinality(Units(S))
      /\ IsFiniteSet(Units(T)) /\ Seconds(T) = Cardinality(Units(T))
      /\ Seconds(S \cup T) = Cardinality(Units(S \cup T))
  BY <1>1, SecondsAreUnits
<1>3. Units(S \cup T) = Units(S) \cup Units(T) /\ Units(S) \cap Units(T) = {}
  BY DEF Units
<1>4. Cardinality(Units(S) \cup Units(T)) = Cardinality(Units(S)) + Cardinality(Units(T))
  BY <1>2, <1>3, SplitSize
<1>5. QED
  BY <1>2, <1>3, <1>4

\* Counts and seconds of the groups of a GROUP BY add up to those of all rows.
LEMMA PartsAddUp ==
  ASSUME ReportTypeOK, NEW P \in SUBSET SUBSET listed,
         \A g, h \in P : g = h \/ g \cap h = {}
  PROVE  /\ SumFunction([g \in P |-> Cardinality(g)]) = Cardinality(UNION P)
         /\ SumFunction([g \in P |-> Seconds(g)]) = Seconds(UNION P)
<1> DEFINE f == [g \in P |-> Cardinality(g)]
           H == [Q \in SUBSET P |-> Cardinality(UNION Q)]
           f2 == [g \in P |-> Seconds(g)]
           H2 == [Q \in SUBSET P |-> Seconds(UNION Q)]
<1>1. IsFiniteSet(listed) /\ \A S \in SUBSET listed : IsFiniteSet(S)
  BY SecondsAreUnits
<1>2. IsFiniteSet(P)
  <2>1. IsFiniteSet(SUBSET listed)
    BY <1>1, FS_SUBSET
  <2>2. QED
    BY <2>1, FS_Subset
<1>3. ASSUME NEW Q \in SUBSET P, NEW g \in Q
      PROVE  H[Q] = f[g] + H[Q \ {g}] /\ H2[Q] = f2[g] + H2[Q \ {g}]
  <2> DEFINE rest == UNION (Q \ {g})
  <2>1. g \in SUBSET listed /\ rest \in SUBSET listed
    OBVIOUS
  <2>2. UNION Q = g \cup rest
    OBVIOUS
  <2>3. g \cap rest = {}
    OBVIOUS
  <2>4. /\ H[Q] = Cardinality(UNION Q) /\ H[Q \ {g}] = Cardinality(rest) /\ f[g] = Cardinality(g)
        /\ H2[Q] = Seconds(UNION Q) /\ H2[Q \ {g}] = Seconds(rest) /\ f2[g] = Seconds(g)
    OBVIOUS
  <2> HIDE DEF rest, H, f, H2, f2
  <2>5. Cardinality(g \cup rest) = Cardinality(g) + Cardinality(rest)
    BY <1>1, <2>1, <2>3, SplitSize
  <2>6. Seconds(g \cup rest) = Seconds(g) + Seconds(rest)
    BY <2>1, <2>3, SecondsAddUp
  <2>7. QED
    BY <2>2, <2>4, <2>5, <2>6
<1>4. H[{}] = 0 /\ H2[{}] = 0
  <2>1. UNION {} = {} /\ Units({}) = {}
    BY DEF Units
  <2>2. Seconds({}) = Cardinality(Units({}))
    BY SecondsAreUnits
  <2>3. Cardinality({}) = 0
    BY FS_EmptySet
  <2>4. H[{}] = Cardinality({}) /\ H2[{}] = Seconds({})
    BY <2>1
  <2>5. QED
    BY <2>1, <2>2, <2>3, <2>4
<1>5. /\ DOMAIN f = P /\ H[P] = Cardinality(UNION P)
      /\ DOMAIN f2 = P /\ H2[P] = Seconds(UNION P)
  OBVIOUS
<1> HIDE DEF f, H, f2, H2
<1>6. SumFunction(f) = H[P]
  BY <1>2, <1>3, <1>4, <1>5, SumIs
<1>7. SumFunction(f2) = H2[P]
  <2>1. \A Q \in SUBSET P : \A g \in Q : H2[Q] = f2[g] + H2[Q \ {g}]
    BY <1>3
  <2>2. QED
    BY <1>2, <1>4, <1>5, <2>1, SumIs
<1>8. QED
  BY <1>5, <1>6, <1>7 DEF f, f2

\* The rows of the span, by type, are all of its rows.
LEMMA TypesAreParts ==
  ASSUME ReportTypeOK
  PROVE  LET groups == Groups(InSpan, LAMBDA e : row[e].holds.type)
         IN /\ SumFunction([g \in groups |-> Cardinality(g)]) = Cardinality(InSpan)
            /\ TypedMinutes(groups) = Minutes(Seconds(InSpan))
<1> DEFINE P == Groups(InSpan, LAMBDA e : row[e].holds.type)
<1>1. P = {{e \in InSpan : row[e].holds.type = k} : k \in {row[e].holds.type : e \in InSpan}}
  BY DEF Groups
<1>2. InSpan \in SUBSET listed
  BY DEF InSpan, Between
<1> HIDE DEF P
<1>3. P \in SUBSET SUBSET listed
  BY <1>1, <1>2
<1>4. \A g, h \in P : g = h \/ g \cap h = {}
  <2> SUFFICES ASSUME NEW g \in P, NEW h \in P PROVE g = h \/ g \cap h = {}
    OBVIOUS
  <2>1. PICK k : g = {e \in InSpan : row[e].holds.type = k}
    BY <1>1
  <2>2. PICK l : h = {e \in InSpan : row[e].holds.type = l}
    BY <1>1
  <2>3. CASE k = l
    BY <2>1, <2>2, <2>3
  <2>4. CASE k # l
    BY <2>1, <2>2, <2>4
  <2>5. QED
    BY <2>3, <2>4
<1>5. UNION P = InSpan
  BY <1>1
<1>6. /\ SumFunction([g \in P |-> Cardinality(g)]) = Cardinality(UNION P)
      /\ SumFunction([g \in P |-> Seconds(g)]) = Seconds(UNION P)
  BY <1>3, <1>4, PartsAddUp
<1>7. QED
  BY <1>5, <1>6 DEF P, TypedMinutes

\* The rows between two midnights are those of the dates between them.
LEMMA SpanOfDates ==
  ASSUME ReportTypeOK, NEW first \in Int, NEW last \in Int
  PROVE  Between(StartOfDay(first), StartOfDay(last + 1)) = OfDates(first, last)
<1>1. ASSUME NEW e \in listed
      PROVE  /\ row[e].at \in Int /\ LocalDate(row[e].at) \in Int
             /\ StartOfDay(first) <= row[e].at <=> LocalDate(row[e].at) >= first
             /\ row[e].at < StartOfDay(last + 1) <=> LocalDate(row[e].at) <= last
  <2> DEFINE t == row[e].at
  <2>1. t \in Int /\ last + 1 \in Int /\ zone \in Zones
    BY DEF ReportTypeOK
  <2>2. LocalDate(t) \in Int
    <3>1. t + ZoneOffset(t) \in Int
      BY <2>1, ZonesOK DEF ZoneOffset
    <3>2. DayHours \in Nat \ {0}
      BY CalendarOK
    <3>3. QED
      BY <3>1, <3>2, DivIs DEF LocalDate
  <2> HIDE DEF t
  <2>3. /\ StartOfDay(first) \in Int /\ StartOfDay(last + 1) \in Int
        /\ t >= StartOfDay(first) <=> LocalDate(t) >= first
        /\ t >= StartOfDay(last + 1) <=> LocalDate(t) >= last + 1
    BY <2>1, MidnightIsFound
  <2>4. /\ StartOfDay(first) <= t <=> LocalDate(t) >= first
        /\ t < StartOfDay(last + 1) <=> LocalDate(t) <= last
    BY <2>1, <2>2, <2>3
  <2>5. QED
    BY <2>1, <2>2, <2>4 DEF t
<1>2. QED
  BY <1>1 DEF Between, OfDates

\* The dates and the weeks of a report are numbers.
LEMMA DatesAreInt ==
  ASSUME ReportTypeOK
  PROVE  /\ \A t \in Int : LocalDate(t) \in Int
         /\ Today \in Int /\ MonthStart \in Int /\ MonthStart <= Today
         /\ span.first \in Int /\ span.last \in Int /\ span.last + 1 \in Int
         /\ \A d \in Int : WeekStart(d) \in Int /\ WeekStart(d) <= d
         /\ ChartFirst \in Int
<1>1. \A t \in Int : LocalDate(t) \in Int
  <2> SUFFICES ASSUME NEW t \in Int PROVE LocalDate(t) \in Int
    OBVIOUS
  <2>1. t + ZoneOffset(t) \in Int /\ DayHours \in Nat \ {0}
    BY ZonesOK, CalendarOK DEF ZoneOffset, ReportTypeOK
  <2>2. QED
    BY <2>1, DivIs DEF LocalDate
<1>2. Today \in Int /\ MonthStart \in Int /\ MonthStart <= Today
  <2>1. Today \in Int
    BY <1>1, RequestOK DEF Today
  <2>2. Today % MonthDays \in 0..(MonthDays - 1) /\ MonthDays \in Nat
    BY <2>1, CalendarOK, DivIs
  <2>3. QED
    BY <2>1, <2>2 DEF MonthStart
<1>3. span.first \in Int /\ span.last \in Int /\ span.last + 1 \in Int
  <2>1. span.first \in Asked /\ span.last \in Asked
    BY DEF ReportTypeOK
  <2>2. \A d \in Asked : d \in Int /\ d + 1 \in Int
    BY RequestOK
  <2>3. QED
    BY <2>1, <2>2
<1>4. \A d \in Int : WeekStart(d) \in Int /\ WeekStart(d) <= d
  <2> SUFFICES ASSUME NEW d \in Int PROVE WeekStart(d) \in Int /\ WeekStart(d) <= d
    OBVIOUS
  <2>1. d % WeekDays \in 0..(WeekDays - 1) /\ WeekDays \in Nat
    BY CalendarOK, DivIs
  <2>2. QED
    BY <2>1 DEF WeekStart
<1>5. ChartFirst \in Int
  <2> DEFINE a == span.first  b == WeekStart(span.last) - WeekDays * (MaxChartWeeks - 1)
  <2>1. a \in Int /\ b \in Int
    BY <1>3, <1>4, CalendarOK
  <2> HIDE DEF a, b
  <2>2. \E x \in {a, b} : \A y \in {a, b} : x >= y
    <3>1. CASE a >= b
      BY <2>1, <3>1
    <3>2. CASE b >= a
      BY <2>1, <3>2
    <3>3. QED
      BY <2>1, <3>1, <3>2
  <2>3. Max({a, b}) \in {a, b}
    BY <2>2 DEF Max
  <2>4. QED
    BY <2>1, <2>3 DEF ChartFirst, a, b
<1>6. QED
  BY <1>1, <1>2, <1>3, <1>4, <1>5

\* The week of a date is among the weeks of the chart.
LEMMA WeekHolds ==
  ASSUME NEW d \in Int, NEW first \in Int, NEW last \in Int, first <= d, d <= last
  PROVE  WeekStart(d) \in {w \in WeekStart(first) .. last : w % WeekDays = 0}
<1> DEFINE p == WeekDays  q == d \div WeekDays  q1 == first \div WeekDays
<1>1. p \in Nat \ {0}
  BY CalendarOK
<1>2. q \in Int /\ d % p \in 0..(p - 1) /\ d = p * q + (d % p) /\ p * q \in Int
      /\ q1 \in Int /\ first % p \in 0..(p - 1) /\ first = p * q1 + (first % p) /\ p * q1 \in Int
  BY <1>1, DivIs
<1>3. WeekStart(d) = p * q /\ WeekStart(first) = p * q1
  <2>1. WeekStart(d) = d - (d % p) /\ WeekStart(first) = first - (first % p)
    BY DEF WeekStart
  <2> HIDE DEF p, q, q1
  <2>2. QED
    BY <1>1, <1>2, <2>1
<1>4. p * q1 <= p * q
  <2> HIDE DEF p, q
  <2>1. q1 * p <= first /\ q1 * p = p * q1
    BY <1>1, <1>2, DivIs DEF p
  <2>2. q1 * p <= d
    BY <1>1, <1>2, <2>1
  <2>3. q1 <= d \div p
    BY <1>1, <1>2, <2>2, DivIs
  <2>4. q1 <= q
    BY <2>3 DEF p, q
  <2>5. PICK k \in Nat : q = q1 + k
    <3>1. q - q1 \in Nat /\ q = q1 + (q - q1)
      BY <1>2, <2>4
    <3>2. QED
      BY <3>1
  <2> HIDE DEF q1
  <2>6. p * q = p * q1 + p * k /\ p * k \in Nat
    BY <1>1, <1>2, <2>5
  <2>7. QED
    BY <1>2, <2>6
<1>5. (p * q) % p = 0
  <2> HIDE DEF p, q, q1
  <2> DEFINE x == p * q
  <2>1. x \in Int
    BY <1>2
  <2>2. x % p \in 0..(p - 1) /\ x \div p \in Int /\ x = p * (x \div p) + (x % p)
    BY <1>1, <2>1, DivIs
  <2>3. q <= x \div p
    <3>1. q * p <= x
      BY <1>1, <1>2
    <3>2. QED
      BY <1>1, <1>2, <2>1, <3>1, DivIs
  <2> DEFINE y == x \div p  m == x % p
  <2>4. PICK k \in Nat : y = q + k
    <3>1. y - q \in Nat /\ y = q + (y - q)
      BY <1>2, <2>2, <2>3
    <3>2. QED
      BY <3>1
  <2>5. m \in 0..(p - 1) /\ y \in Int /\ p * q = p * y + m
    BY <2>2
  <2> HIDE DEF x, y, m
  <2>6. p * y = p * q + p * k /\ p * k \in Nat
    BY <1>1, <1>2, <2>4
  <2>7. m = 0
    BY <1>1, <1>2, <2>5, <2>6
  <2>8. QED
    BY <2>7 DEF m, x
<1>6. p * q <= last
  <2> HIDE DEF p, q, q1
  <2>1. QED
    BY <1>1, <1>2
<1>7. QED
  BY <1>2, <1>3, <1>4, <1>5, <1>6

\* What the queries select while rows, zone and range stand.
LEMMA RowsStand ==
  ASSUME UNCHANGED <<zone, span, row, listed>>
  PROVE  /\ InSpan' = InSpan /\ TaggedRows' = TaggedRows /\ Seconds(InSpan)' = Seconds(InSpan)
         /\ OfDates(ChartFirst, span.last)' = OfDates(ChartFirst, span.last)
<1>1. zone' = zone /\ span' = span /\ row' = row /\ listed' = listed
  OBVIOUS
<1>2. InSpan' = InSpan
  BY <1>1 DEF InSpan, Between, StartOfDay, GoMidnight, LocalDate, ZoneOffset, SamePeriod
<1>3. TaggedRows' = TaggedRows /\ Seconds(InSpan)' = Seconds(InSpan)
  BY <1>1, <1>2 DEF TaggedRows, Seconds
<1>4. OfDates(ChartFirst, span.last)' = OfDates(ChartFirst, span.last)
  BY <1>1 DEF OfDates, ChartFirst, WeekStart, LocalDate, ZoneOffset
<1>5. QED
  BY <1>2, <1>3, <1>4

\* The request reads the clock once, so the zone alone says which day it is.
LEMMA ZoneStands == zone' = zone => Today' = Today /\ MonthStart' = MonthStart
  BY DEF Today, MonthStart, LocalDate, ZoneOffset

\* The bars of the chart add up to the rows of its weeks.
LEMMA ChartAddsUp ==
  ASSUME ReportTypeOK, AggregateByWeek, DOMAIN report = DOMAIN NoReport
  PROVE  SumFunction(report'.weeks) = Cardinality(OfDates(ChartFirst, span.last))
<1> DEFINE charted == Between(StartOfDay(ChartFirst), StartOfDay(span.last + 1))
           K == [e \in charted |-> WeekStart(LocalDate(row[e].at))]
           W == IF span.last < ChartFirst THEN {} ELSE ChartWeeks
           C == OfDates(ChartFirst, span.last)
           Of == {e \in charted : K[e] \in W}
<1>1. report'.weeks = [w \in W |-> Cardinality({e \in charted : WeekStart(LocalDate(row[e].at)) = w})]
  BY DEF AggregateByWeek, NoReport
<1>2. charted = C
  BY SpanOfDates, DatesAreInt
<1>3. IsFiniteSet(charted)
  <2>1. charted \in SUBSET listed
    BY DEF Between
  <2>2. QED
    BY <2>1, SecondsAreUnits
<1>4. IsFiniteSet(W)
  <2>1. WeekStart(ChartFirst) \in Int /\ span.last \in Int
    BY DatesAreInt
  <2>2. IsFiniteSet(WeekStart(ChartFirst) .. span.last)
    BY <2>1, FS_Interval
  <2>3. W \in SUBSET (WeekStart(ChartFirst) .. span.last)
    BY DEF ChartWeeks
  <2>4. QED
    BY <2>2, <2>3, FS_Subset
<1>5. [w \in W |-> Cardinality({e \in charted : WeekStart(LocalDate(row[e].at)) = w})]
        = [w \in W |-> Cardinality({e \in charted : K[e] = w})]
  <2>1. ASSUME NEW w PROVE {e \in charted : WeekStart(LocalDate(row[e].at)) = w} = {e \in charted : K[e] = w}
    OBVIOUS
  <2> HIDE DEF K, W, charted
  <2>2. QED
    BY <2>1
<1>6. Of = charted
  <2>1. ASSUME NEW e \in charted PROVE K[e] \in W
    <3> DEFINE d == LocalDate(row[e].at)
    <3>1. e \in listed /\ ChartFirst <= d /\ d <= span.last
      BY <1>2, <2>1 DEF OfDates
    <3>2. d \in Int /\ ChartFirst \in Int /\ span.last \in Int
      <4>1. row[e].at \in Int
        BY <3>1 DEF ReportTypeOK
      <4>2. QED
        BY <4>1, DatesAreInt
    <3>3. K[e] = WeekStart(d)
      OBVIOUS
    <3> HIDE DEF d, K
    <3>4. WeekStart(d) \in ChartWeeks
      BY <3>1, <3>2, WeekHolds DEF ChartWeeks
    <3>5. ~(span.last < ChartFirst)
      BY <3>1, <3>2
    <3>6. QED
      BY <3>3, <3>4, <3>5
  <2>2. QED
    BY <2>1
<1> HIDE DEF charted, K, W
<1>7. SumFunction([w \in W |-> Cardinality({e \in charted : K[e] = w})])
        = Cardinality({e \in charted : K[e] \in W})
  BY <1>3, <1>4, KeysAddUp
<1>8. QED
  BY <1>1, <1>2, <1>5, <1>6, <1>7

\* There are no more active days than days of the month so far.
LEMMA DaysOfMonth ==
  ASSUME ReportTypeOK, CountActiveDays, DOMAIN report = DOMAIN NoReport
  PROVE  report'.days <= Today - MonthStart + 1
<1> DEFINE month == Between(StartOfDay(MonthStart), StartOfDay(Today + 1))
           days == {LocalDate(row[e].at) : e \in month}
           span0 == MonthStart .. Today
<1>1. report'.days = Cardinality(days)
  BY DEF CountActiveDays, NoReport
<1>2. MonthStart \in Int /\ Today \in Int /\ MonthStart <= Today
  BY DatesAreInt
<1>3. month = OfDates(MonthStart, Today)
  BY <1>2, SpanOfDates
<1>4. days \in SUBSET span0
  <2>1. ASSUME NEW e \in month PROVE LocalDate(row[e].at) \in span0
    <3>1. e \in listed /\ MonthStart <= LocalDate(row[e].at) /\ LocalDate(row[e].at) <= Today
      BY <1>3, <2>1 DEF OfDates
    <3>2. row[e].at \in Int
      BY <3>1 DEF ReportTypeOK
    <3>3. LocalDate(row[e].at) \in Int
      BY <3>2, DatesAreInt
    <3>4. QED
      BY <1>2, <3>1, <3>3
  <2>2. QED
    BY <2>1
<1>5. IsFiniteSet(span0) /\ Cardinality(span0) = Today - MonthStart + 1
  <2>1. IsFiniteSet(span0) /\ Cardinality(span0) = IF MonthStart > Today THEN 0 ELSE Today - MonthStart + 1
    BY <1>2, FS_Interval
  <2>2. QED
    BY <1>2, <2>1
<1> HIDE DEF days, span0
<1>6. Cardinality(days) <= Cardinality(span0)
  BY <1>4, <1>5, FS_Subset
<1>7. QED
  BY <1>1, <1>5, <1>6

\* Entries that are created, edited and deleted stay entries.
LEMMA RowsChangeTypes ==
  ASSUME ReportTypeOK, RowsChange
  PROVE  ReportTypeOK'
<1>1. /\ UNCHANGED <<zone, span, query, report>> /\ changed' = TRUE
  BY DEF RowsChange
<1>2. PICK e \in Entries :
        \/ /\ e \notin listed
           /\ \E at \in {Now, Now + 1}, s \in Sorts : row' = Put(row, e, [at |-> at, holds |-> s])
           /\ listed' = listed \cup {e}
        \/ /\ e \in listed
           /\ \E s \in Sorts : row' = [row EXCEPT ![e].holds = s]
           /\ UNCHANGED listed
        \/ /\ e \in listed
           /\ row' = Restrict(row, listed \ {e})
           /\ listed' = listed \ {e}
  BY DEF RowsChange
<1> DEFINE Rec == [at : Nat, holds : Sorts]
<1>3. row \in [listed -> Rec] /\ listed \subseteq Entries
  BY DEF ReportTypeOK
<1>4. listed' \subseteq Entries /\ row' \in [listed' -> Rec]
  <2>1. CASE /\ e \notin listed
             /\ \E at \in {Now, Now + 1}, s \in Sorts : row' = Put(row, e, [at |-> at, holds |-> s])
             /\ listed' = listed \cup {e}
    <3>1. PICK at \in {Now, Now + 1}, s \in Sorts : row' = Put(row, e, [at |-> at, holds |-> s])
      BY <2>1
    <3> DEFINE v == [at |-> at, holds |-> s]
    <3>2. v \in Rec
      BY RequestOK
    <3> HIDE DEF v, Rec
    <3>3. row' = Put(row, e, v)
      BY <3>1 DEF v
    <3>4. QED
      BY <1>3, <2>1, <3>2, <3>3 DEF Put
  <2>2. CASE /\ e \in listed
             /\ \E s \in Sorts : row' = [row EXCEPT ![e].holds = s]
             /\ UNCHANGED listed
    <3>1. PICK s \in Sorts : row' = [row EXCEPT ![e].holds = s]
      BY <2>2
    <3>2. QED
      BY <1>3, <2>2, <3>1
  <2>3. CASE /\ e \in listed
             /\ row' = Restrict(row, listed \ {e})
             /\ listed' = listed \ {e}
    <3> HIDE DEF Rec
    <3>1. QED
      BY <1>3, <2>3 DEF Restrict
  <2>4. QED
    BY <1>2, <2>1, <2>2, <2>3
<1>5. QED
  BY <1>1, <1>4 DEF ReportTypeOK

\* Every query of a report, and every change of the entries between two of them.
LEMMA ReportStep == ReportInv /\ [ReportNext]_reportVars => ReportInv'
<1> SUFFICES ASSUME ReportInv, [ReportNext]_reportVars PROVE ReportInv'
  OBVIOUS
<1> USE DEF ReportInv
<1>1. DOMAIN report = {"total", "seconds", "tagged", "typed", "typedMinutes", "weeks", "days"}
  BY DEF NoReport
<1> DEFINE Same == /\ ReportTypeOK' /\ Today' = Today /\ MonthStart' = MonthStart
                   /\ InSpan' = InSpan /\ TaggedRows' = TaggedRows
                   /\ Seconds(InSpan)' = Seconds(InSpan)
                   /\ OfDates(ChartFirst, span.last)' = OfDates(ChartFirst, span.last)
                   /\ changed' = changed
<1>2. ASSUME query' \in Stages, UNCHANGED <<zone, span, row, listed, changed>> PROVE Same
  <2>1. ReportTypeOK'
    BY <1>2 DEF ReportTypeOK
  <2>2. QED
    BY <1>2, <2>1, RowsStand, ZoneStands
<1>3. ASSUME GetReportTotals PROVE ReportInv'
  <2>1. /\ query = "totals" /\ query' = "tags" /\ UNCHANGED <<zone, span, row, listed, changed>>
        /\ report' = [report EXCEPT !.total = Cardinality(InSpan), !.seconds = Seconds(InSpan)]
    BY <1>3 DEF GetReportTotals, Counts
  <2>2. Same
    BY <1>2, <2>1 DEF Stages
  <2>3. QED
    BY <1>1, <2>1, <2>2 DEF PartsSoFar
<1>4. ASSUME AggregateByTag PROVE ReportInv'
  <2>1. /\ query = "tags" /\ query' = "types" /\ UNCHANGED <<zone, span, row, listed, changed>>
        /\ report' = [report EXCEPT !.tagged = Cardinality(TaggedRows)]
    BY <1>4 DEF AggregateByTag, Counts
  <2>2. Same
    BY <1>2, <2>1 DEF Stages
  <2>3. QED
    BY <1>1, <2>1, <2>2 DEF PartsSoFar
<1>5. ASSUME AggregateByType PROVE ReportInv'
  <2> DEFINE groups == Groups(InSpan, LAMBDA e : row[e].holds.type)
  <2>1. /\ query = "types" /\ query' = "weeks" /\ UNCHANGED <<zone, span, row, listed, changed>>
        /\ report' = [report EXCEPT !.typed = SumFunction([g \in groups |-> Cardinality(g)]),
                                    !.typedMinutes = TypedMinutes(groups)]
    BY <1>5 DEF AggregateByType, Counts
  <2>2. Same
    BY <1>2, <2>1 DEF Stages
  <2>3. /\ SumFunction([g \in groups |-> Cardinality(g)]) = Cardinality(InSpan)
        /\ TypedMinutes(groups) = Minutes(Seconds(InSpan))
    BY TypesAreParts
  <2>4. report' = [report EXCEPT !.typed = Cardinality(InSpan), !.typedMinutes = Minutes(Seconds(InSpan))]
    BY <2>1, <2>3
  <2>5. Minutes(Seconds(InSpan))' = Minutes(Seconds(InSpan))
    BY <2>2 DEF Minutes
  <2>6. /\ report'.total = report.total /\ report'.seconds = report.seconds
        /\ report'.tagged = report.tagged /\ report'.weeks = report.weeks
        /\ report'.typed = Cardinality(InSpan) /\ report'.typedMinutes = Minutes(Seconds(InSpan))
        /\ report'.days = report.days /\ DOMAIN report' = DOMAIN report
    BY <1>1, <2>4
  <2>7. query = "types" /\ query' = "weeks"
    BY <2>1
  <2>8. QED
    BY <1>1, <2>2, <2>5, <2>6, <2>7 DEF PartsSoFar
<1>6. ASSUME AggregateByWeek PROVE ReportInv'
  <2>1. /\ query = "weeks" /\ query' = "days" /\ UNCHANGED <<zone, span, row, listed, changed>>
        /\ \E weeks : report' = [report EXCEPT !.weeks = weeks]
    BY <1>6 DEF AggregateByWeek, Counts
  <2>2. Same
    BY <1>2, <2>1 DEF Stages
  <2>3. SumFunction(report'.weeks) = Cardinality(OfDates(ChartFirst, span.last))
    BY <1>6, ChartAddsUp
  <2>4. Minutes(Seconds(InSpan))' = Minutes(Seconds(InSpan))
    BY <2>2 DEF Minutes
  <2>5. /\ report'.total = report.total /\ report'.seconds = report.seconds
        /\ report'.tagged = report.tagged /\ report'.typed = report.typed
        /\ report'.typedMinutes = report.typedMinutes /\ report'.days = report.days
        /\ DOMAIN report' = DOMAIN report
    BY <1>1, <2>1
  <2>6. QED
    BY <1>1, <2>1, <2>2, <2>3, <2>4, <2>5 DEF PartsSoFar
<1>7. ASSUME CountActiveDays PROVE ReportInv'
  <2>1. /\ query = "days" /\ query' = "done" /\ UNCHANGED <<zone, span, row, listed, changed>>
        /\ \E days : report' = [report EXCEPT !.days = days]
    BY <1>7 DEF CountActiveDays, Counts
  <2>2. Same
    BY <1>2, <2>1 DEF Stages
  <2>3. report'.days <= Today - MonthStart + 1
    BY <1>7, DaysOfMonth
  <2>4. Minutes(Seconds(InSpan))' = Minutes(Seconds(InSpan))
    BY <2>2 DEF Minutes
  <2>5. /\ report'.total = report.total /\ report'.seconds = report.seconds
        /\ report'.tagged = report.tagged /\ report'.typed = report.typed
        /\ report'.typedMinutes = report.typedMinutes /\ report'.weeks = report.weeks
        /\ DOMAIN report' = DOMAIN report
    BY <1>1, <2>1
  <2>6. QED
    BY <1>1, <2>1, <2>2, <2>3, <2>4, <2>5 DEF PartsSoFar
<1>8. ASSUME ReportFails PROVE ReportInv'
  <2>1. /\ query' = "failed" /\ UNCHANGED <<zone, span, row, listed, changed>>
        /\ report' = NoReport
    BY <1>8 DEF ReportFails
  <2>2. Same
    BY <1>2, <2>1 DEF Stages
  <2>3. 0 <= Today - MonthStart + 1
    BY DatesAreInt
  <2>4. report'.days = 0 /\ DOMAIN report' = DOMAIN NoReport
    BY <2>1 DEF NoReport
  <2>5. DOMAIN NoReport' = DOMAIN NoReport
    BY DEF NoReport
  <2>6. PartsSoFar'
    BY <2>1 DEF PartsSoFar
  <2>7. QED
    BY <2>2, <2>3, <2>4, <2>5, <2>6
<1>9. ASSUME RowsChange PROVE ReportInv'
  <2>1. UNCHANGED <<zone, span, query, report>> /\ changed' = TRUE
    BY <1>9 DEF RowsChange
  <2>2. Today' = Today /\ MonthStart' = MonthStart
    BY <2>1, ZoneStands
  <2>3. ReportTypeOK'
    BY <1>9, RowsChangeTypes
  <2>4. QED
    BY <2>1, <2>2, <2>3 DEF PartsSoFar, NoReport
<1>10. ASSUME UNCHANGED reportVars PROVE ReportInv'
  <2>1. /\ query' = query /\ report' = report /\ UNCHANGED <<zone, span, row, listed, changed>>
    BY <1>10 DEF reportVars
  <2>2. Same
    BY <1>2, <2>1 DEF ReportTypeOK
  <2>3. Minutes(Seconds(InSpan))' = Minutes(Seconds(InSpan))
    BY <2>2 DEF Minutes
  <2>4. QED
    BY <2>1, <2>2, <2>3 DEF PartsSoFar, NoReport
<1>11. QED
  BY <1>3, <1>4, <1>5, <1>6, <1>7, <1>8, <1>9, <1>10 DEF ReportNext

\* ReportInv holds: what the report has so far is what its queries selected, while no write
\* disturbs them.
THEOREM ReportInductive == ReportSpec => []ReportInv
<1>1. ReportInit => ReportInv
  <2> SUFFICES ASSUME ReportInit PROVE ReportInv
    OBVIOUS
  <2>1. /\ zone \in Zones /\ span \in [first : Asked, last : Asked] /\ listed \in SUBSET Entries
        /\ query = "totals" /\ report = NoReport /\ changed = FALSE
    BY DEF ReportInit
  <2>2. row \in [listed -> [at : Nat, holds : Sorts]]
    <3>1. PICK at \in [listed -> 0..Now], s \in [listed -> Sorts] :
             row = [e \in listed |-> [at |-> at[e], holds |-> s[e]]]
      BY DEF ReportInit
    <3>2. \A e \in listed : at[e] \in Nat /\ s[e] \in Sorts
      BY RequestOK
    <3>3. QED
      BY <3>1, <3>2
  <2>3. changed \in BOOLEAN /\ query \in Stages
    BY <2>1 DEF Stages
  <2>4. ReportTypeOK
    BY <2>1, <2>2, <2>3 DEF ReportTypeOK
  <2>5. report.days <= Today - MonthStart + 1
    <3>1. report.days = 0
      BY <2>1 DEF NoReport
    <3>2. QED
      BY <2>4, <3>1, DatesAreInt
  <2>6. QED
    BY <2>1, <2>4, <2>5 DEF ReportInv, PartsSoFar
<1>2. QED
  BY <1>1, ReportStep, PTL DEF ReportSpec

\* DatesAreLocal of the runs, for any zones that satisfy ZonesOK and any entries: the
\* totals count the entries whose local date was asked for, and no more days of the month
\* are active than have passed.
THEOREM SpanIsLocal == ReportSpec => []DatesAreLocal
<1>1. ReportInv => DatesAreLocal
  <2> SUFFICES ASSUME ReportInv PROVE DatesAreLocal
    OBVIOUS
  <2>1. InSpan = OfDates(span.first, span.last)
    BY SpanOfDates, DatesAreInt DEF ReportInv, InSpan
  <2>2. QED
    BY <2>1 DEF ReportInv, PartsSoFar, DatesAreLocal
<1>2. QED
  BY <1>1, ReportInductive, PTL

\* PartsAgree of the runs: types and totals agree on entries and on rounded minutes, and
\* the tags are a part.
THEOREM TotalsAgree == ReportSpec => []PartsAgree
<1>1. ReportInv => PartsAgree
  <2> SUFFICES ASSUME ReportInv PROVE PartsAgree
    OBVIOUS
  <2>1. Cardinality(TaggedRows) <= Cardinality(InSpan)
    <3>1. InSpan \in SUBSET listed /\ TaggedRows \in SUBSET InSpan
      BY DEF InSpan, Between, TaggedRows
    <3>2. IsFiniteSet(InSpan)
      BY <3>1, SecondsAreUnits DEF ReportInv
    <3>3. QED
      BY <3>1, <3>2, FS_Subset
  <2>2. QED
    BY <2>1 DEF ReportInv, PartsSoFar, PartsAgree
<1>2. QED
  BY <1>1, ReportInductive, PTL

\* ChartIsComplete of the runs: the weeks of the chart hold all the entries of the days it
\* covers.
THEOREM ChartDropsNothing == ReportSpec => []ChartIsComplete
<1>1. ReportInv => ChartIsComplete
  BY DEF ReportInv, PartsSoFar, ChartIsComplete
<1>2. QED
  BY <1>1, ReportInductive, PTL
=============================================================================
