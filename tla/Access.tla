------------------------------- MODULE Access -------------------------------
(***************************************************************************)
(* Who is let in: the login page, the session cookie that all tabs of a    *)
(* browser share, and the middleware before the protected routes.  The     *)
(* cookie holds the API token itself, and a new token comes with a         *)
(* rollout, one replica after the other.  A request carries the cookie     *)
(* that the browser has when it is sent; what its answer says of the       *)
(* cookie holds when it arrives.                                           *)
(***************************************************************************)
EXTENDS Naturals, FiniteSets

CONSTANTS
    Tabs,           \* tabs of one browser
    Servers,        \* replicas
    MaxToken        \* bound: the tokens that are ever used are 1..MaxToken

ASSUME AccessOK == IsFiniteSet(Tabs) /\ Servers # {} /\ MaxToken \in Nat \ {0}

VARIABLES
    token,          \* token[s]: API_TOKEN of replica s
    cookie,         \* learnd_session in the browser, or NoKey
    tab,            \* tab[t]: what it shows, or the request or answer under way
    lost            \* history: how often, since the rollout was over, the browser lost
                    \* a cookie that is good, but not by Logout

accessVars == <<token, cookie, tab, lost>>

NoKey == 0
Keep == MaxToken + 1    \* an answer that says nothing of the cookie

Quiet(shows) == [step |-> "quiet", shows |-> shows]

\* What a URL answers to: a page; a fragment, which htmx asks for; a change, by htmx too.
URLs == {"page", "fragment", "change"}

AccessInit ==
    /\ token = [s \in Servers |-> 1]
    /\ cookie = NoKey
    /\ tab = [t \in Tabs |-> Quiet("page")]
    /\ lost = 0

Sent(what, key) == [step |-> "sent", what |-> what, cookie |-> key]

\* A link, a poll or a form.  One that another site holds is not of the same origin.
Ask(t, url, from) ==
    /\ tab[t] = Quiet("page")
    /\ tab' = [tab EXCEPT ![t] = Sent([op |-> "visit", url |-> url, from |-> from,
                                       htmx |-> url # "page"], cookie)]
    /\ UNCHANGED <<token, cookie, lost>>

\* The form carries the URL to go back to.
SubmitKey(t, key) ==
    /\ tab[t].step = "quiet" /\ tab[t].shows = "form"
    /\ tab' = [tab EXCEPT ![t] = Sent([op |-> "login", key |-> key, back |-> tab[t].back,
                                       from |-> "app"], cookie)]
    /\ UNCHANGED <<token, cookie, lost>>

PressLogout(t, from) ==
    /\ tab[t] = Quiet("page")
    /\ tab' = [tab EXCEPT ![t] = Sent([op |-> "logout", from |-> from], cookie)]
    /\ UNCHANGED <<token, cookie, lost>>

\* The user leaves what it shows, or gives up waiting.
Open(t) ==
    /\ tab[t].step = "quiet" /\ tab[t] # Quiet("page")
    /\ tab' = [tab EXCEPT ![t] = Quiet("page")]
    /\ UNCHANGED <<token, cookie, lost>>

-----------------------------------------------------------------------------
(* The replica that gets the request: what it says of the cookie and what  *)
(* comes next, something to see or another request.                        *)

\* sameOrigin: Origin, or else Referer, names the origin that the request came to.
SameOrigin(what) == what.from = "app"

IsSafeMethod(what) == what.url # "change" \/ ~what.htmx

Shown(shows) == [jar |-> Keep, next |-> Quiet(shows)]
Goes(what) == [jar |-> Keep, next |-> what]

\* redirectToLogin
LoginFor(url) == Goes([op |-> "form", back |-> url])

\* Mutant of IsStale: a browser without a cookie is told to delete it, too.
IsStaleOrMissing(key, s) == key # token[s]

IsStale(key, s) == key # NoKey /\ key # token[s]

\* A browser that goes to the URL of a fragment sees no page.
Visited(what) == Shown(IF what.url = "fragment" /\ ~what.htmx THEN "fragment" ELSE "page")

\* The router has no GET for the URL of a change, and answers before the middleware does.
Auth(what, key, s) ==
    IF what.url = "change" /\ ~what.htmx THEN Shown("405")
    ELSE IF ~IsSafeMethod(what) /\ ~SameOrigin(what) THEN Shown("403")
    ELSE IF key = token[s] THEN Visited(what)
    ELSE IF IsStale(key, s) THEN [LoginFor(what.url) EXCEPT !.jar = NoKey]
    ELSE LoginFor(what.url)

Visit(url) == [op |-> "visit", url |-> url, from |-> "app", htmx |-> FALSE]

\* With a good cookie the page is not shown, and forgets where the browser came from.
LoginPage(what, key, s) ==
    IF key = token[s] THEN Goes(Visit("page"))
    ELSE [jar |-> Keep, next |-> [step |-> "quiet", shows |-> "form", back |-> what.back]]

\* A wrong key, a missing one or a form that cannot be read: the URL to go back to is lost.
Login(what, s) ==
    IF ~SameOrigin(what) THEN Shown("403")
    ELSE IF what.key # token[s] THEN LoginFor("page")
    ELSE [jar |-> token[s], next |-> Visit(what.back)]

Logout(what) ==
    IF ~SameOrigin(what) THEN Shown("403")
    ELSE [jar |-> NoKey, next |-> [op |-> "form", back |-> "page"]]

Handle(t, s) ==
    /\ tab[t].step = "sent"
    /\ LET what == tab[t].what  key == tab[t].cookie
           answer == CASE what.op = "visit"  -> Auth(what, key, s)
                       [] what.op = "form"   -> LoginPage(what, key, s)
                       [] what.op = "login"  -> Login(what, s)
                       [] what.op = "logout" -> Logout(what)
       IN tab' = [tab EXCEPT ![t] = [step |-> "answered", answer |-> answer,
                                     logout |-> what.op = "logout"]]
    /\ UNCHANGED <<token, cookie, lost>>

RolloutIsOver(key) == \A s \in Servers : token[s] = key

\* The answer arrives and htmx or the browser follows it.
Deliver(t) ==
    /\ tab[t].step = "answered"
    /\ LET answer == tab[t].answer IN
       /\ cookie' = IF answer.jar = Keep THEN cookie ELSE answer.jar
       /\ tab' = [tab EXCEPT ![t] = IF "op" \in DOMAIN answer.next THEN Sent(answer.next, cookie')
                                    ELSE answer.next]
       /\ lost' = IF RolloutIsOver(cookie) /\ cookie' # cookie /\ ~tab[t].logout
                  THEN lost + 1 ELSE lost
    /\ UNCHANGED token

\* The request or its answer is lost: the page stays as it is.
GiveUp(t) ==
    /\ tab[t].step \in {"sent", "answered"}
    /\ tab' = [tab EXCEPT ![t] = Quiet("page")]
    /\ UNCHANGED <<token, cookie, lost>>

\* A replica restarts with the next token, once all have the present one.
Rollout(s) ==
    /\ token[s] < MaxToken
    /\ \A r \in Servers : token[s] <= token[r]
    /\ token' = [token EXCEPT ![s] = @ + 1]
    /\ lost' = 0
    /\ UNCHANGED <<cookie, tab>>

AccessNext ==
    \/ \E t \in Tabs :
          \/ \E url \in URLs, from \in {"app", "elsewhere"} : Ask(t, url, from)
          \/ \E key \in 0..MaxToken : SubmitKey(t, key)
          \/ \E from \in {"app", "elsewhere"} : PressLogout(t, from)
          \/ Open(t) \/ Deliver(t) \/ GiveUp(t)
          \/ \E s \in Servers : Handle(t, s)
    \/ \E s \in Servers : Rollout(s)

AccessSpec == AccessInit /\ [][AccessNext]_accessVars

-----------------------------------------------------------------------------
(* An answer of before the rollout may clear the cookie or, to a login,    *)
(* bring the old one back, with which the tabs that are free may ask once  *)
(* more.  When i such logins have been answered i tabs are free, and one   *)
(* of them has to log in for the others to take the cookie from.           *)
MostLost == (Cardinality(Tabs) * (Cardinality(Tabs) + 1)) \div 2

\* Once a rollout is over a good cookie is lost to the answers that were under way before,
\* and no more: two tabs never keep logging each other out.
LoginsLast == lost <= MostLost

-----------------------------------------------------------------------------
(* Why so few: what may still be lost, once the token is key everywhere.   *)

Ops == {"visit", "form", "login", "logout"}

(* Requests are of a known kind, those to come included, and else a tab    *)
(* comes to rest.                                                          *)
TabsOK ==
    /\ token \in [Servers -> 1..MaxToken]
    /\ tab \in [Tabs -> {tab[t] : t \in Tabs}]
    /\ \A t \in Tabs :
          /\ tab[t].step = "sent" => tab[t].what.op \in Ops
          /\ tab[t].step = "answered" /\ "op" \in DOMAIN tab[t].answer.next =>
                tab[t].answer.next.op \in Ops
          /\ tab[t].step = "answered" /\ "op" \notin DOMAIN tab[t].answer.next =>
                tab[t].answer.next.step = "quiet"

(* Answers to logins of before: they bring an old token back.              *)
OldLogins(key) ==
    {t \in Tabs : tab[t].step = "answered" /\ tab[t].answer.jar \notin {Keep, NoKey, key}}

(* Visits with an old cookie, which will be told to delete it, and answers *)
(* that say so.                                                            *)
StaleVisits(key) ==
    {t \in Tabs : \/ /\ tab[t].step = "sent" /\ tab[t].what.op = "visit"
                     /\ tab[t].cookie \notin {NoKey, key}
                  \/ /\ tab[t].step = "answered" /\ ~tab[t].logout
                     /\ tab[t].answer.jar = NoKey}

(* Twice the cookies that a of n tabs may cost, that are about to bring an *)
(* old one back, one after the other: the i-th time n - i + 1, itself      *)
(* and each of those that are free to visit with it.                       *)
TwiceByLogins(n, a) == a * (2 * n + 1 - a)

(* With an old cookie all tabs that are free may visit, but one, which     *)
(* brings the good one that is lost to the others.                         *)
TwiceToLose(n, a, b, good) ==
    TwiceByLogins(n, a) + (IF good THEN 2 * b ELSE IF a < n THEN 2 * (n - a - 1) ELSE 0)

(* The bound is never exceeded, with what has been lost and what may be.   *)
LossIsPaidFor ==
    /\ lost \in Nat
    /\ (\A key \in 1..MaxToken : ~RolloutIsOver(key)) => lost = 0
    /\ \A key \in 1..MaxToken : RolloutIsOver(key) =>
          2 * lost + TwiceToLose(Cardinality(Tabs), Cardinality(OldLogins(key)),
                                 Cardinality(StaleVisits(key)), cookie \in {NoKey, key})
             <= Cardinality(Tabs) * (Cardinality(Tabs) + 1)

AccessInv == TabsOK /\ LossIsPaidFor
=============================================================================
