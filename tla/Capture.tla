------------------------------ MODULE Capture -------------------------------
(***************************************************************************)
(* POST /api/entries: the check for duplicates and the insert are two      *)
(* statements, and normalized_url is not unique.                           *)
(***************************************************************************)
EXTENDS Naturals, Functions, Maps

CONSTANTS
    Captures,       \* requests that may be under way at once
    Links,          \* UUIDs; one that has been deleted stands for a new one
    Spellings,      \* URLs as users give them
    SameLink        \* the spellings that NormalizeURL makes equal, as sets

ASSUME SameLinkOK == UNION SameLink = Spellings

VARIABLES
    link,       \* link[i]: the URL of an entry that exists
    capture,    \* capture[c]: what is asked and how far the handler is
    known       \* history: known[c]: the entries when capture c began

captureVars == <<link, capture, known>>

NoCapture == [step |-> "none"]

Normalized(url) == CHOOSE same \in SameLink : url \in same

CaptureInit ==
    /\ link = <<>>
    /\ capture = [c \in Captures |-> NoCapture]
    /\ known = [c \in Captures |-> {}]

\* The button Add anyway sends allow_duplicate.
Submit(c) ==
    /\ capture[c] = NoCapture
    /\ \E url \in Spellings, allow \in BOOLEAN :
          capture' = [capture EXCEPT ![c] = [step |-> "check", url |-> url, allow |-> allow]]
    /\ known' = [known EXCEPT ![c] = DOMAIN link]
    /\ UNCHANGED link

\* The response shows an error, a warning or the new row.
Respond(c) ==
    /\ capture' = [capture EXCEPT ![c] = NoCapture]
    /\ known' = [known EXCEPT ![c] = {}]

\* Mutant of IsDuplicate: URLs are compared as they are spelled.
IsDuplicateSpelled(url) == \E i \in DOMAIN link : link[i] = url

\* GetLatestByNormalizedURL finds an entry.
IsDuplicate(url) == \E i \in DOMAIN link : Normalized(link[i]) = Normalized(url)

\* A duplicate is answered with a warning, a bad tag, only then, with an error.
CheckDuplicate(c) ==
    /\ capture[c].step = "check"
    /\ \/ /\ capture[c].allow \/ ~IsDuplicate(capture[c].url)
          /\ capture' = [capture EXCEPT ![c].step = "insert"]
          /\ UNCHANGED known
       \/ Respond(c)
    /\ UNCHANGED link

InsertEntry(c) ==
    /\ capture[c].step = "insert"
    /\ \E i \in Links \ DOMAIN link : link' = Put(link, i, capture[c].url)
    /\ Respond(c)

\* A query fails: "Failed to check duplicates", "Failed to create entry".
CaptureFails(c) ==
    /\ capture[c] # NoCapture
    /\ Respond(c)
    /\ UNCHANGED link

DeleteLink(i) ==
    /\ i \in DOMAIN link
    /\ link' = Restrict(link, DOMAIN link \ {i})
    /\ known' = [c \in Captures |-> known[c] \ {i}]
    /\ UNCHANGED capture

CaptureNext ==
    \/ \E c \in Captures : Submit(c) \/ CheckDuplicate(c) \/ InsertEntry(c) \/ CaptureFails(c)
    \/ \E i \in Links : DeleteLink(i)

CaptureSpec == CaptureInit /\ [][CaptureNext]_captureVars

\* Without "Add anyway" a link is stored twice only if two captures overlapped: every
\* other entry with the same normalized URL came in after this request began.
NoSilentDuplicate ==
    [][\A c \in Captures : InsertEntry(c) /\ ~capture[c].allow =>
          \A i \in DOMAIN link :
             Normalized(link[i]) = Normalized(capture[c].url) => i \notin known[c]]_captureVars

-----------------------------------------------------------------------------
(* Why: an entry that was there when a request began was seen by its check *)
(* and, as URLs never change, still is what the check saw.                 *)
CaptureInv ==
    /\ capture \in [Captures -> {capture[c] : c \in Captures}]
    /\ known \in [Captures -> SUBSET DOMAIN link]
    /\ \A c \in Captures : capture[c].step = "insert" /\ ~capture[c].allow =>
          \A i \in known[c] : Normalized(link[i]) # Normalized(capture[c].url)
=============================================================================
