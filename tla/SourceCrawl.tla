---------------------------- MODULE SourceCrawl ----------------------------
(***************************************************************************)
(* The discover method of the source adapters: a listing is fetched, its   *)
(* first rows are followed to a document each, directly or over a detail   *)
(* page, and every row gives a notice, a warning or, when its page or      *)
(* document was asked for before, nothing.  BoundedHttpClient repeats a    *)
(* request whose failure may pass.                                         *)
(*                                                                         *)
(* What a server answers, and whether a document can be read, is in time   *)
(* and has an identity, is chosen freely; the pauses are left out.         *)
(***************************************************************************)
EXTENDS Naturals, Sequences, FiniteSets, FiniteSetsExt

CONSTANTS Pages, Attachments, MaxListed, MaxVisits, MaxDetails, MaxNotices, Retries

ASSUME CrawlAssumption ==
    /\ {MaxListed, MaxVisits, MaxDetails, MaxNotices, Retries} \subseteq Nat
    /\ Pages \cap Attachments = {}

VARIABLES
    adapter,        \* "archive", "dated" or "cms"
    listed,         \* the document or the detail page behind each row
    fetching,       \* "listing", "next", "detail", "document", or how it ended
    attempt,        \* of the request
    requests,
    row,
    asked,          \* the page and the document that each row asked for
    outcome,        \* "notice", "warning" or "repeated"
    limits          \* the bounds that were warned about

crawlVars == <<adapter, listed, fetching, attempt, requests, row, asked, outcome, limits>>

\* A listing names a URL once; the rows of an archive are documents, those of
\* a CMS are details.
Listings(a) ==
    {l \in UNION {[1..n -> Attachments \cup {"detail"}] : n \in 0..MaxListed} :
        /\ \A i, j \in DOMAIN l : i # j /\ l[i] = l[j] => l[i] = "detail"
        /\ a = "archive" => \A i \in DOMAIN l : l[i] # "detail"
        /\ a = "cms" => \A i \in DOMAIN l : l[i] = "detail"}

CrawlInit ==
    /\ adapter \in {"archive", "dated", "cms"} /\ listed \in Listings(adapter)
    /\ fetching = "listing" /\ attempt = 0 /\ requests = 0 /\ row = 0
    /\ asked = <<>> /\ outcome = <<>> /\ limits = {}

----------------------------------------------------------------------------
RowsWith(o) == {i \in DOMAIN outcome : outcome[i] = o}
DetailsRead == {i \in DOMAIN asked : listed[i] = "detail"}

Bound ==
    CASE adapter = "archive" -> MaxNotices
      [] adapter = "dated" -> MaxVisits
      [] OTHER -> Min({MaxVisits, MaxDetails})

\* The bounds that the listing is seen to exceed at once.
Exceeded ==
    CASE adapter = "archive" -> {b \in {"notices"} : Len(listed) > MaxNotices}
      [] adapter = "dated" -> {b \in {"rows"} : Len(listed) > MaxVisits}
      [] OTHER -> {b \in {"rows"} : Len(listed) > MaxVisits}
                  \cup {b \in {"details"} : Min({Len(listed), MaxVisits}) > MaxDetails}

CountRequest == attempt' = attempt + 1 /\ requests' = requests + 1

\* A time-out, a network error, a 429 or a 5xx.
RetryRequest ==
    /\ fetching \in {"listing", "detail", "document"} /\ attempt < Retries
    /\ CountRequest
    /\ UNCHANGED <<adapter, listed, fetching, row, asked, outcome, limits>>

Answered == requests' = requests + 1 /\ attempt' = 0

ReadListing ==
    /\ fetching = "listing" /\ Answered
    /\ fetching' = "next" /\ row' = 1 /\ limits' = Exceeded
    /\ UNCHANGED <<adapter, listed, asked, outcome>>

\* Without a listing there is nothing to report.
LoseListing ==
    /\ fetching = "listing" /\ Answered
    /\ fetching' = "failed"
    /\ UNCHANGED <<adapter, listed, row, asked, outcome, limits>>

Close(o) ==
    /\ outcome' = Append(outcome, o) /\ row' = row + 1 /\ fetching' = "next"
    /\ UNCHANGED <<adapter, listed, limits>>

StopAt(bound) ==
    /\ fetching' = "done"
    /\ limits' = limits \cup {b \in {bound} : bound # "end"}
    /\ UNCHANGED <<adapter, listed, attempt, requests, row, asked, outcome>>

AskedFor(x) == \E i \in DOMAIN asked : x \in asked[i]

\* A document that an earlier row asked for, with or without success, is not
\* asked for again.
Want(d) ==
    /\ asked' = Append(asked, {d})
    /\ \/ AskedFor(d) /\ Close("repeated")
       \/ /\ ~AskedFor(d) /\ fetching' = "document"
          /\ UNCHANGED <<adapter, listed, row, outcome, limits>>

NoticesFull == adapter # "archive" /\ Cardinality(RowsWith("notice")) >= MaxNotices
DetailsFull == adapter = "dated" /\ listed[row] = "detail" /\ Cardinality(DetailsRead) >= MaxDetails

NextRow ==
    /\ fetching = "next"
    /\ IF row > Min({Len(listed), Bound}) THEN StopAt("end")
       ELSE IF NoticesFull THEN StopAt("notices")
       ELSE IF DetailsFull THEN StopAt("details")
       ELSE /\ UNCHANGED <<attempt, requests>>
            /\ IF listed[row] = "detail"
               THEN /\ fetching' = "detail" /\ asked' = Append(asked, {})
                    /\ UNCHANGED <<adapter, listed, row, outcome, limits>>
               ELSE Want(listed[row])

\* The detail page, perhaps at another address, leads to a document.
ReadDetail ==
    /\ fetching = "detail" /\ Answered
    /\ \E p \in Pages, d \in Attachments :
          LET pageAgain == adapter = "cms" /\ AskedFor(p) IN
          /\ asked' = [asked EXCEPT ![row] = {p} \cup {x \in {d} : ~pageAgain}]
          /\ \/ (pageAgain \/ AskedFor(d)) /\ Close("repeated")
             \/ /\ ~pageAgain /\ ~AskedFor(d) /\ fetching' = "document"
                /\ UNCHANGED <<adapter, listed, row, outcome, limits>>

ReadDocument ==
    /\ fetching = "document" /\ Answered
    /\ Close("notice") /\ UNCHANGED asked

\* The last attempt failed, the answer was refused, came from outside of the
\* approved scope, or cannot be used.
Warn ==
    /\ fetching \in {"detail", "document"} /\ Answered
    /\ Close("warning") /\ UNCHANGED asked

\* A detail page, the first time it is read, that leads to no document.
WarnOfPage ==
    /\ fetching = "detail" /\ Answered
    /\ \E p \in Pages : (adapter = "dated" \/ ~AskedFor(p)) /\ asked' = [asked EXCEPT ![row] = {p}]
    /\ Close("warning")

CrawlNext ==
    \/ RetryRequest \/ ReadListing \/ LoseListing
    \/ NextRow \/ ReadDetail \/ ReadDocument \/ Warn \/ WarnOfPage

CrawlSpec == CrawlInit /\ [][CrawlNext]_crawlVars

----------------------------------------------------------------------------
\* No row is lost: one that gives nothing shares its page or document with an
\* earlier one that did, or its page with one that shares its document with
\* such a row.  Rows are left out only behind a bound that was warned about, of
\* which there is no warning otherwise.  No document is asked for twice, and
\* neither the notices nor the requests exceed their bounds.
CrawlSound ==
    /\ \A i \in RowsWith("repeated") : \E k \in 1..(i - 1) : \E j \in 1..k :
          outcome[j] # "repeated" /\ asked[i] \cap asked[k] # {} /\ asked[k] \cap asked[j] # {}
    /\ fetching = "done" => (limits = {} <=> Len(outcome) = Len(listed))
    /\ \A i, j \in DOMAIN asked :
          /\ i # j /\ asked[i] \cap asked[j] \cap Attachments # {}
          => "repeated" \in {outcome[k] : k \in {i, j} \cap DOMAIN outcome}
    /\ Cardinality(RowsWith("notice")) <= MaxNotices
    /\ requests <= (Retries + 1) * (1 + Cardinality(DetailsRead) + Len(asked))
=============================================================================
