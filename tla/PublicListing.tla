--------------------------- MODULE PublicListing ---------------------------
(***************************************************************************)
(* PublicRecruitmentService: what the public sees of the current revisions *)
(* of the Masters, while revisions are published.                          *)
(*                                                                         *)
(* A listing reads twice, at READ COMMITTED: the Posts of the revisions    *)
(* that have some, then the revisions that have none, each of which is one *)
(* job.  The rows are immutable; what is current may change in between.    *)
(* Then it leaves out what is not to be shown, sorts and cuts a page.      *)
(* A day is a number; NoDate is a date that is missing.                    *)
(***************************************************************************)
EXTENDS Integers, FiniteSets, SequencesExt

CONSTANTS
    Masters,        \* their ids, numbers
    MasterRevisions,\* what may be published of a Master
    Today,
    RecentDays,     \* recently_closed_days
    Year            \* the default history, in days

NoDate == -1
NoRevision == [path |-> "none", jobs |-> {}]

\* A job has the id of its Post, or of its Master where it has no Posts.
Job == [id : Nat, post : BOOLEAN, complete : BOOLEAN,
        start : Nat \cup {NoDate}, end : Nat \cup {NoDate}, vacancies : Nat \cup {NoDate}]

ASSUME ListingAssumption ==
    /\ Masters \subseteq Nat /\ Today \in Nat
    /\ RecentDays \in 1..180 /\ Year \in 365..366
    /\ \A m \in Masters : \A r \in MasterRevisions[m] :
          /\ r.path \in {"VERIFIED_NO_REVIEW", "HUMAN_REVIEW"}
          /\ r.jobs \subseteq Job /\ IsFiniteSet(r.jobs) /\ r.jobs # {}
          /\ Cardinality({j.id : j \in r.jobs}) = Cardinality(r.jobs)
          /\ \A j \in r.jobs :
                IF j.post THEN j.id \notin Masters ELSE r.jobs = {j} /\ j.id = m
          /\ \A j \in r.jobs : \A n \in Masters : \A q \in MasterRevisions[n] : \A k \in q.jobs :
                j.id = k.id => m = n

VARIABLES
    current,        \* the current revision of each ACTIVE Master
    reading,        \* what a listing has read first, or "none"
    moved,          \* Masters published since it began
    listing,        \* the jobs the last listing answered from
    stable          \* whether nothing was published meanwhile

listingVars == <<current, reading, moved, listing, stable>>

----------------------------------------------------------------------------
(* The dates of a job.                                                     *)

\* Mutant: the last day is closed already.
ClassifyJobLate(start, end) ==
    CASE start # NoDate /\ end # NoDate /\ start > end -> "UNKNOWN"
      [] start > Today /\ ~(end # NoDate /\ start > end) -> "UPCOMING"
      [] OTHER -> IF end = NoDate THEN "UNKNOWN"
                  ELSE IF end > Today THEN "OPEN"
                  ELSE IF Today - end <= RecentDays THEN "RECENTLY_CLOSED" ELSE "CLOSED"

\* classify_job.
ClassifyJob(start, end) ==
    CASE start # NoDate /\ end # NoDate /\ start > end -> "UNKNOWN"
      [] start > Today /\ ~(end # NoDate /\ start > end) -> "UPCOMING"
      [] OTHER -> IF end = NoDate THEN "UNKNOWN"
                  ELSE IF end >= Today THEN "OPEN"
                  ELSE IF Today - end <= RecentDays THEN "RECENTLY_CLOSED" ELSE "CLOSED"

Lifecycle(j) == ClassifyJob(j.start, j.end)
ClosedJob(j) == Lifecycle(j) \in {"RECENTLY_CLOSED", "CLOSED"}

\* _within_default_history: only what is known to be old is left out.
WithinHistory(j) == ClosedJob(j) => j.end >= Today - Year

\* lifecycle_sort_key: by rank, then by what is next or was last, then by id.
Lifecycles == <<"OPEN", "RECENTLY_CLOSED", "UPCOMING", "CLOSED", "UNKNOWN">>
SortKey(j) ==
    <<CHOOSE n \in DOMAIN Lifecycles : Lifecycles[n] = Lifecycle(j),
      CASE Lifecycle(j) = "OPEN" -> j.end
        [] ClosedJob(j) -> 0 - j.end
        [] OTHER -> IF Lifecycle(j) = "UPCOMING" THEN j.start ELSE 0,
      j.id>>

Precedes(x, y) ==
    \/ x[1] < y[1]
    \/ x[1] = y[1] /\ x[2] < y[2]
    \/ x[1] = y[1] /\ x[2] = y[2] /\ x[3] < y[3]

----------------------------------------------------------------------------
(* A listing.                                                              *)

\* _publicly_ready: nobody has approved that a fact is missing.
PubliclyReady(row) == row.path = "VERIFIED_NO_REVIEW" => row.job.complete

Rows(m) == {[master |-> m, path |-> current[m].path, job |-> j] : j \in current[m].jobs}
CurrentRows == UNION {Rows(m) : m \in Masters}
PostRows == {row \in CurrentRows : row.job.post}
LegacyRows == CurrentRows \ PostRows

\* The rows to be shown, with a bound on the vacancies or with none (NoDate).
Shown(rows, least) ==
    {row \in rows : /\ PubliclyReady(row) /\ WithinHistory(row.job)
                    /\ row.job.vacancies >= least}

\* They are sorted: before the row i there are i - 1 others.  Jobs of unknown
\* dates are sorted by id, for their publication.
Before(rows, row) == {x \in rows : Precedes(SortKey(x.job), SortKey(row.job))}
InOrder(rows) ==
    [i \in 1..Cardinality(rows) |-> CHOOSE row \in rows : Cardinality(Before(rows, row)) = i - 1]
Sorted(rows, least) == InOrder(Shown(rows, least))

\* The page n of some size.
Page(s, n, size) ==
    SubSeq(s, (n - 1) * size + 1, IF n * size < Len(s) THEN n * size ELSE Len(s))
Paged(s, size) == (Len(s) + size - 1) \div size

\* get_recruitment: a job of its own id, if it is to be shown.
Detail(id) == {row \in CurrentRows : row.job.id = id /\ PubliclyReady(row)}

ListingInit ==
    /\ current = [m \in Masters |-> NoRevision]
    /\ reading = "none" /\ moved = {} /\ listing = {} /\ stable = TRUE

\* A publication of a Master, by anyone.
PublishRevision(m, r) ==
    /\ r # current[m]
    /\ current' = [current EXCEPT ![m] = r]
    /\ moved' = moved \cup {m}
    /\ stable' = FALSE
    /\ UNCHANGED <<reading, listing>>

\* A Master that is no longer ACTIVE.
Withdraw(m) ==
    /\ current[m] # NoRevision
    /\ current' = [current EXCEPT ![m] = NoRevision]
    /\ moved' = moved \cup {m}
    /\ stable' = FALSE
    /\ UNCHANGED <<reading, listing>>

\* The Posts are read; the rows read so far are kept in listing.
BeginListing ==
    /\ reading = "none"
    /\ reading' = "posts" /\ moved' = {}
    /\ listing' = PostRows /\ stable' = FALSE
    /\ UNCHANGED current

EndListing ==
    /\ reading # "none"
    /\ listing' = listing \cup LegacyRows
    /\ reading' = "none" /\ stable' = (moved = {})
    /\ UNCHANGED <<current, moved>>

ListingNext ==
    \/ \E m \in Masters : Withdraw(m) \/ \E r \in MasterRevisions[m] : PublishRevision(m, r)
    \/ BeginListing \/ EndListing

ListingSpec == ListingInit /\ [][ListingNext]_listingVars

----------------------------------------------------------------------------
Listed(m) == {row \in listing : row.master = m}

\* What is listed is what was current: each job once, and only a Master that
\* changes while it is listed can be listed of two revisions or not at all.
RowsSound ==
    /\ \A x, y \in listing : x.job.id = y.job.id => x = y
    /\ reading = "none" /\ stable => listing = CurrentRows
    /\ \A m \in Masters :
          /\ Cardinality({row.path : row \in Listed(m)}) > 1 => m \in moved
          /\ reading = "none" /\ m \notin moved => Listed(m) = Rows(m)

\* A listing shows each job once, never a partial one nobody has approved;
\* every page but the last is full, and together they are the listing,
\* whose jobs that can be applied for come first, the next to close before
\* the others.
PagesSound ==
    LET s == Sorted(listing, NoDate) IN
    /\ \A i, j \in DOMAIN s :
          /\ s[i].job.id = s[j].job.id => i = j
          /\ i < j /\ Lifecycle(s[j].job) = "OPEN" =>
                Lifecycle(s[i].job) = "OPEN" /\ s[i].job.end <= s[j].job.end
    /\ \A i \in DOMAIN s : s[i].path = "HUMAN_REVIEW" \/ s[i].job.complete
    /\ \A size \in 1..3 :
          /\ \A n \in 1..Paged(s, size) :
                Len(Page(s, n, size)) = IF n < Paged(s, size) THEN size ELSE Len(s) - (n - 1) * size
          /\ FlattenSeq([n \in 1..Paged(s, size) |-> Page(s, n, size)]) = s
    /\ reading = "none" /\ stable =>
          \A row \in CurrentRows :
             (\E i \in DOMAIN s : s[i] = row) <=> (Detail(row.job.id) = {row} /\ WithinHistory(row.job))

\* public_recruitments.py: what is listed, and what a listing shows of it.
ListingSound == RowsSound /\ PagesSound

\* The dates of a job say what they say of it: it is open on its last day and
\* upcoming before its first; a date that is missing, or out of order with
\* the other one, never hides it, nor has a job that was closed recently
\* passed out of the default history.
DatesSound ==
    \A row \in CurrentRows :
        LET j == row.job IN
        /\ Lifecycle(j) = "OPEN" <=>
              j.end # NoDate /\ Today <= j.end /\ j.start <= Today
        /\ Lifecycle(j) = "UPCOMING" <=>
              Today < j.start /\ (j.end # NoDate => j.start <= j.end)
        /\ ~WithinHistory(j) => j.end \in 0..(Today - Year) /\ Lifecycle(j) = "CLOSED"
        /\ Lifecycle(j) = "UNKNOWN" => WithinHistory(j)
=============================================================================
