------------------------ MODULE PublicationCatalogue ------------------------
(***************************************************************************)
(* What the Master Publisher keeps when publications overlap: a list of    *)
(* distinct projections to which each publication adds at most one, one    *)
(* event for each request, a pointer that every new projection takes, and  *)
(* the time at which a published revision was verified.                    *)
(***************************************************************************)
EXTENDS Naturals, Sequences

CONSTANTS Revisions, Posts, Full, VerifiedAt

VARIABLES history, current, verified, events

vars == <<history, current, verified, events>>

Init ==
    /\ history = <<>> /\ current = 0
    /\ verified = 0 /\ events = {}

\* The event of request <<r, k>> is recorded with revision n.
RecordEvent(r, k, n) ==
    /\ \A e \in events : <<e.rev, e.key>> # <<r, k>>
    /\ \E e \in events' : /\ events' = events \cup {e}
                          /\ <<e.rev, e.key, e.number>> = <<r, k, n>>
    /\ k # Full => k \in DOMAIN history'[n]

\* A projection not published before becomes the next revision, and current.
PublishNew(r, k) ==
    LET n == Len(history) + 1
    IN  /\ Len(history') = n
        /\ \A m \in 1..Len(history) :
              history'[m] = history[m] /\ history'[n] # history[m]
        /\ current' = n
        /\ verified' \in {verified, VerifiedAt[r]}
        /\ history = <<>> => verified' = VerifiedAt[r]
        /\ RecordEvent(r, k, n)

\* A projection published before is recorded again; it becomes current unless
\* it already was when the publication began.
PublishAgain(r, k, n) ==
    /\ history' = history
    /\ current' \in {n, current}
    /\ verified' \in {verified, VerifiedAt[r]}
    /\ RecordEvent(r, k, n)

Next ==
    \E r \in Revisions, k \in Posts \cup {Full} :
        PublishNew(r, k) \/ \E n \in 1..Len(history) : PublishAgain(r, k, n)

Spec == Init /\ [][Next]_vars
=============================================================================
