------------------------------ MODULE Services ------------------------------
(***************************************************************************)
(* What services promise together that share no state while they work: the *)
(* ones the public meets, and the ones that read the sources.              *)
(***************************************************************************)
EXTENDS PublicListing, PublicGate, SourceCrawl, PostFacts

\* public_recruitments.py, job_lifecycle.py, public_security.py: what the public
\* is shown of a job, and the bound of the table that guards it.
PublicSound == ListingSound /\ DatesSound /\ GateBounded

\* The adapters: what becomes of the rows of a listing and of the facts that
\* are stated of Posts.
SourcesSound == CrawlSound /\ PostsSound
=============================================================================
