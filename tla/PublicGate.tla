----------------------------- MODULE PublicGate -----------------------------
(***************************************************************************)
(* PublicRateLimiter: the requests of each client are counted in windows   *)
(* that begin with a request; when the table of windows is full, those     *)
(* that have ended are forgotten, and the clients that find no place then  *)
(* share one window.  Nothing waits between the steps of a request.        *)
(*                                                                         *)
(* Times are ages, which stop growing at the window's length.              *)
(***************************************************************************)
EXTENDS Naturals, FiniteSets, FiniteSetsExt, Functions

CONSTANTS PublicClients, Overflow, MaxRequests, Window, MaxBuckets

ASSUME GateAssumption ==
    Overflow \notin PublicClients /\ {MaxRequests, Window, MaxBuckets} \subseteq Nat \ {0}

VARIABLE bucket     \* the age and the count of each window in the table

\* Counts beyond the limit are all alike.
Capped(n) == Min({n, MaxRequests + 1})
Lasting(k) == bucket[k].age < Window

GateInit == bucket = <<>>

Tick == bucket' = [k \in DOMAIN bucket |-> [bucket[k] EXCEPT !.age = Min({@ + 1, Window})]]

Crowded(c) == c \notin DOMAIN bucket /\ Cardinality(DOMAIN bucket) >= MaxBuckets

\* Mutant: a full table is emptied.
PrunedToNone(c) == IF Crowded(c) THEN <<>> ELSE bucket

Pruned(c) ==
    IF Crowded(c) THEN Restrict(bucket, {k \in DOMAIN bucket : Lasting(k)}) ELSE bucket

Key(c) ==
    IF Crowded(c) /\ Cardinality(DOMAIN Pruned(c)) >= MaxBuckets THEN Overflow ELSE c

CountedIn(c) ==
    LET table == Pruned(c)
        k == Key(c)
        counted == IF k \in DOMAIN table /\ table[k].age < Window
                   THEN [table[k] EXCEPT !.count = Capped(@ + 1)] ELSE [age |-> 0, count |-> 1]
    IN  [j \in DOMAIN table \cup {k} |-> IF j = k THEN counted ELSE table[j]]

Ask(c) == bucket' = CountedIn(c)

GateNext == Tick \/ \E c \in PublicClients : Ask(c)
GateSpec == GateInit /\ [][GateNext]_bucket

----------------------------------------------------------------------------
\* public_security.py:62-73: the table outgrows its bound by the shared window only.
GateBounded ==
    Cardinality(DOMAIN bucket) <= MaxBuckets + (IF Overflow \in DOMAIN bucket THEN 1 ELSE 0)

\* public_security.py:62-75: whatever the clients do, a window that runs is
\* neither forgotten nor begun again: its count only grows until it ends.  That
\* holds of each window and not of each client: a client that was counted in the
\* shared window may get one of its own while the shared one still runs, and be
\* let through as often as both allow.
WindowsKept ==
    [][\A k \in DOMAIN bucket : Lasting(k) =>
          /\ k \in DOMAIN bucket'
          /\ bucket'[k].age >= bucket[k].age
          /\ bucket'[k].count >= bucket[k].count]_bucket
=============================================================================
