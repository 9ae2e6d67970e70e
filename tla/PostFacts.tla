----------------------------- MODULE PostFacts -----------------------------
(***************************************************************************)
(* From the text of an advertisement to its Posts: a vacancy table of one  *)
(* of five kinds is split into Posts or leaves the advertisement ambiguous *)
(* without any; trade rosters split a Post of an organisation further when *)
(* their totals agree with its own; and five passes over the text state    *)
(* more facts of the Posts they belong to.  The first value of a fact      *)
(* stays; what does not belong, does not read or contradicts is reported.  *)
(*                                                                         *)
(* A row reads whole, is seen but damaged, or is not seen to be a row.     *)
(* What is not seen is lost in silence, and so is every damaged row of a   *)
(* table of numbered positions and every row of a piped table behind a     *)
(* line that is none, although README.md:13-15 and                         *)
(* docs/architecture.md:635 say that a damaged table creates no Posts.     *)
(***************************************************************************)
EXTENDS Naturals, Sequences, FiniteSets, SequencesExt

CONSTANTS
    TableRows,      \* rows: their key, total, facts and how they read
    Tables,         \* tables: their kind and rows; a single Post states no total: 0
    Trades,         \* what a roster of trades may list
    Statements,     \* what a statement may say: functions from keys to values
    Unknown,        \* no value
    MaxStatements

Stating(s) == s = [k \in DOMAIN s |-> s[k]] /\ \A k \in DOMAIN s : s[k] # Unknown

ASSUME PostFactsAssumption ==
    /\ \A r \in TableRows : /\ r = [key |-> r.key, total |-> r.total, says |-> r.says,
                                    reads |-> r.reads]
                            /\ r.total \in Nat /\ Stating(r.says)
                            /\ r.reads \in {"whole", "damaged", "unseen"}
    /\ \A t \in Tables :
          /\ t.rows \in Seq(TableRows)
          /\ t.kind \in {"piped", "narrative", "aligned", "numbered", "single"}
    /\ Trades \subseteq Seq(TableRows) \ {<<>>} /\ MaxStatements \in Nat
    /\ \A s \in Statements : Stating(s)

VARIABLES
    split,          \* the split status of the advertisement
    vacancyTable,   \* the table of vacancies that was found
    post,           \* the rows that became Posts
    trades,         \* whether rosters took the place of Posts
    fact,           \* the facts of each Post
    read,           \* the statements that were read
    reported        \* those reported as ambiguous; 0 for the table or its rosters

postVars == <<split, vacancyTable, post, trades, fact, read, reported>>

Totals == {r.total : r \in TableRows}
FactKeys == UNION ({DOMAIN s : s \in Statements} \cup {DOMAIN r.says : r \in TableRows})
Sum(rows) == FoldLeft(LAMBDA n, r : n + r.total, 0, rows)
Distinct(rows) == \A i, j \in DOMAIN rows : rows[i].key = rows[j].key => i = j

PostFactsInit ==
    /\ split = "LEGACY_UNSPLIT" /\ vacancyTable = [kind |-> "single", rows |-> <<>>] /\ post = <<>>
    /\ trades = FALSE /\ fact = <<>> /\ read = <<>> /\ reported = {}

----------------------------------------------------------------------------
(* The table.                                                              *)

SeenRows(t) == {i \in DOMAIN t.rows : t.rows[i].reads # "unseen"}
WholeRows(t) == {i \in DOMAIN t.rows : t.rows[i].reads = "whole"}

\* The rows a parser goes by.  A piped table ends at the first line behind its
\* rows that is none; numbered positions are passed over unless they read.
Kept(t) ==
    CASE t.kind = "piped" ->
            {i \in SeenRows(t) : \A j \in SeenRows(t) : j..i \subseteq SeenRows(t)}
      [] t.kind = "numbered" -> {i \in WholeRows(t) : t.rows[i].total > 0}
      [] OTHER -> SeenRows(t)

KeptRows(t) ==
    FlattenSeq([i \in DOMAIN t.rows |-> IF i \in Kept(t) THEN <<t.rows[i]>> ELSE <<>>])

\* Numbered positions are told apart before their totals are looked at.
Splits(t) ==
    /\ Kept(t) # {} /\ Kept(t) \subseteq WholeRows(t) /\ Distinct(KeptRows(t))
    /\ t.kind = "numbered" =>
          \A i, j \in WholeRows(t) : t.rows[i].key = t.rows[j].key => i = j
    /\ t.kind \in {"narrative", "aligned"} => \A i \in Kept(t) : t.rows[i].total > 0
    /\ t.kind = "aligned" => \A i \in Kept(t) : 1..i \subseteq Kept(t)

\* Rosters of some Posts, each of which makes up the total of its Post.
Rosters(rows) ==
    {roster \in UNION {[S -> Trades] : S \in SUBSET DOMAIN rows \ {{}}} :
        \A i \in DOMAIN roster : Sum(roster[i]) = rows[i].total}

\* The rows of the rosters in the place of their Posts.
Refined(rows, roster) ==
    FlattenSeq([i \in DOMAIN rows |-> IF i \in DOMAIN roster THEN roster[i] ELSE <<rows[i]>>])

Become(status, rows) ==
    /\ split' = status /\ post' = rows
    /\ fact' = [i \in DOMAIN rows |->
                   [k \in FactKeys |->
                       IF k \in DOMAIN rows[i].says THEN rows[i].says[k] ELSE Unknown]]

\* A kind that finds no row leaves the text to the next one, or says that it
\* found a table.  Rosters that misfit are reported and change nothing; only a
\* Post of an organisation has any.
SplitTable(t) ==
    /\ split = "LEGACY_UNSPLIT" /\ vacancyTable' = t
    /\ t.kind \in {"narrative", "single"} => Kept(t) # {}
    /\ \/ ~Splits(t) /\ Become("AMBIGUOUS", <<>>) /\ reported' = {0} /\ UNCHANGED trades
       \/ /\ Splits(t) /\ Become("EXPLICIT", KeptRows(t))
          /\ reported' \in {{}, {0}} /\ UNCHANGED trades
       \/ /\ Splits(t) /\ t.kind \in {"piped", "narrative"}
          /\ \E roster \in Rosters(KeptRows(t)) :
                LET refined == Refined(KeptRows(t), roster) IN
                Distinct(refined) /\ Become("EXPLICIT", refined)
          /\ trades' = TRUE /\ UNCHANGED reported
    /\ UNCHANGED read

----------------------------------------------------------------------------
(* The passes, in their order.                                             *)

Passes == <<"requirement", "row", "column", "clause", "roster">>
PassOf(s) == CHOOSE n \in DOMAIN Passes : Passes[n] = s.source

\* A roster states a Post whose vacancies its categories make up.
Reconciles(s) == vacancyTable.kind # "single" /\ \A p \in s.owners : post[p].total = s.total

\* A row belongs to one Post, a requirement or a clause to any number.
Belongs(s) ==
    /\ s.owners # {}
    /\ s.source \in {"row", "column", "roster"} => Cardinality(s.owners) = 1
    /\ s.source = "roster" => Reconciles(s)

Contradicts(s, p) ==
    \E k \in DOMAIN s.says : fact[p][k] \notin {Unknown, s.says[k]}

\* Mutant: a later statement overwrites the fact.
Overwrite(s, p) ==
    [k \in FactKeys |-> IF k \in DOMAIN s.says THEN s.says[k] ELSE fact[p][k]]

Attach(s, p) ==
    [k \in FactKeys |-> IF k \in DOMAIN s.says /\ fact[p][k] = Unknown
                        THEN s.says[k] ELSE fact[p][k]]

Read(s, ambiguous) ==
    /\ split = "EXPLICIT" /\ Len(read) < MaxStatements
    /\ \A i \in DOMAIN read : PassOf(read[i]) <= PassOf(s)
    /\ read' = Append(read, s)
    /\ fact' = [p \in DOMAIN post |->
                   IF Belongs(s) /\ p \in s.owners THEN Attach(s, p) ELSE fact[p]]
    /\ reported' = reported \cup {n \in {Len(read) + 1} : ambiguous}
    /\ UNCHANGED <<split, vacancyTable, post, trades>>

Ambiguous(s) == ~Belongs(s) \/ \E p \in s.owners : Contradicts(s, p)

\* The headings of a trade make one requirement, of all its Posts, of which no
\* table says anything; it is the first of all, and contradicts nothing.
ReadRequirement(s) ==
    /\ s.source = "requirement" /\ trades /\ s.owners # {}
    /\ \A i \in DOMAIN read : read[i].owners \cap s.owners = {}
    /\ \A p \in s.owners : DOMAIN s.says \cap DOMAIN post[p].says = {}
    /\ Read(s, FALSE)

\* The rows of a table, by columns the text marks or aligns.
ReadRow(s) == s.source = "row" /\ Read(s, Ambiguous(s))
ReadColumn(s) == s.source = "column" /\ Read(s, Ambiguous(s))

ReadClause(s) == s.source = "clause" /\ Read(s, Ambiguous(s))
ReadRoster(s) == s.source = "roster" /\ Read(s, Ambiguous(s))

PostFactsNext ==
    \/ \E t \in Tables : SplitTable(t)
    \/ \E n \in DOMAIN Passes, owners \in SUBSET DOMAIN post, says \in Statements,
          total \in Totals :
          LET s == [source |-> Passes[n], owners |-> owners, says |-> says,
                    total |-> total]
          IN \/ ReadRoster(s)
             \/ /\ total = CHOOSE t \in Totals : TRUE
                /\ ReadRequirement(s) \/ ReadRow(s) \/ ReadColumn(s) \/ ReadClause(s)

PostFactsSpec == PostFactsInit /\ [][PostFactsNext]_postVars

----------------------------------------------------------------------------
\* The vacancies that the whole rows of a table state.
Stated(t) ==
    Sum([i \in DOMAIN t.rows |->
            IF i \in WholeRows(t) THEN t.rows[i] ELSE [t.rows[i] EXCEPT !.total = 0]])

\* A piped table with rows behind a line that is none: they are not looked at.
CutShort(t) == t.kind = "piped" /\ Kept(t) # SeenRows(t)

\* An ambiguous table has no Posts and is reported.  The Posts of any other have
\* in all the vacancies of its whole rows, however they were refined, and at
\* most those where it is cut short; where no row may be passed over, none was
\* damaged.
VacanciesSound ==
    /\ split = "AMBIGUOUS" => post = <<>> /\ 0 \in reported
    /\ split = "EXPLICIT" =>
          IF CutShort(vacancyTable) THEN Sum(post) <= Stated(vacancyTable)
          ELSE /\ Sum(post) = Stated(vacancyTable)
               /\ vacancyTable.kind # "numbered" =>
                     SeenRows(vacancyTable) \subseteq WholeRows(vacancyTable)

\* The Posts have different keys and say what their rows say; what else a Post
\* says of itself was stated of it; and what was stated without an ambiguity
\* holds of every Post it belongs to, whatever was read after it.
FactsSound ==
    /\ Distinct(post)
    /\ \A p \in DOMAIN post : \A k \in DOMAIN post[p].says : fact[p][k] = post[p].says[k]
    /\ \A p \in DOMAIN post : \A k \in FactKeys \ DOMAIN post[p].says :
          fact[p][k] # Unknown =>
             \E i \in DOMAIN read : /\ Belongs(read[i]) /\ p \in read[i].owners
                                    /\ k \in DOMAIN read[i].says
                                    /\ read[i].says[k] = fact[p][k]
    /\ \A i \in DOMAIN read \ reported :
          /\ read[i].owners # {}
          /\ \A p \in read[i].owners : \A k \in DOMAIN read[i].says :
                fact[p][k] = read[i].says[k]

\* post_structure.py, official_recruitment_archive.py: the Posts have the
\* vacancies of the rows that were read whole, and their facts are those that
\* were stated of them.
PostsSound == VacanciesSound /\ FactsSound
=============================================================================
