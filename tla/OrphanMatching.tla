--------------------------- MODULE OrphanMatching ---------------------------
(***************************************************************************)
(* Which ingested episode supersedes an orphan, an episode that came from  *)
(* the old catalog (the matcher of tmdb/orphan_retire.py).  Everything is  *)
(* a set of rows: a rule that finds more than one row on either side       *)
(* decides nothing.                                                        *)
(*                                                                         *)
(* An episode is a record [id, show, season, number, title, date,          *)
(* ingested, home]; its title is folded, its home is its season row.       *)
(***************************************************************************)
EXTENDS Integers, FiniteSets

CONSTANTS
    Blank,      \* a title that folds to nothing
    NoDate,     \* no air date
    NoOffset,   \* no season offset that the evidence agrees on
    NoLink      \* no show to look in

MinVotes == 2   \* _LINK_MIN_TITLE_VOTES; a share of a half is 2 * votes >= all

-----------------------------------------------------------------------------
(* Rows that share something                                               *)

Key(e) == <<e.season, e.number>>
Keyed(k, rows) == {e \in rows : Key(e) = k}
Titled(t, rows) == {e \in rows : e.title = t /\ t # Blank}
Aired(e, rows) ==
    {f \in rows : /\ f.title = e.title /\ f.title # Blank
                  /\ f.date = e.date /\ f.date # NoDate}

IsSpecial(e) == e.season = 0 \/ e.number < 0

-----------------------------------------------------------------------------
(* The link of a show to the one its leftovers belong to                   *)

\* Pairs of one title and one air date, alone with it on both sides.
Evidence(orphans, candidates) ==
    {p \in orphans \X candidates :
        Aired(p[1], orphans) = {p[1]} /\ Aired(p[1], candidates) = {p[2]}}

Offsets(evidence) ==
    {p[1].season - p[2].season :
        p \in {q \in evidence : ~IsSpecial(q[1]) /\ ~IsSpecial(q[2])}}

Link(to, offset) == [to |-> to, offset |-> offset]
Unanimous(offsets) ==
    IF \E k \in offsets : offsets = {k} THEN CHOOSE k \in offsets : TRUE ELSE NoOffset

\* Evidence in one sibling links it, in two links nothing; with none at all a
\* lone sibling links.  rowsOf[s]: the ingested episodes of s.
ResolveLink(orphans, siblings, rowsOf) ==
    LET proven == {s \in siblings : Evidence(orphans, rowsOf[s]) # {}} IN
    IF \E s \in proven : proven = {s}
    THEN LET s == CHOOSE s \in proven : TRUE
         IN Link(s, Unanimous(Offsets(Evidence(orphans, rowsOf[s]))))
    ELSE IF proven = {} /\ \E s \in siblings : siblings = {s}
    THEN Link(CHOOSE s \in siblings : TRUE, NoOffset)
    ELSE NoLink

\* The last resort of an orphan show: the one show that holds most of its
\* titles, each of them once.
LinkByTitles(from, orphans, catalog) ==
    LET titles == {o.title : o \in orphans} \ {Blank}
        votes[s \in {e.show : e \in catalog} \ {from}] ==
            Cardinality({t \in titles :
                Cardinality({e \in Titled(t, catalog) : e.show = s}) = 1})
        matched == {t \in titles : Titled(t, catalog) # {}}
        winners == {s \in DOMAIN votes :
                       /\ \A r \in DOMAIN votes \ {s} : votes[r] < votes[s]
                       /\ votes[s] >= MinVotes
                       /\ 2 * votes[s] >= Cardinality(matched)}
    IN IF winners = {} THEN NoLink ELSE Link(CHOOSE s \in winners : TRUE, NoOffset)

-----------------------------------------------------------------------------
(* The four tiers: pairs of an orphan and its twin                         *)

ExactKey(orphans, ingested) ==
    {p \in orphans \X ingested :
        Keyed(Key(p[1]), orphans) = {p[1]} /\ Keyed(Key(p[1]), ingested) = {p[2]}}

UniqueTitle(orphans, others) ==
    {p \in orphans \X others :
        Titled(p[1].title, orphans) = {p[1]} /\ Titled(p[1].title, others) = {p[2]}}

ShiftedKey(orphans, linked, offset) ==
    {p \in orphans \X linked :
        /\ Keyed(Key(p[1]), orphans) = {p[1]}
        /\ Keyed(<<p[1].season - offset, p[1].number>>, linked) = {p[2]}}

\* A tier takes what is unplaced, and no twin that is claimed.
Then(pairs, tier) ==
    pairs \cup {p \in tier : \A q \in pairs : q[1] # p[1] /\ q[2] # p[2]}

\* Within a tier no two orphans have one twin (TierOneToOne), so that the order
\* in which the code walks them does not matter.
OwnMatches(orphans, ingested) ==
    Then(ExactKey(orphans, ingested), UniqueTitle(orphans, ingested))

\* linked: the ingested episodes of the show that link leads to.
Matches(orphans, ingested, link, linked) ==
    LET own == OwnMatches(orphans, ingested)
        shifted == IF link.offset = NoOffset THEN own
                   ELSE Then(own, ShiftedKey(orphans, linked, link.offset))
    IN IF link = NoLink THEN own ELSE Then(shifted, UniqueTitle(orphans, linked))

-----------------------------------------------------------------------------
(* What the report says of an orphan                                       *)

Cause(o, showMatched, orphans, ingested) ==
    LET twins == Keyed(Key(o), ingested)
        season == {e \in ingested : e.season = o.season}
    IN IF ~showMatched THEN "show_unmatched"
       ELSE IF ingested = {} THEN "no_ingested_episodes"
       ELSE IF (\E t \in twins : twins = {t}) /\ Keyed(Key(o), orphans) = {o}
            THEN "exact_twin"
       ELSE IF twins # {} THEN "ambiguous_key"
       ELSE IF o.number < 0 THEN "synthetic_special"
       ELSE IF season = {} THEN "season_absent"
       ELSE IF \A e \in season : e.number < o.number THEN "past_end_of_season"
       ELSE "gap_in_season"

=============================================================================
