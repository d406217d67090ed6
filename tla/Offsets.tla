------------------------------- MODULE Offsets -------------------------------
(***************************************************************************)
(* The airdate offset: what it means, how it is applied and how the trust  *)
(* rule arrives at one (catalog/offsets.py, airdates/reconcile.py).        *)
(*                                                                         *)
(* A date is kept as a pair: what readers see (air) and, whenever a        *)
(* correction applies, what TMDB said (raw).  Nothing ever shifts a stored *)
(* value in place; ShowRowsProofs proves what that buys.                  *)
(***************************************************************************)
EXTENDS Integers, FiniteSets

CONSTANT NoDate

ASSUME NoDateAssumption == NoDate \notin Int

\* The season number of the row that is an operator's default for the show.
Wide == -1

\* No season: a show whose last dated season is unknown takes the default.
NoSeason == -2

\* catalog.air_date_offset of one show: from season numbers to days.  The
\* check constraint allows -1 and 1 only; no row means no shift.
OffsetTables(seasons) ==
    UNION {[ss -> {-1, 1}] : ss \in SUBSET (seasons \cup {Wide})}

\* OffsetTable.for_season: a numbered row wins over the default.
ForSeason(offsets, season) ==
    IF season \in DOMAIN offsets THEN offsets[season]
    ELSE IF Wide \in DOMAIN offsets THEN offsets[Wide] ELSE 0

Untouched(date) == [air |-> date, raw |-> NoDate]
Shifted(date, days) == [air |-> date + days, raw |-> date]

\* OffsetTable.pair: what every writer stores for one date of TMDB's.
Pair(offsets, date, season) ==
    IF date = NoDate \/ ForSeason(offsets, season) = 0
    THEN Untouched(date)
    ELSE Shifted(date, ForSeason(offsets, season))

\* coalesce(tmdb_air_date, air_date): TMDB's date, corrected or not.
Upstream(row) == IF row.raw # NoDate THEN row.raw ELSE row.air

\* Mutant: the stored date is shifted in place.
ProjectInPlace(offsets, row, season) ==
    IF row.air = NoDate \/ ForSeason(offsets, season) = 0 THEN row
    ELSE Shifted(row.air, ForSeason(offsets, season))

\* _project_column for one row: derive it again from what TMDB said.
Project(offsets, row, season) ==
    IF Upstream(row) = NoDate THEN row
    ELSE IF ForSeason(offsets, season) # 0
    THEN Shifted(Upstream(row), ForSeason(offsets, season))
    ELSE IF row.raw # NoDate THEN Untouched(row.raw) ELSE row

\* season_of_last_dated: the season of the latest date, the higher one of two
\* that tie.  dates[e] is the date of an episode of season[e].
SeasonOfLastDated(dates, season) ==
    LET dated == {e \in DOMAIN dates : dates[e] # NoDate}
        last == {e \in dated : \A f \in dated :
                    \/ dates[f] < dates[e]
                    \/ dates[f] = dates[e] /\ season[f] <= season[e]}
    IN IF dated = {} THEN NoSeason ELSE season[CHOOSE e \in last : TRUE]

-----------------------------------------------------------------------------
(***************************************************************************)
(* The trust rule.  Each side is a set of entries with an id of their own, *)
(* a season, a number and a date; what cannot be keyed by season and       *)
(* number, or is keyed twice, takes no part.                               *)
(***************************************************************************)
Refused == 2    \* the absence of a verdict, which no shift may be
MinEpisodes == 2
MaxOffsetDays == 1

\* _episode_key, and the guards on dates: what can be paired at all.
Keyed(entries) == {x \in entries : x.number >= 0 /\ x.date # NoDate}

\* _unambiguous: the entries whose key no other entry has.
Unambiguous(entries) ==
    {x \in entries : \A y \in entries :
        y.season = x.season /\ y.number = x.number => y = x}

\* The days between the two sides' dates, episode by episode, of one season.
Deltas(ours, theirs, season) ==
    LET same == {p \in ours \X theirs :
            p[1].season = season /\ p[2].season = season /\ p[1].number = p[2].number}
    IN {[number |-> p[1].number, days |-> p[2].date - p[1].date] : p \in same}

\* judge_seasons for one season: a shift of a day at most, on which at least
\* two episodes agree and none differs.
Judge(ours, theirs, season) ==
    LET deltas == Deltas(Unambiguous(Keyed(ours)), Unambiguous(Keyed(theirs)), season)
        distinct == {x.days : x \in deltas}
    IN IF /\ Cardinality(deltas) >= MinEpisodes
          /\ Cardinality(distinct) = 1
          /\ \A d \in distinct : -MaxOffsetDays <= d /\ d <= MaxOffsetDays
       THEN CHOOSE d \in distinct : TRUE
       ELSE Refused

\* replace_season_offsets: a shift is recorded, agreement retracts what is
\* recorded, a refusal leaves it; the operator's default is left alone.
Replaced(offsets, verdicts) ==
    LET kept == {s \in DOMAIN offsets : s \in DOMAIN verdicts => verdicts[s] # 0}
        found == {s \in DOMAIN verdicts : verdicts[s] \notin {0, Refused}}
    IN [s \in kept \cup found |-> IF s \in found THEN verdicts[s] ELSE offsets[s]]

Dates == Int \cup {NoDate}
=============================================================================
