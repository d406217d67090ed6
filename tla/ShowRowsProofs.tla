--------------------------- MODULE ShowRowsProofs ---------------------------
(***************************************************************************)
(* What the stored rows of a show are, whatever is upstream and whoever    *)
(* writes them.                                                            *)
(*                                                                         *)
(* Dates (Airdates).  DatesDerive follows from what every date is stored   *)
(* under, some table of offsets (Written), or the recorded one unless it   *)
(* can be and was crossed (Corrected), the two of them inductive together; *)
(* and no turn argues with the last one, NoFlapping, as the offsets are a  *)
(* fixed point of the last verdicts (Firm).                                *)
(*                                                                         *)
(* Everything else (PayloadUpsert).  OneVintage and EpisodesHome are       *)
(* invariants.  The inductive one is Sound: the rows and the ghost Agree,  *)
(* which beyond OneVintage says what is not stored has no vintage, that    *)
(* TMDB's seasons no block names hold nothing, and that every table keeps  *)
(* its shape (Whole).  The work is Upserted, what a whole payload makes of *)
(* each table, found writer by writer; AloneIs is the same of a show that  *)
(* has nothing; MirrorAgrees, SeriesCreditsAgree, SeasonCreditsAgree and   *)
(* RecommendationsAgree compare the two for each writer.  LocalKept        *)
(* follows from the same lemmas.                                           *)
(***************************************************************************)
EXTENDS Airdates, PayloadUpsert, FiniteSetTheorems, TLAPS

-----------------------------------------------------------------------------
(* What pairing, projecting, judging and recording come to                 *)

LEMMA ForSeasonBounded ==
    ASSUME NEW S, NEW table \in OffsetTables(S), NEW season
    PROVE ForSeason(table, season) \in {-1, 0, 1}
<1>1. PICK ss \in SUBSET (S \cup {Wide}) : table \in [ss -> {-1, 1}]
  BY DEF OffsetTables
<1> QED BY <1>1 DEF ForSeason

\* A stored pair always tells what TMDB said (offsets.pair).
THEOREM PairKeepsUpstream ==
    ASSUME NEW S, NEW table \in OffsetTables(S), NEW date \in Dates, NEW season
    PROVE Upstream(Pair(table, date, season)) = date
<1> DEFINE days == ForSeason(table, season)
<1>1. days \in {-1, 0, 1}
  BY ForSeasonBounded
<1>2. CASE date = NoDate \/ days = 0
  BY <1>2 DEF Pair, Upstream, Untouched
<1>3. CASE date # NoDate /\ days # 0
  BY <1>1, <1>3, NoDateAssumption DEF Pair, Upstream, Shifted, Dates
<1> QED BY <1>2, <1>3

\* Projecting forgets every offset a pair was ever written with: it gives what
\* writing TMDB's date under the present table gives, so it may be repeated,
\* and the writers' order does not matter (offsets._project_column).
THEOREM ProjectIsPair ==
    ASSUME NEW S, NEW old \in OffsetTables(S), NEW table \in OffsetTables(S),
           NEW date \in Dates, NEW before, NEW season
    PROVE Project(table, Pair(old, date, before), season) = Pair(table, date, season)
<1> DEFINE row == Pair(old, date, before)
           days == ForSeason(table, season)
           was == ForSeason(old, before)
<1>1. days \in {-1, 0, 1} /\ was \in {-1, 0, 1}
  BY ForSeasonBounded
<1>2. Upstream(row) = date
  BY PairKeepsUpstream
<1>3. CASE date = NoDate
  <2>1. row = Untouched(NoDate) /\ Pair(table, date, season) = Untouched(NoDate)
    BY <1>3 DEF Pair
  <2> QED BY <2>1, <1>2, <1>3 DEF Project
<1>4. CASE date # NoDate /\ days # 0
  BY <1>2, <1>4 DEF Project, Pair
<1>5. CASE date # NoDate /\ days = 0
  <2>1. Pair(table, date, season) = Untouched(date)
    BY <1>5 DEF Pair
  <2>2. CASE was = 0
    <3>1. row = Untouched(date)
      BY <2>2 DEF Pair
    <3> QED BY <3>1, <2>1, <1>2, <1>5 DEF Project, Untouched
  <2>3. CASE was # 0
    <3>1. row = Shifted(date, was)
      BY <2>3, <1>5 DEF Pair
    <3>2. row.raw = date
      BY <3>1 DEF Shifted
    <3>3. Project(table, row, season) = Untouched(row.raw)
      BY <3>2, <1>2, <1>5 DEF Project
    <3> QED BY <3>2, <3>3, <2>1
  <2> QED BY <2>2, <2>3
<1> QED BY <1>3, <1>4, <1>5

\* A verdict is a shift of at most a day or none at all (judge_seasons' clamp).
THEOREM JudgeBounded ==
    ASSUME NEW ours, NEW theirs, NEW season,
           \A x \in ours \cup theirs : x.date \in Dates
    PROVE Judge(ours, theirs, season) \in {-1, 0, 1, Refused}
<1> DEFINE deltas == Deltas(Unambiguous(Keyed(ours)), Unambiguous(Keyed(theirs)), season)
           distinct == {x.days : x \in deltas}
           agreed == /\ Cardinality(deltas) >= MinEpisodes
                     /\ Cardinality(distinct) = 1
                     /\ \A d \in distinct : -MaxOffsetDays <= d /\ d <= MaxOffsetDays
<1>1. CASE ~agreed
  BY <1>1 DEF Judge
<1>2. CASE agreed
  <2>1. distinct # {}
    BY <1>2, FS_EmptySet
  <2>2. PICK d \in distinct : d = Judge(ours, theirs, season)
    BY <1>2, <2>1 DEF Judge
  <2>3. d \in Int
    <3>1. \A x \in Keyed(ours) \cup Keyed(theirs) : x.date \in Int
      BY DEF Keyed, Dates
    <3>2. \A x \in Unambiguous(Keyed(ours)) \cup Unambiguous(Keyed(theirs)) : x.date \in Int
      BY <3>1 DEF Unambiguous
    <3>3. \A x \in deltas : x.days \in Int
      BY <3>2 DEF Deltas
    <3> QED BY <3>3, <2>2
  <2>4. -1 <= d /\ d <= 1
    BY <1>2, <2>2 DEF MaxOffsetDays
  <2> QED BY <2>2, <2>3, <2>4
<1> QED BY <1>1, <1>2

\* Recording verdicts keeps the table one, and leaves alone the operator's
\* default and every season that the pass refused (replace_season_offsets).
THEOREM ReplacedKeepsRefused ==
    ASSUME NEW S \in SUBSET Nat, NEW table \in OffsetTables(S),
           NEW verdicts \in [S -> {-1, 0, 1, Refused}]
    PROVE /\ Replaced(table, verdicts) \in OffsetTables(S)
          /\ \A s \in {Wide} \cup {t \in S : verdicts[t] = Refused} :
                /\ s \in DOMAIN Replaced(table, verdicts) <=> s \in DOMAIN table
                /\ s \in DOMAIN table => Replaced(table, verdicts)[s] = table[s]
<1> DEFINE kept == {s \in DOMAIN table : s \in DOMAIN verdicts => verdicts[s] # 0}
           found == {s \in DOMAIN verdicts : verdicts[s] \notin {0, Refused}}
           new == Replaced(table, verdicts)
<1>1. PICK ss \in SUBSET (S \cup {Wide}) : table \in [ss -> {-1, 1}]
  BY DEF OffsetTables
<1>2. DOMAIN verdicts = S /\ DOMAIN table = ss
  BY <1>1
<1>3. new = [s \in kept \cup found |-> IF s \in found THEN verdicts[s] ELSE table[s]]
  BY DEF Replaced
<1>4. kept \cup found \in SUBSET (S \cup {Wide})
  BY <1>1, <1>2
<1>5. new \in [kept \cup found -> {-1, 1}]
  BY <1>1, <1>2, <1>3
<1>6. new \in OffsetTables(S)
  BY <1>4, <1>5 DEF OffsetTables
<1>7. ASSUME NEW s \in {Wide} \cup {t \in S : verdicts[t] = Refused}
      PROVE /\ s \in DOMAIN new <=> s \in DOMAIN table
            /\ s \in DOMAIN table => new[s] = table[s]
  <2>1. s \notin found
    BY <1>2 DEF Wide, Refused
  <2>2. s \in DOMAIN table => s \in kept
    BY <1>2 DEF Wide, Refused
  <2> QED BY <2>1, <2>2, <1>3
<1> QED BY <1>6, <1>7

-----------------------------------------------------------------------------
(* What the state is                                                       *)

Tables == OffsetTables(Seasons)

\* Each date was stored under some table, of the dates that were last mirrored.
Written ==
    \A d \in Dated : \E old \in Tables, last \in LastSeasons :
        rows[d] = Pair(old, Uncorrected(mirrored)[d], SeasonFor(d, last))

\* Of the dates that an upsert may have crossed, nothing; the others, authored
\* ones always, have the recorded offsets on them.
Corrected == \A d \in Dated : Derived(offsets, d) \/ (crossed /\ d \notin Authored)
Inv == TypeOK /\ Written /\ Corrected

LEMMA UncorrectedTyped ==
    ASSUME NEW dates \in [Given -> Dates]
    PROVE  Uncorrected(dates) \in [Dated -> Dates]
<1>1. \A d \in Dated \ Authored : d \in Given
  BY DEF Dated, Given
<1>2. AuthoredDate \in [Authored -> Dates]
  BY AirdatesAssumption DEF Dates
<1> QED BY <1>1, <1>2 DEF Uncorrected

\* Only the show's last date asks for the season of the last dated episode.
LEMMA SeasonFixed ==
    ASSUME NEW d \in Authored, NEW one, NEW other
    PROVE  SeasonFor(d, one) = SeasonFor(d, other)
<1>1. d # Premiere /\ d # LastAired
  BY AirdatesAssumption DEF Given, PayloadDates
<1> QED BY <1>1 DEF SeasonFor

LEMMA RawOfPaired ==
    ASSUME NEW stored, NEW lasts, NEW dates \in [Dated -> Dates],
           \A d \in Dated : \E old \in Tables, last \in lasts :
               stored[d] = Pair(old, dates[d], SeasonFor(d, last))
    PROVE Raw(stored) = dates
<1>1. \A d \in Dated : Upstream(stored[d]) = dates[d]
  <2> TAKE d \in Dated
  <2>1. PICK old \in Tables, last \in lasts :
          stored[d] = Pair(old, dates[d], SeasonFor(d, last))
    OBVIOUS
  <2> QED BY <2>1, PairKeepsUpstream DEF Tables
<1> QED BY <1>1 DEF Raw

LEMMA ProjectedIsPaired ==
    ASSUME NEW stored, NEW lasts, NEW table \in Tables, NEW dates \in [Dated -> Dates],
           \A d \in Dated : \E old \in Tables, last \in lasts :
               stored[d] = Pair(old, dates[d], SeasonFor(d, last))
    PROVE Projected(table, stored) = Paired(table, dates, LastStored(dates))
<1>1. Raw(stored) = dates
  BY RawOfPaired
<1> DEFINE last == LastStored(dates)
<1> HIDE DEF last
<1>2. \A d \in Dated : Project(table, stored[d], SeasonFor(d, last)) = Pair(table, dates[d], SeasonFor(d, last))
  <2> TAKE d \in Dated
  <2>1. PICK old \in Tables, before \in lasts :
          stored[d] = Pair(old, dates[d], SeasonFor(d, before))
    OBVIOUS
  <2> QED BY <2>1, ProjectIsPair DEF Tables
<1>3. Projected(table, stored) = [d \in Dated |-> Project(table, stored[d], SeasonFor(d, last))]
  BY <1>1 DEF Projected, last
<1> QED BY <1>2, <1>3 DEF Paired, last

LEMMA WrittenGives ==
    ASSUME TypeOK, Written
    PROVE  /\ Uncorrected(mirrored) \in [Dated -> Dates]
           /\ Raw(rows) = Uncorrected(mirrored)
           /\ \A table \in Tables :
                Projected(table, rows)
                  = Paired(table, Uncorrected(mirrored), LastStored(Uncorrected(mirrored)))
<1>1. Uncorrected(mirrored) \in [Dated -> Dates]
  BY UncorrectedTyped DEF TypeOK
<1>2. Raw(rows) = Uncorrected(mirrored)
  BY <1>1, RawOfPaired DEF Written
<1> QED BY <1>1, <1>2, ProjectedIsPaired DEF Written

\* What writes neither dates nor offsets leaves both as they are.
LEMMA RowsStand ==
    ASSUME Written, Corrected, UNCHANGED <<rows, mirrored, offsets, crossed>>
    PROVE  Written' /\ Corrected'
<1>1. Uncorrected(mirrored)' = Uncorrected(mirrored)
  BY DEF Uncorrected
<1>2. LastSeasons' = LastSeasons
  BY <1>1 DEF LastSeasons, LastGiven, LastStored, Uncorrected
<1>3. \A d \in Dated : Derived(offsets, d)' = Derived(offsets, d)
  BY <1>1, <1>2 DEF Derived, SeasonFor, Uncorrected
<1>4. Written'
  BY <1>1, <1>2 DEF Written, SeasonFor, Uncorrected
<1> QED BY <1>3, <1>4 DEF Corrected

LEMMA VerdictsTyped ==
    ASSUME NEW dates \in [Dated -> Dates], NEW answer \in Answers
    PROVE Verdicts(dates, answer) \in [Seasons -> {-1, 0, 1, Refused}]
<1>1. \A x \in Entries(dates) \cup Entries(answer) : x.date \in Dates
  BY DEF Entries, Answers, Dated, PayloadDates, OurEpisodes
<1> HIDE DEF Dates
<1>2. ASSUME NEW s \in Seasons
      PROVE Judge(Entries(dates), Entries(answer), s) \in {-1, 0, 1, Refused}
  BY <1>1, JudgeBounded
<1> QED BY <1>2 DEF Verdicts

LEMMA SeasonsAreNat == Seasons \in SUBSET Nat
BY AirdatesAssumption DEF Seasons

LEMMA InitInv == Init => Inv
<1> SUFFICES ASSUME Init PROVE Inv
  OBVIOUS
<1> USE AirdatesAssumption DEF Init
<1> DEFINE dates == Uncorrected(mirrored)
<1>1. TypeOK
  BY DEF TypeOK, TurnOK, UpsertOK, Idle, NoLink, Dates, Dated
<1>2. \A d \in Dated : rows[d] = Pair(offsets, dates[d], SeasonFor(d, LastStored(dates)))
  BY DEF Paired
<1>3. LastStored(dates) \in LastSeasons /\ offsets \in Tables
  BY <1>1 DEF LastSeasons, TypeOK, Tables
<1> QED BY <1>1, <1>2, <1>3 DEF Inv, Written, Corrected, Derived

LEMMA NextInv == Inv /\ [Next]_vars => Inv'
<1> SUFFICES ASSUME Inv, [Next]_vars PROVE Inv'
  OBVIOUS
<1> USE DEF Inv
<1>0. ASSUME TypeOK', UNCHANGED <<rows, mirrored, offsets, crossed>>
      PROVE  Inv'
  BY <1>0, RowsStand
<1>1. CASE StartUpsert
  BY <1>1, <1>0 DEF StartUpsert, world, TypeOK, TurnOK, UpsertOK, Idle
<1>2. CASE CommitUpsert
  <2> DEFINE table == upsert.offsets
             dates == upsert.dates
             new == Uncorrected(mirrored')
  <2>1. TypeOK'
    BY <1>2 DEF CommitUpsert, TypeOK, UpsertOK, TurnOK, Idle
  <2>2. /\ table \in Tables /\ mirrored' = dates
        /\ rows' = Overwritten(table, dates, rows)
        /\ crossed' = (table # offsets) /\ offsets' = offsets
    BY <1>2 DEF CommitUpsert, TypeOK, UpsertOK, Tables
  <2>3. /\ LastSeasons' = {LastGiven(mirrored'), LastStored(new)}
        /\ Written' = (\A d \in Dated : \E old \in Tables, last \in LastSeasons' :
                          rows'[d] = Pair(old, new[d], SeasonFor(d, last)))
        /\ Corrected' = (\A d \in Dated :
                            \/ \E last \in LastSeasons' :
                                 rows'[d] = Pair(offsets', new[d], SeasonFor(d, last))
                            \/ (crossed' /\ d \notin Authored))
    BY DEF Written, Corrected, Derived, LastSeasons, LastGiven, LastStored, Uncorrected,
           SeasonFor
  <2>4. ASSUME NEW d \in Dated \ Authored
        PROVE  rows'[d] = Pair(table, new[d], SeasonFor(d, LastGiven(mirrored')))
    BY <2>2, <2>4 DEF Overwritten, Uncorrected
  <2>5. ASSUME NEW d \in Authored
        PROVE  rows'[d] = Pair(offsets', new[d], SeasonFor(d, LastGiven(mirrored')))
    <3>1. d \in Dated
      BY DEF Dated
    <3>2. PICK last \in LastSeasons :
            rows[d] = Pair(offsets, Uncorrected(mirrored)[d], SeasonFor(d, last))
      BY <3>1 DEF Corrected, Derived
    <3>3. Uncorrected(mirrored)[d] = AuthoredDate[d] /\ new[d] = AuthoredDate[d]
      BY <3>1 DEF Uncorrected
    <3>4. rows'[d] = rows[d]
      BY <2>2, <3>1 DEF Overwritten
    <3> QED BY <2>2, <3>2, <3>3, <3>4, SeasonFixed
  <2>6. LastGiven(mirrored') \in LastSeasons' /\ offsets' \in Tables
    BY <2>2, <2>3 DEF TypeOK, Tables
  <2> HIDE DEF table, dates, new
  <2>7. Written'
    BY <2>2, <2>3, <2>4, <2>5, <2>6
  <2>8. Corrected'
    BY <2>2, <2>3, <2>4, <2>5, <2>6
  <2> QED BY <2>1, <2>7, <2>8
<1>3. CASE FailUpsert
  BY <1>3, <1>0 DEF FailUpsert, world, TypeOK, TurnOK, UpsertOK, Idle
<1>4. CASE BeginPass
  BY <1>4, <1>0 DEF BeginPass, world, TypeOK, TurnOK, UpsertOK, Idle
<1>5. CASE LoadLink
  BY <1>5, <1>0 DEF LoadLink, world, Stored, TypeOK, TurnOK, UpsertOK, Conclude
<1>6. CASE LookupShow
  BY <1>6, <1>0, AirdatesAssumption
  DEF LookupShow, world, Stored, TypeOK, TurnOK, UpsertOK, Conclude
<1>7. CASE GetShowEpisodes
  <2>1. TurnOK'
    BY <1>7, AirdatesAssumption DEF GetShowEpisodes, TypeOK, TurnOK, Conclude, Answers, Dates
  <2> QED BY <1>7, <1>0, <2>1 DEF GetShowEpisodes, world, Stored, TypeOK, UpsertOK
<1>8. CASE JudgeSeasons
  <2>1. Raw(rows) \in [Dated -> Dates]
    BY WrittenGives
  <2>2. Verdicts(Raw(rows), turn.answer) \in [Seasons -> {-1, 0, 1, Refused}]
    BY <1>8, <2>1, VerdictsTyped DEF JudgeSeasons, TypeOK, TurnOK
  <2>3. TurnOK'
    BY <1>8, <2>2 DEF JudgeSeasons, TypeOK, TurnOK
  <2> QED BY <1>8, <1>0, <2>3 DEF JudgeSeasons, world, Stored, TypeOK, UpsertOK
<1>9. CASE CommitTurn
  <2>1. TurnOK' /\ UpsertOK' /\ link'.id \in Ids \cup {None}
    BY <1>9 DEF CommitTurn, TypeOK, TurnOK, UpsertOK, Idle
  <2>2. CASE turn.dates = <<>>
    <3>1. UNCHANGED <<rows, offsets, mirrored, crossed, world>>
      BY <1>9, <2>2 DEF CommitTurn
    <3> QED BY <2>1, <3>1, <1>0 DEF world, TypeOK
  <2>3. CASE turn.dates # <<>>
    <3> DEFINE dates == Uncorrected(mirrored)
               last == LastStored(dates)
    <3>1. /\ offsets' = Replaced(offsets, turn.verdicts)
          /\ rows' = Projected(offsets', rows)
          /\ mirrored' = mirrored /\ UNCHANGED world
      BY <1>9, <2>3 DEF CommitTurn
    <3>2. turn.verdicts \in [Seasons -> {-1, 0, 1, Refused}]
      BY <1>9, <2>3 DEF CommitTurn, TypeOK, TurnOK
    <3>3. offsets' \in Tables
      BY <3>1, <3>2, ReplacedKeepsRefused, SeasonsAreNat DEF TypeOK, Tables
    <3>4. \A d \in Dated : rows'[d] = Pair(offsets', dates[d], SeasonFor(d, last))
      BY <3>1, <3>3, WrittenGives DEF Paired
    <3>5. /\ last \in LastSeasons
          /\ Written' = (\A d \in Dated : \E old \in Tables, x \in LastSeasons :
                            rows'[d] = Pair(old, dates[d], SeasonFor(d, x)))
          /\ Corrected' = (\A d \in Dated :
                              \/ \E x \in LastSeasons :
                                   rows'[d] = Pair(offsets', dates[d], SeasonFor(d, x))
                              \/ (crossed' /\ d \notin Authored))
      BY <3>1 DEF Written, Corrected, Derived, LastSeasons, LastGiven, LastStored,
                  Uncorrected, SeasonFor
    <3> HIDE DEF dates, last
    <3>6. Written' /\ Corrected'
      BY <3>3, <3>4, <3>5
    <3> QED BY <2>1, <3>1, <3>3, <3>6 DEF world, TypeOK, Tables
  <2> QED BY <2>2, <2>3
<1>10. CASE FailTurn
  BY <1>10, <1>0 DEF FailTurn, world, TypeOK, TurnOK, UpsertOK, Idle
<1>11. CASE Tick
  BY <1>11, <1>0 DEF Tick, world, TypeOK, TurnOK, UpsertOK
<1>12. CASE Change
  <2>1. tmdb' \in [Given -> Dates] /\ oracle' \in Oracles
    BY <1>12, AirdatesAssumption DEF Change, TypeOK, Dates
  <2> QED BY <1>12, <1>0, <2>1 DEF Change, TypeOK, TurnOK, UpsertOK
<1>13. CASE UNCHANGED vars
  BY <1>13, <1>0 DEF vars, TypeOK, TurnOK, UpsertOK
<1> QED
  BY <1>1, <1>2, <1>3, <1>4, <1>5, <1>6, <1>7, <1>8, <1>9, <1>10, <1>11, <1>12, <1>13
  DEF Next, Turn

LEMMA InvGivesDates == Inv => DatesDerive
BY WrittenGives DEF Inv, Corrected, DatesDerive

\* Every variable keeps its type, verdicts included.
THEOREM AirdatesTypeCorrect == Spec => []TypeOK
<1>1. Inv => TypeOK
  BY DEF Inv
<1> QED BY <1>1, InitInv, NextInv, PTL DEF Spec

\* However upserts and turns of the pass interleave, TMDB's dates are told by
\* what is stored, and only an upsert that read offsets since replaced leaves
\* dates that the recorded offsets do not give.
THEOREM DatesAlwaysDerive == Spec => []DatesDerive
BY InitInv, NextInv, InvGivesDates, PTL DEF Spec

-----------------------------------------------------------------------------
(* What a correction rests on                                              *)

\* The verdicts of the dates of both sides, as a turn has them in hand.
Judgement(sides) ==
    [s \in Seasons |-> Judge(Entries(sides[1]), Entries(sides[2]), s)]

\* A turn commits the verdicts of the dates it names, and the offsets are what
\* the last ones named leave of themselves.
Firm ==
    /\ turn.at = "commit" /\ turn.dates # <<>> => turn.verdicts = Judgement(turn.dates)
    /\ judged # <<>> => Replaced(offsets, Judgement(judged)) = offsets

\* Applied twice, verdicts do no more than once.
LEMMA ReplacedTwice ==
    ASSUME NEW table, NEW verdicts
    PROVE  Replaced(Replaced(table, verdicts), verdicts) = Replaced(table, verdicts)
<1> DEFINE kept == {s \in DOMAIN table : s \in DOMAIN verdicts => verdicts[s] # 0}
           found == {s \in DOMAIN verdicts : verdicts[s] \notin {0, Refused}}
           new == Replaced(table, verdicts)
           stay == {s \in DOMAIN new : s \in DOMAIN verdicts => verdicts[s] # 0}
<1>1. new = [s \in kept \cup found |-> IF s \in found THEN verdicts[s] ELSE table[s]]
  BY DEF Replaced
<1>2. DOMAIN new = kept \cup found /\ stay = kept \cup found
  BY <1>1
<1>3. Replaced(new, verdicts)
        = [s \in stay \cup found |-> IF s \in found THEN verdicts[s] ELSE new[s]]
  BY DEF Replaced
<1> QED
  BY <1>1, <1>2, <1>3

\* What the turn judges is what it names, of TMDB's dates and not of ours.
LEMMA JudgesWhatItNames ==
    ASSUME JudgeSeasons
    PROVE  turn'.verdicts = Judgement(turn'.dates)
<1> DEFINE ours == [e \in OurEpisodes |-> Raw(rows)[e]]
<1>1. /\ turn'.dates = <<ours, turn.answer>>
      /\ turn'.verdicts = Verdicts(Raw(rows), turn.answer)
  BY DEF JudgeSeasons
<1>2. Entries(ours) = Entries(Raw(rows))
  BY DEF Entries
<1> HIDE DEF ours
<1>3. turn'.dates[1] = ours /\ turn'.dates[2] = turn.answer
  BY <1>1
<1> QED
  BY <1>1, <1>2, <1>3 DEF Judgement, Verdicts

LEMMA FirmInit == Init => Firm
BY DEF Init, Firm, Idle

LEMMA FirmNext ==
    ASSUME Firm, [Next]_vars
    PROVE  Firm'
<1>1. CASE CommitTurn
  <2>1. CASE turn.dates = <<>>
    BY <1>1, <2>1 DEF CommitTurn, Firm, Idle
  <2>2. CASE turn.dates # <<>>
    <3>1. turn.verdicts = Judgement(turn.dates)
      BY <1>1, <2>2 DEF CommitTurn, Firm
    <3>2. /\ offsets' = Replaced(offsets, Judgement(turn.dates)) /\ judged' = turn.dates
          /\ turn' = Idle
      BY <1>1, <2>2, <3>1 DEF CommitTurn
    <3>3. Replaced(offsets', Judgement(judged')) = offsets'
      BY <3>2, ReplacedTwice
    <3> QED
      BY <3>2, <3>3 DEF Firm, Idle
  <2> QED
    BY <2>1, <2>2
<1>2. CASE JudgeSeasons
  <2>1. UNCHANGED <<offsets, judged>>
    BY <1>2 DEF JudgeSeasons, Stored
  <2> QED
    BY <1>2, <2>1, JudgesWhatItNames DEF Firm
<1>3. CASE LoadLink \/ LookupShow \/ GetShowEpisodes
  BY <1>3 DEF Firm, LoadLink, LookupShow, GetShowEpisodes, Conclude, Stored
<1>4. CASE BeginPass \/ FailTurn
  BY <1>4 DEF Firm, BeginPass, FailTurn, Idle
<1>5. CASE StartUpsert \/ CommitUpsert \/ FailUpsert \/ Tick \/ Change \/ UNCHANGED vars
  BY <1>5 DEF Firm, StartUpsert, CommitUpsert, FailUpsert, Tick, Change, vars
<1> QED
  BY <1>1, <1>2, <1>3, <1>4, <1>5 DEF Next, Turn

LEMMA OffsetsFirm ==
    ASSUME Firm, [Next]_vars, judged # <<>>, judged' = judged
    PROVE  offsets' = offsets
<1>1. CASE CommitTurn
  <2>1. CASE turn.dates = <<>>
    BY <1>1, <2>1 DEF CommitTurn
  <2>2. CASE turn.dates # <<>>
    BY <1>1, <2>2 DEF CommitTurn, Firm
  <2> QED
    BY <2>1, <2>2
<1>2. CASE Turn /\ ~CommitTurn
  BY <1>2 DEF Turn, LoadLink, LookupShow, GetShowEpisodes, JudgeSeasons, Stored
<1>3. CASE BeginPass \/ FailTurn \/ Tick \/ Change \/ UNCHANGED vars
  BY <1>3 DEF BeginPass, FailTurn, Tick, Change, vars
<1>4. CASE StartUpsert \/ CommitUpsert \/ FailUpsert
  BY <1>4 DEF StartUpsert, CommitUpsert, FailUpsert
<1> QED
  BY <1>1, <1>2, <1>3, <1>4 DEF Next

\* A turn that finds both sides' dates as the last verdict found them writes no
\* other offsets, whatever corrections, upserts and failures there were since: a
\* correction is never evidence against itself (reconcile._our_episodes).
THEOREM NeverFlaps == Spec => NoFlapping
<1>1. Firm /\ [Next]_vars => [judged # <<>> /\ judged' = judged => offsets' = offsets]_vars
  BY OffsetsFirm
<1> QED
  BY <1>1, FirmInit, FirmNext, PTL DEF Spec, NoFlapping

-----------------------------------------------------------------------------
(* What the writers of a payload touch                                     *)

\* Of the rows of a show, only those of the tables named change.
Touches(s, t, tables) ==
    /\ DOMAIN t = StoreFields
    /\ \A f \in StoreFields \ tables : t[f] = s[f]

SeasonColumns == {"id", "number", "networks", "regulars"}
EpisodeColumns == {"season", "number", "runtime", "screened", "guests", "crew"}

\* The tables that are keyed, as the writers rely on them.
CreatorsWhole(creators) == DOMAIN creators \subseteq Nat /\ IsFiniteSet(DOMAIN creators)
SeasonsWhole(seasons) ==
    /\ DOMAIN seasons \subseteq SeasonKeys /\ IsFiniteSet(DOMAIN seasons)
    /\ \A k \in DOMAIN seasons : DOMAIN seasons[k] = SeasonColumns /\ seasons[k].id \in Nat
EpisodesWhole(episodes) ==
    /\ DOMAIN episodes \subseteq EpisodeIds \cup LegacyEpisodes
    /\ \A e \in DOMAIN episodes : episodes[e] = [c \in EpisodeColumns |-> episodes[e][c]]
Housed(episodes, seasons) ==
    \A e \in DOMAIN episodes : episodes[e].season \in DOMAIN seasons \cup {Null}
Whole(s) ==
    /\ DOMAIN s = StoreFields
    /\ CreatorsWhole(s.creators) /\ SeasonsWhole(s.seasons)
    /\ EpisodesWhole(s.episodes) /\ Housed(s.episodes, s.seasons)

\* What every fetched payload is.
PayloadOK(p) ==
    /\ DOMAIN p = {"series", "details", "episodes"}
    /\ {"body", "joins", "seasons", "creators", "spaces", "cast", "crew", "recommendations",
        "screened"} \subseteq DOMAIN p.series
    /\ DOMAIN p.episodes \subseteq EpisodeIds
    /\ p.series.seasons \in Seq(SeasonSummary)
    /\ p.series.creators \in Seq(CreatedBy)
    /\ \A n \in Namespaces : p.series.spaces[n] \in OrAbsent(Seq(Entry))
    /\ (p.series.cast = Absent) = (p.series.crew = Absent)

LEMMA DetailsMerge ==
    ASSUME NEW blocks, NEW a, NEW b,
           \A n \in DOMAIN a : n \in DOMAIN blocks /\ a[n].episodes = blocks[n].episodes,
           \A n \in DOMAIN b : n \in DOMAIN blocks /\ b[n].episodes = blocks[n].episodes
    PROVE  \A n \in DOMAIN MergedDetails(a, b) :
               n \in DOMAIN blocks /\ MergedDetails(a, b)[n].episodes = blocks[n].episodes
BY DEF MergedDetails

LEMMA FetchedOK ==
    ASSUME NEW v \in Versions, NEW w \in {"mirror", "credits", "regulars"}
    PROVE PayloadOK(Payload[w][v])
<1> DEFINE u == Content[v]
           asked == IF w = "regulars" THEN {} ELSE DefaultAppend
           p == Payload[w][v]
<1>1. p = FetchSeriesWithSeasons(u, asked)
  BY DEF Payload, Writers
<1>2. SeriesFields(u)
  BY PayloadUpsertAssumption
<1> DEFINE series == Narrowed(u, asked)
<1>3. DOMAIN series = DOMAIN u
  BY DEF Narrowed
<1>4. /\ series.seasons = u.seasons /\ series.creators = u.creators
      /\ \A n \in Namespaces : series.spaces[n] \in {u.spaces[n], Absent}
      /\ (series.cast = Absent) = (series.crew = Absent)
  BY <1>2 DEF Narrowed, SeriesFields
<1>5. p.series = series
  BY <1>1 DEF FetchSeriesWithSeasons
<1> DEFINE appended == Collected(u, SpeculativeSeasons(Cardinality(asked)))
           missing == {u.seasons[i].number : i \in DOMAIN u.seasons} \ DOMAIN appended
           details == MergedDetails(appended, Collected(u, missing))
<1>6. p.episodes = DedupeEpisodes(details)
  BY <1>1 DEF FetchSeriesWithSeasons
<1>7. \A numbers, n : n \in DOMAIN Collected(u, numbers) =>
          /\ n \in DOMAIN u.blocks
          /\ Collected(u, numbers)[n].episodes = u.blocks[n].episodes
  BY <1>2 DEF Collected, SeriesFields, SeasonDetail
<1>8. \A n \in DOMAIN details : details[n].episodes \in Seq(EpisodeEntry)
  <2> DEFINE rest == Collected(u, missing)
  <2>1. \A n \in DOMAIN appended : n \in DOMAIN u.blocks /\ appended[n].episodes = u.blocks[n].episodes
    BY <1>7
  <2>2. \A n \in DOMAIN rest : n \in DOMAIN u.blocks /\ rest[n].episodes = u.blocks[n].episodes
    BY <1>7
  <2> HIDE DEF appended, rest
  <2>3. \A n \in DOMAIN details : n \in DOMAIN u.blocks /\ details[n].episodes = u.blocks[n].episodes
    BY <2>1, <2>2, DetailsMerge DEF rest
  <2> HIDE DEF details
  <2> QED BY <2>3, <1>2 DEF SeriesFields, SeasonDetail
<1>9. DOMAIN p.episodes \subseteq EpisodeIds
  <2> DEFINE spots == UNION {{<<n, i>> : i \in DOMAIN details[n].episodes} : n \in DOMAIN details}
  <2>1. \A s \in spots : /\ s[1] \in DOMAIN details
                         /\ s[2] \in DOMAIN details[s[1]].episodes
    OBVIOUS
  <2>2. \A s \in spots : details[s[1]].episodes[s[2]].id \in EpisodeIds
    <3> SUFFICES ASSUME NEW s \in spots PROVE details[s[1]].episodes[s[2]].id \in EpisodeIds
      OBVIOUS
    <3> HIDE DEF details, spots
    <3>1. details[s[1]].episodes[s[2]] \in EpisodeEntry
      BY <2>1, <1>8
    <3> QED BY <3>1 DEF EpisodeEntry
  <2>3. DOMAIN p.episodes = {details[s[1]].episodes[s[2]].id : s \in spots}
    <3> HIDE DEF details, p
    <3> QED BY <1>6 DEF DedupeEpisodes
  <2> HIDE DEF spots, details, p
  <2> QED BY <2>2, <2>3
<1>10. p.series.seasons \in Seq(SeasonSummary) /\ p.series.creators \in Seq(CreatedBy)
  BY <1>2, <1>4, <1>5 DEF SeriesFields
<1>11. \A n \in Namespaces : p.series.spaces[n] \in OrAbsent(Seq(Entry))
  <2>1. u.spaces \in [Namespaces -> OrAbsent(Seq(Entry))]
    BY <1>2 DEF SeriesFields
  <2> QED BY <2>1, <1>4, <1>5 DEF OrAbsent
<1>12. DOMAIN p = {"series", "details", "episodes"}
  BY <1>1 DEF FetchSeriesWithSeasons
<1>13. {"body", "joins", "seasons", "creators", "spaces", "cast", "crew", "recommendations",
        "screened"} \subseteq DOMAIN p.series
  BY <1>2, <1>5, <1>3 DEF SeriesFields
<1> HIDE DEF p, u, asked
<1> QED BY <1>4, <1>5, <1>9, <1>10, <1>11, <1>12, <1>13 DEF PayloadOK, p

LEMMA ShowRowsTouch ==
    ASSUME NEW s, DOMAIN s = StoreFields, NEW p, NEW on
    PROVE  LET t == ShowRowsWritten(s, p, on)
           IN /\ DOMAIN t = StoreFields
              /\ t.seasons = s.seasons /\ t.episodes = s.episodes
              /\ t.body = p.series.body /\ t.joins = p.series.joins
              /\ t.creators = CreatorsWritten(s, p).creators
              /\ t.spaces = SpacesWritten(s, p).spaces
              /\ t.cast = CreditsWritten(s, p).cast /\ t.crew = CreditsWritten(s, p).crew
              /\ t.recommendations = RecommendationsWritten(s, p, on).recommendations
<1> DEFINE a == ShowWritten(s, p)
           b == CountriesWritten(a, p)
           c == JoinsWritten(b, p)
           d == CreatorsWritten(c, p)
           e == SpacesWritten(d, p)
           f == CreditsWritten(e, p)
           g == RecommendationsWritten(f, p, on)
<1>1. Touches(s, a, {"body"}) /\ a.body = p.series.body
  BY DEF ShowWritten, Touches, StoreFields
<1>2. Touches(a, b, {"countries"})
  BY <1>1 DEF CountriesWritten, Touches, StoreFields
<1>3. Touches(b, c, {"joins"}) /\ c.joins = p.series.joins
  BY <1>2 DEF JoinsWritten, Touches, StoreFields
<1>4. Touches(c, d, {"creators"}) /\ d.creators = CreatorsWritten(s, p).creators
  BY <1>1, <1>2, <1>3 DEF CreatorsWritten, Touches, StoreFields
<1>5. Touches(d, e, {"spaces"}) /\ e.spaces = SpacesWritten(s, p).spaces
  BY <1>1, <1>2, <1>3, <1>4 DEF SpacesWritten, Touches, StoreFields
<1>6. /\ Touches(e, f, {"cast", "crew", "people", "characters", "roles"})
      /\ f.cast = CreditsWritten(s, p).cast /\ f.crew = CreditsWritten(s, p).crew
  BY <1>1, <1>2, <1>3, <1>4, <1>5 DEF CreditsWritten, WithCredits, Touches, StoreFields
<1>7. /\ Touches(f, g, {"recommendations"})
      /\ g.recommendations = RecommendationsWritten(s, p, on).recommendations
  BY <1>1, <1>2, <1>3, <1>4, <1>5, <1>6 DEF RecommendationsWritten, Touches, StoreFields
<1>8. g = ShowRowsWritten(s, p, on)
  BY DEF ShowRowsWritten
<1> HIDE DEF a, b, c, d, e, f, g
<1> QED BY <1>1, <1>2, <1>3, <1>4, <1>5, <1>6, <1>7, <1>8 DEF Touches, StoreFields

-----------------------------------------------------------------------------
(* The order of what is made                                               *)

\* Of finitely many things one is the largest: the fewest are above it.
LEMMA HasLargest ==
    ASSUME NEW S, IsFiniteSet(S), S # {}, NEW f, \A x \in S : f[x] \in Int
    PROVE  \E x \in S : \A y \in S : f[y] <= f[x]
<1> DEFINE R == StrictSubsetOrdering(S)
           Above(x) == {y \in S : f[y] > f[x]}
           aboves == {Above(x) : x \in S}
<1>1. IsWellFoundedOn(R, FiniteSubsetsOf(S))
  BY FS_StrictSubsetOrderingWellFounded
<1>2. aboves \subseteq FiniteSubsetsOf(S) /\ aboves # {}
  <2>1. \A x \in S : Above(x) \in SUBSET S
    OBVIOUS
  <2>2. \A x \in S : IsFiniteSet(Above(x))
    BY <2>1, FS_Subset
  <2> QED BY <2>1, <2>2 DEF FiniteSubsetsOf
<1>3. PICK x \in S : \A y \in S : ~(<<Above(y), Above(x)>> \in R)
  <2> HIDE DEF R
  <2>1. PICK a \in aboves : \A b \in aboves : ~(<<b, a>> \in R)
    <3> HIDE DEF aboves
    <3> QED BY <1>1, <1>2, WFMin
  <2> QED BY <2>1
<1>4. ASSUME NEW y \in S PROVE f[y] <= f[x]
  <2>1. SUFFICES ASSUME f[y] > f[x] PROVE FALSE
    OBVIOUS
  <2>2. Above(y) \subseteq Above(x)
    BY <2>1
  <2>3. y \in Above(x) /\ y \notin Above(y)
    BY <2>1
  <2>4. <<Above(y), Above(x)>> \in R
    BY <2>2, <2>3 DEF StrictSubsetOrdering
  <2> QED BY <1>3, <2>4
<1> QED BY <1>4

LEMMA TopIs ==
    ASSUME NEW S \in SUBSET Nat, IsFiniteSet(S)
    PROVE  /\ Max({0} \cup S) \in Nat
           /\ \A n \in S : n <= Max({0} \cup S)
<1> DEFINE T == {0} \cup S
           f == [n \in T |-> n]
<1>1. IsFiniteSet(T) /\ T # {} /\ \A n \in T : f[n] \in Int
  BY FS_AddElement
<1>2. \E n \in T : \A m \in T : f[m] <= f[n]
  <2> HIDE DEF T, f
  <2> QED BY <1>1, HasLargest
<1>3. PICK n \in T : \A m \in T : n >= m
  BY <1>2
<1>4. Max(T) \in T /\ \A m \in T : Max(T) >= m
  <2> HIDE DEF T
  <2> QED BY <1>3 DEF Max
<1> DEFINE top == Max(T)
<1>5. top \in T /\ \A m \in T : top >= m
  BY <1>4
<1> HIDE DEF top
<1>6. top \in Nat /\ \A m \in S : m <= top
  BY <1>5
<1> QED BY <1>6 DEF top

LEMMA FirstPlace ==
    ASSUME NEW given, NEW n \in Nat, DOMAIN given = 1 .. n, NEW k,
           \E i \in DOMAIN given : given[i].id = k
    PROVE  \E i \in DOMAIN given : given[i].id = k /\ \A j \in 1 .. i - 1 : given[j].id # k
<1> DEFINE S == {i \in DOMAIN given : given[i].id = k}
           f == [i \in S |-> -i]
<1>1. IsFiniteSet(S) /\ S # {} /\ \A i \in S : f[i] \in Int
  <2>1. IsFiniteSet(1 .. n)
    BY FS_Interval
  <2> QED BY <2>1, FS_Subset
<1>2. PICK i \in S : \A j \in S : f[j] <= f[i]
  <2> HIDE DEF S, f
  <2> QED BY <1>1, HasLargest
<1>3. \A j \in S : i <= j
  <2>1. \A j \in S : j \in Int /\ f[j] = -j
    OBVIOUS
  <2> HIDE DEF S, f
  <2> QED BY <1>2, <2>1
<1> QED BY <1>3

-----------------------------------------------------------------------------
(* Creators                                                                *)

LEMMA CreatorsAre ==
    ASSUME NEW old, DOMAIN old \subseteq Nat, IsFiniteSet(DOMAIN old),
           NEW given \in Seq(CreatedBy)
    PROVE  LET new == CreatorsReplaced(old, given)
           IN /\ DOMAIN new \subseteq Nat /\ IsFiniteSet(DOMAIN new)
              /\ \A i \in DOMAIN old : old[i].credit = Null => i \in DOMAIN new /\ new[i] = old[i]
              /\ Credited(new) = {c \in {given[j] : j \in DedupeByCreditId(given)} : c.credit # Null}
<1> DEFINE new == CreatorsReplaced(old, given)
           local == {i \in DOMAIN old : old[i].credit = Null}
           top == Max({0} \cup local)
           places == DedupeByCreditId(given)
           made == {top + j : j \in places}
<1>1. IsFiniteSet(local) /\ local \subseteq Nat
  BY FS_Subset
<1>2. top \in Nat /\ \A i \in local : i <= top
  <2> HIDE DEF local
  <2> QED BY <1>1, TopIs
<1>3. places \subseteq 1 .. Len(given) /\ IsFiniteSet(places) /\ places \subseteq Nat \ {0}
  <2>1. places \subseteq 1 .. Len(given) /\ Len(given) \in Nat
    BY DEF DedupeByCreditId
  <2>2. IsFiniteSet(1 .. Len(given))
    BY <2>1, FS_Interval
  <2> QED BY <2>1, <2>2, FS_Subset
<1> HIDE DEF top, places
<1>4. made \subseteq Nat \ {0} /\ IsFiniteSet(made) /\ made \cap local = {}
  <2> DEFINE f == [j \in places |-> top + j]
  <2>1. f \in Surjection(places, made)
    BY DEF Surjection
  <2>2. IsFiniteSet(made)
    <3> HIDE DEF f, made
    <3> QED BY <2>1, <1>3, FS_Surjection
  <2> QED BY <2>2, <1>1, <1>2, <1>3
<1>5. new = [i \in local \cup made |-> IF i \in local THEN old[i] ELSE given[i - top]]
  BY DEF CreatorsReplaced, top, places
<1>6. DOMAIN new \subseteq Nat /\ IsFiniteSet(DOMAIN new)
  <2>1. DOMAIN new = local \cup made
    BY <1>5
  <2> HIDE DEF new, local, made
  <2> QED BY <2>1, <1>1, <1>4, FS_Union
<1>7. \A i \in DOMAIN old : old[i].credit = Null => i \in DOMAIN new /\ new[i] = old[i]
  BY <1>5
<1>8. \A i \in local : new[i].credit = Null
  BY <1>5
<1>9. \A j \in places : top + j \in DOMAIN new /\ new[top + j] = given[j]
  <2> SUFFICES ASSUME NEW j \in places PROVE top + j \in DOMAIN new /\ new[top + j] = given[j]
    OBVIOUS
  <2>1. top + j \in made /\ top + j \notin local /\ (top + j) - top = j
    BY <1>2, <1>3, <1>4
  <2> QED BY <2>1, <1>5
<1>10. DOMAIN new = local \cup {top + j : j \in places}
  BY <1>5
<1>11. Credited(new) = {c \in {given[j] : j \in places} : c.credit # Null}
  <2> HIDE DEF new, local, made
  <2> QED BY <1>8, <1>9, <1>10 DEF Credited
<1> QED BY <1>6, <1>7, <1>11 DEF places

-----------------------------------------------------------------------------
(* Seasons                                                                 *)

\* What a payload makes of a show's seasons.
SeasonsAfter(old, p, new) ==
    /\ DOMAIN new = SeasonsNamed(p) \cup (DOMAIN old \cap LegacySeasons)
    /\ \A k \in DOMAIN old \cap LegacySeasons : new[k] = old[k]
    /\ \A k \in SeasonsNamed(p) :
         /\ new[k].number = NumberGiven(p, k)
         /\ new[k].networks = IF k \in SeasonsDetailed(p) THEN NetworksGiven(p, k)
                              ELSE IF k \in DOMAIN old THEN old[k].networks ELSE {}
         /\ new[k].regulars = IF k \in SpeaksRegulars(p) THEN GuestRows(RegularsGiven(p)[k])
                              ELSE IF k \in DOMAIN old THEN old[k].regulars ELSE {}

\* What becomes of the episodes of a season that goes.
HomesAfter(old, new, kept) ==
    /\ DOMAIN new = DOMAIN old
    /\ \A e \in DOMAIN old : new[e] = IF old[e].season \in kept THEN old[e]
                                     ELSE [old[e] EXCEPT !.season = Null]

LEMMA NamedAre ==
    ASSUME NEW p, PayloadOK(p)
    PROVE  SeasonsNamed(p) \subseteq SeasonIds /\ IsFiniteSet(SeasonsNamed(p))
<1> DEFINE given == p.series.seasons
           f == [i \in DOMAIN given |-> given[i].id]
<1>1. given \in Seq(SeasonSummary)
  BY DEF PayloadOK
<1>2. DOMAIN given = 1 .. Len(given) /\ Len(given) \in Nat
  BY <1>1
<1>3. \A i \in DOMAIN given : given[i].id \in SeasonIds
  <2>1. \A i \in DOMAIN given : given[i] \in SeasonSummary
    BY <1>1
  <2> QED BY <2>1 DEF SeasonSummary
<1>4. f \in Surjection(DOMAIN given, SeasonsNamed(p))
  BY DEF Surjection, SeasonsNamed
<1>5. IsFiniteSet(DOMAIN given)
  BY <1>2, FS_Interval
<1>6. IsFiniteSet(SeasonsNamed(p))
  <2> HIDE DEF f, given
  <2> QED BY <1>4, <1>5, FS_Surjection
<1> QED BY <1>3, <1>6 DEF SeasonsNamed

LEMMA UpsertedSeasons ==
    ASSUME NEW s, DOMAIN s = StoreFields, SeasonsWhole(s.seasons), NEW p, PayloadOK(p)
    PROVE  LET t == SeasonsUpserted(s, p)
           IN /\ Touches(s, t, {"seasons"}) /\ SeasonsWhole(t.seasons)
              /\ DOMAIN t.seasons = DOMAIN s.seasons \cup SeasonsNamed(p)
              /\ \A k \in DOMAIN s.seasons \ SeasonsNamed(p) : t.seasons[k] = s.seasons[k]
              /\ \A k \in SeasonsNamed(p) :
                   /\ t.seasons[k].number = NumberGiven(p, k)
                   /\ t.seasons[k].networks = IF k \in DOMAIN s.seasons THEN s.seasons[k].networks ELSE {}
                   /\ t.seasons[k].regulars = IF k \in DOMAIN s.seasons THEN s.seasons[k].regulars ELSE {}
<1> DEFINE given == p.series.seasons
           named == SeasonsNamed(p)
           fresh == named \ DOMAIN s.seasons
           ids == {s.seasons[k].id : k \in DOMAIN s.seasons}
           top == Max({0} \cup ids)
           Position(k) == CHOOSE i \in DOMAIN given :
                              given[i].id = k /\ \A j \in 1 .. i - 1 : given[j].id # k
           New(k) == [id |-> top + Position(k), number |-> NumberGiven(p, k), networks |-> {}, regulars |-> {}]
           new == [k \in DOMAIN s.seasons \cup fresh |->
                     IF k \in fresh THEN New(k)
                     ELSE IF k \in named THEN [s.seasons[k] EXCEPT !.number = NumberGiven(p, k)]
                     ELSE s.seasons[k]]
           t == SeasonsUpserted(s, p)
<1>1. top \in Nat
  <2> DEFINE f == [k \in DOMAIN s.seasons |-> s.seasons[k].id]
  <2>1. f \in Surjection(DOMAIN s.seasons, ids) /\ ids \in SUBSET Nat
    BY DEF Surjection, SeasonsWhole
  <2>2. IsFiniteSet(ids)
    <3> HIDE DEF f, ids
    <3> QED BY <2>1, FS_Surjection DEF SeasonsWhole
  <2> HIDE DEF ids
  <2> QED BY <2>1, <2>2, TopIs
<1>2. \A k \in named : Position(k) \in Nat
  <2> SUFFICES ASSUME NEW k \in named PROVE Position(k) \in Nat
    OBVIOUS
  <2>1. given \in Seq(SeasonSummary)
    BY DEF PayloadOK
  <2>2. DOMAIN given = 1 .. Len(given) /\ Len(given) \in Nat
    BY <2>1
  <2>3. \E i \in DOMAIN given : given[i].id = k
    BY DEF SeasonsNamed
  <2>4. \E i \in DOMAIN given : given[i].id = k /\ \A j \in 1 .. i - 1 : given[j].id # k
    <3> HIDE DEF given
    <3> QED BY <2>2, <2>3, FirstPlace
  <2>5. Position(k) \in DOMAIN given
    BY <2>4
  <2> HIDE DEF Position
  <2> QED BY <2>2, <2>5
<1>3. t = [s EXCEPT !.seasons = new]
  BY DEF SeasonsUpserted
<1> HIDE DEF top, Position
<1>4. \A k \in fresh : DOMAIN New(k) = SeasonColumns /\ New(k).id \in Nat
  BY <1>1, <1>2 DEF SeasonColumns
<1> HIDE DEF t
<1>5. Touches(s, t, {"seasons"}) /\ t.seasons = new
  <2> HIDE DEF new
  <2> QED BY <1>3 DEF Touches, StoreFields
<1>6. DOMAIN new = DOMAIN s.seasons \cup named
  OBVIOUS
<1>7. \A k \in DOMAIN s.seasons \ named : new[k] = s.seasons[k]
  OBVIOUS
<1>8. \A k \in fresh : new[k] = New(k)
  OBVIOUS
<1>9. \A k \in DOMAIN s.seasons \cap named :
          new[k] = [s.seasons[k] EXCEPT !.number = NumberGiven(p, k)]
  OBVIOUS
<1>10. \A k \in fresh : /\ New(k).number = NumberGiven(p, k)
                        /\ New(k).networks = {} /\ New(k).regulars = {}
  OBVIOUS
<1>11. \A k \in DOMAIN s.seasons : DOMAIN s.seasons[k] = SeasonColumns /\ s.seasons[k].id \in Nat
  BY DEF SeasonsWhole
<1> HIDE DEF new, New
<1>12. SeasonsWhole(new)
  <2>1. IsFiniteSet(DOMAIN new) /\ DOMAIN new \subseteq SeasonKeys
    BY <1>6, NamedAre, FS_Union DEF SeasonsWhole, SeasonKeys
  <2>2. \A k \in DOMAIN new : DOMAIN new[k] = SeasonColumns /\ new[k].id \in Nat
    BY <1>4, <1>6, <1>7, <1>8, <1>9, <1>11 DEF SeasonColumns
  <2> QED BY <2>1, <2>2 DEF SeasonsWhole
<1>13. \A k \in named :
          /\ new[k].number = NumberGiven(p, k)
          /\ new[k].networks = IF k \in DOMAIN s.seasons THEN s.seasons[k].networks ELSE {}
          /\ new[k].regulars = IF k \in DOMAIN s.seasons THEN s.seasons[k].regulars ELSE {}
  BY <1>8, <1>9, <1>10, <1>11 DEF SeasonColumns
<1> QED BY <1>5, <1>6, <1>7, <1>12, <1>13 DEF t

LEMMA PrunedSeasons ==
    ASSUME NEW s, DOMAIN s = StoreFields, SeasonsWhole(s.seasons), NEW p,
           SeasonsNamed(p) \subseteq DOMAIN s.seasons
    PROVE  LET t == MissingSeasonsPruned(s, p)
           IN /\ Touches(s, t, {"seasons", "episodes"}) /\ SeasonsWhole(t.seasons)
              /\ DOMAIN t.seasons = SeasonsNamed(p) \cup (DOMAIN s.seasons \cap LegacySeasons)
              /\ \A k \in DOMAIN t.seasons : t.seasons[k] = s.seasons[k]
              /\ HomesAfter(s.episodes, t.episodes, DOMAIN t.seasons)
<1> DEFINE kept == {k \in DOMAIN s.seasons : LocalSeason(k) \/ k \in SeasonsNamed(p)}
           homes == [e \in DOMAIN s.episodes |->
               IF s.episodes[e].season \in kept THEN s.episodes[e]
               ELSE [s.episodes[e] EXCEPT !.season = Null]]
           new == [k \in kept |-> s.seasons[k]]
           t == MissingSeasonsPruned(s, p)
<1>1. t = [s EXCEPT !.seasons = new, !.episodes = homes]
  BY DEF MissingSeasonsPruned, SeasonsDeleted
<1>2. Touches(s, t, {"seasons", "episodes"}) /\ t.seasons = new /\ t.episodes = homes
  <2> HIDE DEF new, homes, t
  <2> QED BY <1>1 DEF Touches, StoreFields
<1>3. kept = SeasonsNamed(p) \cup (DOMAIN s.seasons \cap LegacySeasons)
  BY DEF LocalSeason
<1>4. DOMAIN new = kept /\ \A k \in kept : new[k] = s.seasons[k]
  OBVIOUS
<1>5. SeasonsWhole(new)
  <2>1. kept \subseteq DOMAIN s.seasons /\ IsFiniteSet(kept)
    BY FS_Subset DEF SeasonsWhole
  <2> HIDE DEF kept, new
  <2> QED BY <1>4, <2>1 DEF SeasonsWhole
<1>6. HomesAfter(s.episodes, homes, kept)
  BY DEF HomesAfter
<1> HIDE DEF kept, new, homes, t
<1> QED BY <1>2, <1>3, <1>4, <1>5, <1>6 DEF t

LEMMA NetworkedSeasons ==
    ASSUME NEW s, DOMAIN s = StoreFields, SeasonsWhole(s.seasons), NEW p,
           SeasonsNamed(p) \subseteq DOMAIN s.seasons
    PROVE  LET t == SeasonNetworksWritten(s, p)
           IN /\ Touches(s, t, {"seasons"}) /\ SeasonsWhole(t.seasons)
              /\ DOMAIN t.seasons = DOMAIN s.seasons
              /\ \A k \in DOMAIN s.seasons \ SeasonsDetailed(p) : t.seasons[k] = s.seasons[k]
              /\ \A k \in DOMAIN s.seasons \cap SeasonsDetailed(p) :
                   t.seasons[k] = [s.seasons[k] EXCEPT !.networks = NetworksGiven(p, k)]
<1> DEFINE new == [k \in DOMAIN s.seasons |->
               IF k \in SeasonsDetailed(p) THEN [s.seasons[k] EXCEPT !.networks = NetworksGiven(p, k)]
               ELSE s.seasons[k]]
           t == SeasonNetworksWritten(s, p)
<1>1. t = [s EXCEPT !.seasons = new]
  BY DEF SeasonNetworksWritten
<1>2. Touches(s, t, {"seasons"}) /\ t.seasons = new
  <2> HIDE DEF new, t
  <2> QED BY <1>1 DEF Touches, StoreFields
<1>3. DOMAIN new = DOMAIN s.seasons
  OBVIOUS
<1>4. \A k \in DOMAIN s.seasons \ SeasonsDetailed(p) : new[k] = s.seasons[k]
  OBVIOUS
<1>5. \A k \in DOMAIN s.seasons \cap SeasonsDetailed(p) :
          new[k] = [s.seasons[k] EXCEPT !.networks = NetworksGiven(p, k)]
  OBVIOUS
<1> HIDE DEF new, t
<1>6. SeasonsWhole(new)
  BY <1>3, <1>4, <1>5 DEF SeasonsWhole, SeasonColumns
<1> QED BY <1>2, <1>3, <1>4, <1>5, <1>6 DEF t

\* The vocabularies that credits are interned in.
SameWords(s, t) == s.people = t.people /\ s.characters = t.characters /\ s.roles = t.roles
SeasonCreditsRead(s, p) ==
    UNION {GuestRows(RegularsGiven(p)[k]) : k \in DOMAIN s.seasons \cap SpeaksRegulars(p)}
EpisodeGuestsRead(s, p) ==
    UNION {GuestRows(p.episodes[e].guests) : e \in DOMAIN p.episodes \cap DOMAIN s.episodes}
EpisodeCrewRead(s, p) ==
    UNION {EpisodeCrewRows(p.episodes[e].crew) : e \in DOMAIN p.episodes \cap DOMAIN s.episodes}

LEMMA CreditedSeasons ==
    ASSUME NEW s, DOMAIN s = StoreFields, SeasonsWhole(s.seasons), NEW p
    PROVE  LET t == SeasonCreditsWritten(s, p)
           IN /\ Touches(s, t, {"seasons", "people", "characters", "roles"}) /\ SeasonsWhole(t.seasons)
              /\ DOMAIN t.seasons = DOMAIN s.seasons
              /\ \A k \in DOMAIN s.seasons \ SpeaksRegulars(p) : t.seasons[k] = s.seasons[k]
              /\ \A k \in DOMAIN s.seasons \cap SpeaksRegulars(p) :
                   t.seasons[k] = [s.seasons[k] EXCEPT !.regulars = GuestRows(RegularsGiven(p)[k])]
              /\ SameWords(t, WithCredits(s, SeasonCreditsRead(s, p), {}))
<1> DEFINE given == RegularsGiven(p)
           list == [k \in DOMAIN given \cap DOMAIN s.seasons |-> given[k]]
           usable == [k \in DOMAIN list |-> GuestRows(list[k])]
           scope == RefreshScope(list, {k \in DOMAIN usable : usable[k] # {}})
           new == [k \in DOMAIN s.seasons |->
               IF k \in scope THEN [s.seasons[k] EXCEPT !.regulars = usable[k]] ELSE s.seasons[k]]
           named == WithCredits(s, UNION {usable[k] : k \in scope}, {})
           t == SeasonCreditsWritten(s, p)
<1>1. scope = DOMAIN s.seasons \cap SpeaksRegulars(p)
  <2>1. \A k \in DOMAIN list : list[k] = given[k] /\ usable[k] = GuestRows(given[k])
    OBVIOUS
  <2>2. DOMAIN list = DOMAIN given \cap DOMAIN s.seasons /\ DOMAIN usable = DOMAIN list
    OBVIOUS
  <2>3. SpeaksRegulars(p) = {k \in DOMAIN given : Spoken(given[k], HasPerson)}
    BY DEF SpeaksRegulars
  <2>4. \A k \in DOMAIN given : Spoken(given[k], HasPerson) <=>
            given[k] # Absent /\ (given[k] = <<>> \/ GuestRows(given[k]) # {})
    <3> HIDE DEF given
    <3> QED BY DEF Spoken, GuestRows
  <2> HIDE DEF list, usable, given
  <2> QED BY <2>1, <2>2, <2>3, <2>4 DEF RefreshScope
<1>2. t = [named EXCEPT !.seasons = [k \in DOMAIN @ |->
              IF k \in scope THEN [s.seasons[k] EXCEPT !.regulars = usable[k]] ELSE @[k]]]
  BY DEF SeasonCreditsWritten
<1>3. Touches(s, named, {"people", "characters", "roles"})
  <2> HIDE DEF usable, scope
  <2> QED BY DEF WithCredits, Touches, StoreFields
<1>4. t = [named EXCEPT !.seasons = new]
  <2>1. named.seasons = s.seasons
    BY <1>3 DEF Touches, StoreFields
  <2> HIDE DEF named, usable, scope, t
  <2> QED BY <1>2, <2>1
<1>5. Touches(s, t, {"seasons", "people", "characters", "roles"}) /\ t.seasons = new
  <2> HIDE DEF named, new, t
  <2> QED BY <1>3, <1>4 DEF Touches, StoreFields
<1>6. DOMAIN new = DOMAIN s.seasons
  OBVIOUS
<1>7. \A k \in DOMAIN s.seasons \ scope : new[k] = s.seasons[k]
  OBVIOUS
<1>8. \A k \in DOMAIN s.seasons \cap scope :
          new[k] = [s.seasons[k] EXCEPT !.regulars = GuestRows(given[k])]
  <2>1. \A k \in scope : usable[k] = GuestRows(given[k])
    BY DEF RefreshScope
  <2> HIDE DEF usable, scope, given
  <2> QED BY <2>1
<1>9. SameWords(t, named)
  <2> HIDE DEF named, new, t
  <2> QED BY <1>3, <1>4 DEF Touches, StoreFields, SameWords
<1>10. named = WithCredits(s, SeasonCreditsRead(s, p), {})
  <2>1. \A k \in scope : usable[k] = GuestRows(given[k])
    BY DEF RefreshScope
  <2>2. UNION {usable[k] : k \in scope} = SeasonCreditsRead(s, p)
    <3> HIDE DEF usable, scope
    <3> QED BY <2>1, <1>1 DEF SeasonCreditsRead
  <2> HIDE DEF usable, scope
  <2> QED BY <2>2
<1> HIDE DEF new, t, scope, named
<1>11. SeasonsWhole(new)
  BY <1>6, <1>7, <1>8 DEF SeasonsWhole, SeasonColumns
<1> QED BY <1>1, <1>5, <1>6, <1>7, <1>8, <1>11, <1>9, <1>10 DEF t

LEMMA WrittenSeasons ==
    ASSUME NEW s, Whole(s), NEW p, PayloadOK(p)
    PROVE  LET t == SeasonsWritten(s, p, TRUE)
           IN /\ Touches(s, t, {"seasons", "episodes", "people", "characters", "roles"})
              /\ SeasonsWhole(t.seasons) /\ SeasonsAfter(s.seasons, p, t.seasons)
              /\ HomesAfter(s.episodes, t.episodes, DOMAIN t.seasons)
<1> DEFINE a == SeasonsUpserted(s, p)
           b == MissingSeasonsPruned(a, p)
           c == SeasonNetworksWritten(b, p)
           t == SeasonCreditsWritten(c, p)
           named == SeasonsNamed(p)
<1>0. named \subseteq SeasonIds
  BY NamedAre
<1>1. /\ Touches(s, a, {"seasons"}) /\ SeasonsWhole(a.seasons)
      /\ DOMAIN a.seasons = DOMAIN s.seasons \cup named
      /\ \A k \in DOMAIN s.seasons \ named : a.seasons[k] = s.seasons[k]
      /\ \A k \in named :
           /\ a.seasons[k].number = NumberGiven(p, k)
           /\ a.seasons[k].networks = IF k \in DOMAIN s.seasons THEN s.seasons[k].networks ELSE {}
           /\ a.seasons[k].regulars = IF k \in DOMAIN s.seasons THEN s.seasons[k].regulars ELSE {}
  BY UpsertedSeasons DEF Whole
<1>2. /\ Touches(a, b, {"seasons", "episodes"}) /\ SeasonsWhole(b.seasons)
      /\ DOMAIN b.seasons = named \cup (DOMAIN a.seasons \cap LegacySeasons)
      /\ \A k \in DOMAIN b.seasons : b.seasons[k] = a.seasons[k]
      /\ HomesAfter(a.episodes, b.episodes, DOMAIN b.seasons)
  <2> HIDE DEF a
  <2> QED BY <1>1, PrunedSeasons DEF Touches
<1>3. /\ Touches(b, c, {"seasons"}) /\ SeasonsWhole(c.seasons)
      /\ DOMAIN c.seasons = DOMAIN b.seasons
      /\ \A k \in DOMAIN b.seasons \ SeasonsDetailed(p) : c.seasons[k] = b.seasons[k]
      /\ \A k \in DOMAIN b.seasons \cap SeasonsDetailed(p) :
           c.seasons[k] = [b.seasons[k] EXCEPT !.networks = NetworksGiven(p, k)]
  <2> HIDE DEF b
  <2> QED BY <1>2, NetworkedSeasons DEF Touches
<1>4. /\ Touches(c, t, {"seasons", "people", "characters", "roles"}) /\ SeasonsWhole(t.seasons)
      /\ DOMAIN t.seasons = DOMAIN c.seasons
      /\ \A k \in DOMAIN c.seasons \ SpeaksRegulars(p) : t.seasons[k] = c.seasons[k]
      /\ \A k \in DOMAIN c.seasons \cap SpeaksRegulars(p) :
           t.seasons[k] = [c.seasons[k] EXCEPT !.regulars = GuestRows(RegularsGiven(p)[k])]
  <2> HIDE DEF c
  <2> QED BY <1>3, CreditedSeasons DEF Touches
<1>5. t = SeasonsWritten(s, p, TRUE)
  BY DEF SeasonsWritten
<1>6. SpeaksRegulars(p) \subseteq named /\ SeasonsDetailed(p) \subseteq named
  BY DEF SpeaksRegulars, RegularsGiven, SeasonsDetailed
<1> HIDE DEF a, b, c, t, named
<1>7. Touches(s, t, {"seasons", "episodes", "people", "characters", "roles"})
  BY <1>1, <1>2, <1>3, <1>4 DEF Touches, StoreFields
<1>8. a.episodes = s.episodes /\ t.episodes = b.episodes
  BY <1>1, <1>3, <1>4 DEF Touches, StoreFields
<1>9. DOMAIN t.seasons = named \cup (DOMAIN s.seasons \cap LegacySeasons)
  BY <1>0, <1>1, <1>2, <1>3, <1>4, PayloadStoreAssumption
<1>10. \A k \in DOMAIN s.seasons \cap LegacySeasons : t.seasons[k] = s.seasons[k]
  BY <1>0, <1>1, <1>2, <1>3, <1>4, <1>6, <1>9, PayloadStoreAssumption
<1>11. ASSUME NEW k \in named
       PROVE  /\ t.seasons[k].number = NumberGiven(p, k)
              /\ t.seasons[k].networks =
                     IF k \in SeasonsDetailed(p) THEN NetworksGiven(p, k)
                     ELSE IF k \in DOMAIN s.seasons THEN s.seasons[k].networks ELSE {}
              /\ t.seasons[k].regulars =
                     IF k \in SpeaksRegulars(p) THEN GuestRows(RegularsGiven(p)[k])
                     ELSE IF k \in DOMAIN s.seasons THEN s.seasons[k].regulars ELSE {}
  <2>1. k \in DOMAIN b.seasons /\ k \in DOMAIN c.seasons
    BY <1>2, <1>3
  <2>2. DOMAIN b.seasons[k] = SeasonColumns /\ DOMAIN c.seasons[k] = SeasonColumns
    BY <2>1, <1>2, <1>3 DEF SeasonsWhole
  <2>3. b.seasons[k] = a.seasons[k]
    BY <2>1, <1>2
  <2>4. /\ c.seasons[k].number = b.seasons[k].number /\ c.seasons[k].regulars = b.seasons[k].regulars
        /\ c.seasons[k].networks = IF k \in SeasonsDetailed(p) THEN NetworksGiven(p, k)
                                   ELSE b.seasons[k].networks
    BY <2>1, <2>2, <1>3 DEF SeasonColumns
  <2>5. /\ t.seasons[k].number = c.seasons[k].number /\ t.seasons[k].networks = c.seasons[k].networks
        /\ t.seasons[k].regulars = IF k \in SpeaksRegulars(p) THEN GuestRows(RegularsGiven(p)[k])
                                   ELSE c.seasons[k].regulars
    BY <2>1, <2>2, <1>4 DEF SeasonColumns
  <2> QED BY <1>1, <2>3, <2>4, <2>5
<1>12. SeasonsAfter(s.seasons, p, t.seasons)
  BY <1>9, <1>10, <1>11 DEF SeasonsAfter, named
<1>13. HomesAfter(s.episodes, t.episodes, DOMAIN t.seasons)
  BY <1>2, <1>3, <1>4, <1>8
<1> QED BY <1>4, <1>5, <1>7, <1>12, <1>13 DEF t

-----------------------------------------------------------------------------
(* Episodes                                                                *)

\* Where an episode of that number hangs.
HomeIs(seasons, number, home) ==
    IF number \in {seasons[k].number : k \in DOMAIN seasons}
    THEN home \in DOMAIN seasons /\ seasons[home].number = number
    ELSE home = Null

LEMMA HomeFound ==
    ASSUME NEW s, SeasonsWhole(s.seasons), NEW number
    PROVE  HomeIs(s.seasons, number, SeasonByNumber(s, number))
<1> DEFINE at == {k \in DOMAIN s.seasons : s.seasons[k].number = number}
           f == [k \in at |-> s.seasons[k].id]
<1>1. CASE at = {}
  <2>1. SeasonByNumber(s, number) = Null
    BY <1>1 DEF SeasonByNumber
  <2> QED BY <1>1, <2>1 DEF HomeIs
<1>2. CASE at # {}
  <2>1. IsFiniteSet(at) /\ \A k \in at : f[k] \in Int
    BY FS_Subset DEF SeasonsWhole
  <2>2. \E k \in at : \A j \in at : f[j] <= f[k]
    <3> HIDE DEF at, f
    <3> QED BY <1>2, <2>1, HasLargest
  <2>3. \E k \in at : \A j \in at : s.seasons[j].id <= s.seasons[k].id
    BY <2>2
  <2>4. SeasonByNumber(s, number) = CHOOSE k \in at : \A j \in at : s.seasons[j].id <= s.seasons[k].id
    BY <1>2 DEF SeasonByNumber
  <2>5. SeasonByNumber(s, number) \in at
    <3> HIDE DEF at
    <3> QED BY <2>3, <2>4
  <2> QED BY <2>5 DEF HomeIs
<1> QED BY <1>1, <1>2

LEMMA UpsertedEpisodes ==
    ASSUME NEW s, DOMAIN s = StoreFields, SeasonsWhole(s.seasons), EpisodesWhole(s.episodes),
           NEW p, PayloadOK(p)
    PROVE  LET t == EpisodesUpserted(s, p)
           IN /\ Touches(s, t, {"episodes"}) /\ EpisodesWhole(t.episodes)
              /\ DOMAIN t.episodes = DOMAIN s.episodes \cup DOMAIN p.episodes
              /\ \A e \in DOMAIN s.episodes \ DOMAIN p.episodes : t.episodes[e] = s.episodes[e]
              /\ \A e \in DOMAIN p.episodes :
                   /\ t.episodes[e].number = p.episodes[e].number
                   /\ t.episodes[e].runtime = p.episodes[e].runtime
                   /\ HomeIs(s.seasons, t.episodes[e].number, t.episodes[e].season)
                   /\ t.episodes[e].screened = IF p.series.screened # Absent THEN e \in p.series.screened
                                               ELSE e \in DOMAIN s.episodes /\ s.episodes[e].screened
                   /\ t.episodes[e].guests = IF e \in DOMAIN s.episodes THEN s.episodes[e].guests ELSE {}
                   /\ t.episodes[e].crew = IF e \in DOMAIN s.episodes THEN s.episodes[e].crew ELSE {}
<1> DEFINE given == p.episodes
           Row(e) ==
             [season |-> SeasonByNumber(s, given[e].number), number |-> given[e].number,
              runtime |-> given[e].runtime,
              screened |-> IF p.series.screened # Absent THEN e \in p.series.screened
                           ELSE e \in DOMAIN s.episodes /\ s.episodes[e].screened,
              guests |-> IF e \in DOMAIN s.episodes THEN s.episodes[e].guests ELSE {},
              crew |-> IF e \in DOMAIN s.episodes THEN s.episodes[e].crew ELSE {}]
           new == [e \in DOMAIN s.episodes \cup DOMAIN given |->
               IF e \in DOMAIN given THEN Row(e) ELSE s.episodes[e]]
           t == EpisodesUpserted(s, p)
<1>1. t = [s EXCEPT !.episodes = new]
  BY DEF EpisodesUpserted
<1>2. Touches(s, t, {"episodes"}) /\ t.episodes = new
  <2> HIDE DEF new, t
  <2> QED BY <1>1 DEF Touches, StoreFields
<1>3. DOMAIN new = DOMAIN s.episodes \cup DOMAIN given
  OBVIOUS
<1>4. \A e \in DOMAIN s.episodes \ DOMAIN given : new[e] = s.episodes[e]
  OBVIOUS
<1>5. \A e \in DOMAIN given : new[e] = Row(e)
  OBVIOUS
<1>6. \A e \in DOMAIN given : Row(e) = [c \in EpisodeColumns |-> Row(e)[c]]
  BY DEF EpisodeColumns
<1>7. \A e \in DOMAIN given :
        /\ Row(e).number = given[e].number /\ Row(e).runtime = given[e].runtime
        /\ Row(e).season = SeasonByNumber(s, given[e].number)
        /\ Row(e).screened = IF p.series.screened # Absent THEN e \in p.series.screened
                             ELSE e \in DOMAIN s.episodes /\ s.episodes[e].screened
        /\ Row(e).guests = IF e \in DOMAIN s.episodes THEN s.episodes[e].guests ELSE {}
        /\ Row(e).crew = IF e \in DOMAIN s.episodes THEN s.episodes[e].crew ELSE {}
  OBVIOUS
<1> HIDE DEF new, t, Row
<1>8. EpisodesWhole(new)
  BY <1>3, <1>4, <1>5, <1>6 DEF EpisodesWhole, PayloadOK
<1>9. \A e \in DOMAIN given : HomeIs(s.seasons, new[e].number, new[e].season)
  BY <1>5, <1>7, HomeFound
<1> QED BY <1>2, <1>3, <1>4, <1>5, <1>7, <1>8, <1>9 DEF t

LEMMA CreditedEpisodes ==
    ASSUME NEW s, DOMAIN s = StoreFields, EpisodesWhole(s.episodes), NEW p
    PROVE  LET t == EpisodeCreditsWritten(s, p)
           IN /\ Touches(s, t, {"episodes", "people", "characters", "roles"})
              /\ EpisodesWhole(t.episodes) /\ DOMAIN t.episodes = DOMAIN s.episodes
              /\ \A e \in DOMAIN s.episodes \ DOMAIN p.episodes : t.episodes[e] = s.episodes[e]
              /\ \A e \in DOMAIN s.episodes \cap DOMAIN p.episodes :
                   /\ t.episodes[e].guests = IF e \in SpeaksGuests(p) THEN GuestRows(p.episodes[e].guests)
                                             ELSE s.episodes[e].guests
                   /\ t.episodes[e].crew = IF e \in SpeaksCrew(p) THEN EpisodeCrewRows(p.episodes[e].crew)
                                           ELSE s.episodes[e].crew
                   /\ \A c \in EpisodeColumns \ {"guests", "crew"} : t.episodes[e][c] = s.episodes[e][c]
              /\ SameWords(t, WithCredits(s, EpisodeGuestsRead(s, p), EpisodeCrewRead(s, p)))
<1> DEFINE given == p.episodes
           scoped == DOMAIN given \cap DOMAIN s.episodes
           guests == [e \in scoped |-> GuestRows(given[e].guests)]
           crew == [e \in scoped |-> EpisodeCrewRows(given[e].crew)]
           guestLists == [e \in scoped |-> given[e].guests]
           crewLists == [e \in scoped |-> given[e].crew]
           guestScope == RefreshScope(guestLists, {e \in scoped : guests[e] # {}})
           crewScope == RefreshScope(crewLists, {e \in scoped : crew[e] # {}})
           new == [e \in DOMAIN s.episodes |->
              IF e \notin scoped THEN s.episodes[e]
              ELSE [s.episodes[e] EXCEPT !.guests = IF e \in guestScope THEN guests[e] ELSE @,
                                         !.crew = IF e \in crewScope THEN crew[e] ELSE @]]
           interned == WithCredits(s, UNION {guests[e] : e \in scoped}, UNION {crew[e] : e \in scoped})
           t == EpisodeCreditsWritten(s, p)
<1>1. \A e \in scoped : e \in guestScope <=> e \in SpeaksGuests(p)
  <2> SUFFICES ASSUME NEW e \in scoped PROVE e \in guestScope <=> e \in SpeaksGuests(p)
    OBVIOUS
  <2>1. e \in guestScope <=> given[e].guests # Absent /\ (given[e].guests = <<>> \/ GuestRows(given[e].guests) # {})
    BY DEF RefreshScope
  <2>2. e \in SpeaksGuests(p) <=> Spoken(given[e].guests, HasPerson)
    BY DEF SpeaksGuests
  <2> DEFINE list == given[e].guests
  <2>3. Spoken(list, HasPerson) <=> list # Absent /\ (list = <<>> \/ GuestRows(list) # {})
    <3> HIDE DEF list
    <3> QED BY DEF Spoken, GuestRows
  <2> QED BY <2>1, <2>2, <2>3
<1>2. \A e \in scoped : e \in crewScope <=> e \in SpeaksCrew(p)
  <2> SUFFICES ASSUME NEW e \in scoped PROVE e \in crewScope <=> e \in SpeaksCrew(p)
    OBVIOUS
  <2>1. e \in crewScope <=> given[e].crew # Absent /\ (given[e].crew = <<>> \/ EpisodeCrewRows(given[e].crew) # {})
    BY DEF RefreshScope
  <2>2. e \in SpeaksCrew(p) <=> Spoken(given[e].crew, UsableCrew)
    BY DEF SpeaksCrew
  <2> DEFINE list == given[e].crew
  <2>3. Spoken(list, UsableCrew) <=> list # Absent /\ (list = <<>> \/ EpisodeCrewRows(list) # {})
    <3> HIDE DEF list
    <3> QED BY DEF Spoken, EpisodeCrewRows
  <2> QED BY <2>1, <2>2, <2>3
<1>3. \A e \in scoped : guests[e] = GuestRows(given[e].guests) /\ crew[e] = EpisodeCrewRows(given[e].crew)
  OBVIOUS
<1>4. t = [interned EXCEPT !.episodes = [e \in DOMAIN @ |->
              IF e \notin scoped THEN @[e]
              ELSE [s.episodes[e] EXCEPT !.guests = IF e \in guestScope THEN guests[e] ELSE @,
                                         !.crew = IF e \in crewScope THEN crew[e] ELSE @]]]
  BY DEF EpisodeCreditsWritten
<1>5. interned = WithCredits(s, EpisodeGuestsRead(s, p), EpisodeCrewRead(s, p))
  <2>1. /\ UNION {guests[e] : e \in scoped} = EpisodeGuestsRead(s, p)
        /\ UNION {crew[e] : e \in scoped} = EpisodeCrewRead(s, p)
    BY <1>3 DEF EpisodeGuestsRead, EpisodeCrewRead
  <2> QED BY <2>1
<1> HIDE DEF guests, crew, guestScope, crewScope
<1>6. Touches(s, interned, {"people", "characters", "roles"})
  BY DEF WithCredits, Touches, StoreFields
<1>7. t = [interned EXCEPT !.episodes = new]
  <2>1. interned.episodes = s.episodes
    BY <1>6 DEF Touches, StoreFields
  <2> HIDE DEF interned, scoped, t
  <2> QED BY <1>4, <2>1
<1>8. Touches(s, t, {"episodes", "people", "characters", "roles"}) /\ t.episodes = new
  <2> HIDE DEF interned, new, t
  <2> QED BY <1>6, <1>7 DEF Touches, StoreFields
<1>9. SameWords(t, interned)
  <2> HIDE DEF interned, new, t
  <2> QED BY <1>6, <1>7 DEF Touches, StoreFields, SameWords
<1>10. DOMAIN new = DOMAIN s.episodes
  OBVIOUS
<1>11. \A e \in DOMAIN s.episodes \ DOMAIN given : new[e] = s.episodes[e]
  OBVIOUS
<1>12. \A e \in DOMAIN s.episodes \cap DOMAIN given :
        new[e] = [s.episodes[e] EXCEPT
                    !.guests = IF e \in SpeaksGuests(p) THEN GuestRows(given[e].guests) ELSE @,
                    !.crew = IF e \in SpeaksCrew(p) THEN EpisodeCrewRows(given[e].crew) ELSE @]
  BY <1>1, <1>2, <1>3
<1> HIDE DEF new, t, given, interned
<1>13. EpisodesWhole(new)
  <2>1. \A e \in DOMAIN s.episodes : s.episodes[e] = [c \in EpisodeColumns |-> s.episodes[e][c]]
    BY DEF EpisodesWhole
  <2>2. \A e \in DOMAIN new : new[e] = [c \in EpisodeColumns |-> new[e][c]]
    BY <2>1, <1>10, <1>11, <1>12
  <2> QED BY <1>10, <2>2 DEF EpisodesWhole
<1>14. ASSUME NEW e \in DOMAIN s.episodes \cap DOMAIN given
       PROVE  /\ new[e].guests = IF e \in SpeaksGuests(p) THEN GuestRows(given[e].guests)
                                 ELSE s.episodes[e].guests
              /\ new[e].crew = IF e \in SpeaksCrew(p) THEN EpisodeCrewRows(given[e].crew)
                               ELSE s.episodes[e].crew
              /\ \A c \in EpisodeColumns \ {"guests", "crew"} : new[e][c] = s.episodes[e][c]
  <2>1. s.episodes[e] = [c \in EpisodeColumns |-> s.episodes[e][c]]
    BY DEF EpisodesWhole
  <2>2. new[e] = [s.episodes[e] EXCEPT
                    !.guests = IF e \in SpeaksGuests(p) THEN GuestRows(given[e].guests) ELSE @,
                    !.crew = IF e \in SpeaksCrew(p) THEN EpisodeCrewRows(given[e].crew) ELSE @]
    BY <1>12
  <2> QED BY <2>1, <2>2 DEF EpisodeColumns
<1> QED BY <1>8, <1>10, <1>11, <1>13, <1>14, <1>5, <1>9 DEF t, given

-----------------------------------------------------------------------------
(* A whole payload                                                         *)

\* What a payload makes of the tables that hang on the show itself.
ShowAfter(s, p, on, t) ==
    /\ t.body = p.series.body /\ t.joins = p.series.joins
    /\ t.creators = CreatorsReplaced(s.creators, p.series.creators)
    /\ t.spaces = SpacesWritten(s, p).spaces
    /\ t.cast = CreditsWritten(s, p).cast /\ t.crew = CreditsWritten(s, p).crew
    /\ t.recommendations = RecommendationsWritten(s, p, on).recommendations

\* What it makes of the episodes, given the seasons it leaves.
EpisodesAfter(old, p, seasons, new) ==
    /\ DOMAIN new = DOMAIN old \cup DOMAIN p.episodes
    /\ \A e \in DOMAIN old \ DOMAIN p.episodes :
         new[e] = IF old[e].season \in DOMAIN seasons THEN old[e] ELSE [old[e] EXCEPT !.season = Null]
    /\ \A e \in DOMAIN p.episodes :
         /\ new[e].number = p.episodes[e].number /\ new[e].runtime = p.episodes[e].runtime
         /\ HomeIs(seasons, new[e].number, new[e].season)
         /\ new[e].screened = IF p.series.screened # Absent THEN e \in p.series.screened
                               ELSE e \in DOMAIN old /\ old[e].screened
         /\ new[e].guests = IF e \in SpeaksGuests(p) THEN GuestRows(p.episodes[e].guests)
                             ELSE IF e \in DOMAIN old THEN old[e].guests ELSE {}
         /\ new[e].crew = IF e \in SpeaksCrew(p) THEN EpisodeCrewRows(p.episodes[e].crew)
                           ELSE IF e \in DOMAIN old THEN old[e].crew ELSE {}

LEMMA PointersTouch ==
    ASSUME NEW s, DOMAIN s = StoreFields, NEW p
    PROVE  LET t == RuntimeRefreshed(AirPointersSet(s, p)) IN Touches(s, t, {"last", "next", "runtime"})
<1> DEFINE a == AirPointersSet(s, p)
           t == RuntimeRefreshed(a)
<1>1. Touches(s, a, {"last", "next"})
  BY DEF AirPointersSet, Touches, StoreFields
<1> HIDE DEF a
<1>2. Touches(a, t, {"runtime"})
  <2>1. \E x : t = a \/ t = [a EXCEPT !.runtime = x]
    BY DEF RuntimeRefreshed
  <2> HIDE DEF t
  <2> QED BY <1>1, <2>1 DEF Touches, StoreFields
<1> HIDE DEF t
<1>3. Touches(s, t, {"last", "next", "runtime"})
  BY <1>1, <1>2 DEF Touches, StoreFields
<1> QED BY <1>3 DEF t, a

LEMMA Upserted ==
    ASSUME NEW s, Whole(s), NEW p, PayloadOK(p), NEW on
    PROVE  LET t == UpsertSeriesPayload(s, p, TRUE, on)
           IN /\ Whole(t) /\ ShowAfter(s, p, on, t)
              /\ SeasonsAfter(s.seasons, p, t.seasons)
              /\ EpisodesAfter(s.episodes, p, t.seasons, t.episodes)
<1> DEFINE a == ShowRowsWritten(s, p, on)
           b == SeasonsWritten(a, p, TRUE)
           c == EpisodesUpserted(b, p)
           d == EpisodeCreditsWritten(c, p)
           t == RuntimeRefreshed(AirPointersSet(d, p))
<1>1. t = UpsertSeriesPayload(s, p, TRUE, on)
  BY DEF UpsertSeriesPayload
<1>2. DOMAIN s = StoreFields
  BY DEF Whole
<1>3. /\ DOMAIN a = StoreFields /\ a.seasons = s.seasons /\ a.episodes = s.episodes
      /\ a.creators = CreatorsReplaced(s.creators, p.series.creators)
      /\ ShowAfter(s, p, on, a)
  <2>1. CreatorsWritten(s, p).creators = CreatorsReplaced(s.creators, p.series.creators)
    BY <1>2 DEF CreatorsWritten, StoreFields
  <2> QED BY <1>2, <2>1, ShowRowsTouch DEF ShowAfter
<1>4. /\ CreatorsWhole(a.creators)
  BY <1>3, CreatorsAre DEF CreatorsWhole, Whole, PayloadOK
<1>5. Whole(a)
  BY <1>3, <1>4 DEF Whole
<1> HIDE DEF a
<1>6. /\ Touches(a, b, {"seasons", "episodes", "people", "characters", "roles"})
      /\ SeasonsWhole(b.seasons) /\ SeasonsAfter(a.seasons, p, b.seasons)
      /\ HomesAfter(a.episodes, b.episodes, DOMAIN b.seasons)
  BY <1>5, WrittenSeasons
<1> HIDE DEF b
<1>7. DOMAIN b = StoreFields /\ EpisodesWhole(b.episodes)
  <2>1. \A e \in DOMAIN a.episodes : a.episodes[e] = [x \in EpisodeColumns |-> a.episodes[e][x]]
    BY <1>5 DEF Whole, EpisodesWhole
  <2>2. ASSUME NEW e \in DOMAIN b.episodes
        PROVE  b.episodes[e] = [x \in EpisodeColumns |-> b.episodes[e][x]]
    <3>1. e \in DOMAIN a.episodes
      BY <1>6 DEF HomesAfter
    <3>2. b.episodes[e] \in {a.episodes[e], [a.episodes[e] EXCEPT !.season = Null]}
      BY <3>1, <1>6 DEF HomesAfter
    <3> QED BY <3>1, <3>2, <2>1
  <2> QED BY <1>5, <1>6, <2>2 DEF Touches, Whole, EpisodesWhole, HomesAfter
<1>8. /\ Touches(b, c, {"episodes"}) /\ EpisodesWhole(c.episodes)
      /\ DOMAIN c.episodes = DOMAIN b.episodes \cup DOMAIN p.episodes
      /\ \A e \in DOMAIN b.episodes \ DOMAIN p.episodes : c.episodes[e] = b.episodes[e]
      /\ \A e \in DOMAIN p.episodes :
           /\ c.episodes[e].number = p.episodes[e].number
           /\ c.episodes[e].runtime = p.episodes[e].runtime
           /\ HomeIs(b.seasons, c.episodes[e].number, c.episodes[e].season)
           /\ c.episodes[e].screened = IF p.series.screened # Absent THEN e \in p.series.screened
                                       ELSE e \in DOMAIN b.episodes /\ b.episodes[e].screened
           /\ c.episodes[e].guests = IF e \in DOMAIN b.episodes THEN b.episodes[e].guests ELSE {}
           /\ c.episodes[e].crew = IF e \in DOMAIN b.episodes THEN b.episodes[e].crew ELSE {}
  BY <1>6, <1>7, UpsertedEpisodes
<1> HIDE DEF c
<1>9. /\ Touches(c, d, {"episodes", "people", "characters", "roles"})
      /\ EpisodesWhole(d.episodes) /\ DOMAIN d.episodes = DOMAIN c.episodes
      /\ \A e \in DOMAIN c.episodes \ DOMAIN p.episodes : d.episodes[e] = c.episodes[e]
      /\ \A e \in DOMAIN c.episodes \cap DOMAIN p.episodes :
           /\ d.episodes[e].guests = IF e \in SpeaksGuests(p) THEN GuestRows(p.episodes[e].guests)
                                     ELSE c.episodes[e].guests
           /\ d.episodes[e].crew = IF e \in SpeaksCrew(p) THEN EpisodeCrewRows(p.episodes[e].crew)
                                   ELSE c.episodes[e].crew
           /\ \A x \in EpisodeColumns \ {"guests", "crew"} : d.episodes[e][x] = c.episodes[e][x]
  <2>1. DOMAIN c = StoreFields /\ EpisodesWhole(c.episodes)
    BY <1>8 DEF Touches
  <2> QED BY <2>1, CreditedEpisodes
<1> HIDE DEF d
<1>10. Touches(d, t, {"last", "next", "runtime"})
  <2>1. DOMAIN d = StoreFields
    BY <1>9 DEF Touches
  <2> QED BY <2>1, PointersTouch
<1> HIDE DEF t
<1>11. /\ DOMAIN t = StoreFields /\ t.seasons = b.seasons /\ t.episodes = d.episodes
       /\ \A f \in {"body", "joins", "creators", "spaces", "cast", "crew", "recommendations"} : t[f] = a[f]
  <2> DEFINE shown == {"body", "joins", "creators", "spaces", "cast", "crew", "recommendations"}
  <2>1. \A f \in shown : b[f] = a[f]
    BY <1>6 DEF Touches, StoreFields
  <2>2. c.seasons = b.seasons /\ \A f \in shown : c[f] = b[f]
    BY <1>8 DEF Touches, StoreFields
  <2>3. d.seasons = c.seasons /\ \A f \in shown : d[f] = c[f]
    BY <1>9 DEF Touches, StoreFields
  <2>4. /\ DOMAIN t = StoreFields /\ t.seasons = d.seasons /\ t.episodes = d.episodes
        /\ \A f \in shown : t[f] = d[f]
    BY <1>10 DEF Touches, StoreFields
  <2> HIDE DEF shown
  <2>5. \A f \in shown : t[f] = a[f]
    BY <2>1, <2>2, <2>3, <2>4
  <2> QED BY <2>2, <2>3, <2>4, <2>5 DEF shown
<1>12. ShowAfter(s, p, on, t)
  BY <1>3, <1>11 DEF ShowAfter
<1>13. SeasonsAfter(s.seasons, p, t.seasons)
  BY <1>3, <1>6, <1>11
<1>14. EpisodesAfter(s.episodes, p, t.seasons, t.episodes)
  <2>1. HomesAfter(s.episodes, b.episodes, DOMAIN t.seasons)
    BY <1>3, <1>6, <1>11
  <2>2. \A e \in DOMAIN s.episodes : s.episodes[e] = [x \in EpisodeColumns |-> s.episodes[e][x]]
    BY DEF Whole, EpisodesWhole
  <2>3. ASSUME NEW e \in DOMAIN s.episodes
        PROVE  /\ b.episodes[e].screened = s.episodes[e].screened
               /\ b.episodes[e].guests = s.episodes[e].guests
               /\ b.episodes[e].crew = s.episodes[e].crew
    BY <2>1, <2>2 DEF HomesAfter, EpisodeColumns
  <2>4. DOMAIN t.episodes = DOMAIN s.episodes \cup DOMAIN p.episodes
    BY <2>1, <1>8, <1>9, <1>11 DEF HomesAfter
  <2>5. \A e \in DOMAIN s.episodes \ DOMAIN p.episodes : t.episodes[e] = b.episodes[e]
    BY <2>1, <1>8, <1>9, <1>11 DEF HomesAfter
  <2>6. ASSUME NEW e \in DOMAIN p.episodes
        PROVE  /\ t.episodes[e].number = c.episodes[e].number /\ t.episodes[e].runtime = c.episodes[e].runtime
               /\ t.episodes[e].season = c.episodes[e].season
               /\ t.episodes[e].screened = c.episodes[e].screened
               /\ t.episodes[e].guests = IF e \in SpeaksGuests(p) THEN GuestRows(p.episodes[e].guests)
                                         ELSE c.episodes[e].guests
               /\ t.episodes[e].crew = IF e \in SpeaksCrew(p) THEN EpisodeCrewRows(p.episodes[e].crew)
                                       ELSE c.episodes[e].crew
    <3>1. e \in DOMAIN c.episodes
      BY <1>8
    <3> QED BY <3>1, <1>9, <1>11 DEF EpisodeColumns
  <2>7. DOMAIN b.episodes = DOMAIN s.episodes
    BY <2>1 DEF HomesAfter
  <2>8. ASSUME NEW e \in DOMAIN p.episodes
        PROVE  /\ t.episodes[e].number = p.episodes[e].number /\ t.episodes[e].runtime = p.episodes[e].runtime
               /\ HomeIs(t.seasons, t.episodes[e].number, t.episodes[e].season)
               /\ t.episodes[e].screened = IF p.series.screened # Absent THEN e \in p.series.screened
                               ELSE e \in DOMAIN s.episodes /\ s.episodes[e].screened
    BY <2>3, <2>6, <2>7, <1>8, <1>11
  <2>9. ASSUME NEW e \in DOMAIN p.episodes
        PROVE  /\ t.episodes[e].guests = IF e \in SpeaksGuests(p) THEN GuestRows(p.episodes[e].guests)
                             ELSE IF e \in DOMAIN s.episodes THEN s.episodes[e].guests ELSE {}
               /\ t.episodes[e].crew = IF e \in SpeaksCrew(p) THEN EpisodeCrewRows(p.episodes[e].crew)
                           ELSE IF e \in DOMAIN s.episodes THEN s.episodes[e].crew ELSE {}
    BY <2>3, <2>6, <2>7, <1>8
  <2> QED BY <2>1, <2>4, <2>5, <2>8, <2>9 DEF EpisodesAfter, HomesAfter
<1>15. Whole(t)
  <2>1. CreatorsWhole(t.creators) /\ SeasonsWhole(t.seasons) /\ EpisodesWhole(t.episodes)
    BY <1>4, <1>6, <1>9, <1>11
  <2>2. Housed(t.episodes, t.seasons)
    <3> SUFFICES ASSUME NEW e \in DOMAIN t.episodes
                 PROVE  t.episodes[e].season \in DOMAIN t.seasons \cup {Null}
      BY DEF Housed
    <3>1. CASE e \in DOMAIN p.episodes
      BY <3>1, <1>14 DEF EpisodesAfter, HomeIs
    <3>2. CASE e \notin DOMAIN p.episodes
      <4>1. e \in DOMAIN s.episodes
        BY <3>2, <1>14 DEF EpisodesAfter
      <4>2. s.episodes[e] = [x \in EpisodeColumns |-> s.episodes[e][x]]
        BY <4>1 DEF Whole, EpisodesWhole
      <4> QED BY <3>2, <4>1, <4>2, <1>14 DEF EpisodesAfter, EpisodeColumns
    <3> QED BY <3>1, <3>2
  <2> QED BY <2>1, <2>2, <1>11 DEF Whole
<1> QED BY <1>1, <1>12, <1>13, <1>14, <1>15

\* A payload without its credits is one.
LEMMA OlderOK ==
    ASSUME NEW p, PayloadOK(p) PROVE PayloadOK(WithoutCredits(p))
<1> DEFINE series == [p.series EXCEPT !.cast = Absent, !.crew = Absent, !.recommendations = Absent]
           details == [n \in DOMAIN p.details |-> [p.details[n] EXCEPT !.regulars = Absent]]
           episodes == [e \in DOMAIN p.episodes |-> [p.episodes[e] EXCEPT !.guests = Absent, !.crew = Absent]]
           q == WithoutCredits(p)
<1>1. /\ DOMAIN q = DOMAIN p /\ q.series = series /\ DOMAIN q.episodes = DOMAIN p.episodes
  BY DEF WithoutCredits, PayloadOK
<1>2. /\ DOMAIN series = DOMAIN p.series
      /\ series.seasons = p.series.seasons /\ series.creators = p.series.creators
      /\ series.spaces = p.series.spaces
      /\ series.cast = Absent /\ series.crew = Absent
  BY DEF PayloadOK
<1> HIDE DEF q, series
<1> QED BY <1>1, <1>2 DEF PayloadOK, q

LEMMA BlankWhole == Whole(Blank)
<1>1. /\ DOMAIN Blank = StoreFields
      /\ Blank.creators = <<>> /\ Blank.seasons = <<>> /\ Blank.episodes = <<>>
  BY DEF Blank, StoreFields
<1>2. DOMAIN <<>> = {}
  OBVIOUS
<1>3. IsFiniteSet({})
  BY FS_EmptySet
<1> QED BY <1>1, <1>2, <1>3 DEF Whole, CreatorsWhole, SeasonsWhole, EpisodesWhole, Housed

\* What a payload writes on a show that has nothing is what it says.
CreditedGiven(p) ==
    LET given == p.series.creators IN {c \in {given[j] : j \in DedupeByCreditId(given)} : c.credit # Null}
LEMMA AloneIs ==
    ASSUME NEW p, PayloadOK(p), p \in Payloads
    PROVE  LET a == Alone[p]
           IN /\ a.body = p.series.body /\ a.joins = p.series.joins
              /\ Credited(a.creators) = CreditedGiven(p)
              /\ \A n \in Namespaces : p.series.spaces[n] # Absent =>
                   a.spaces[n] = LastBy(p.series.spaces[n], "key")
              /\ p.series.cast # Absent => /\ a.cast = CastRows(p.series.cast)
                                           /\ a.crew = CrewRows(p.series.crew)
              /\ DOMAIN a.seasons = SeasonsNamed(p)
              /\ \A k \in SeasonsNamed(p) :
                   /\ a.seasons[k].number = NumberGiven(p, k)
                   /\ k \in SeasonsDetailed(p) => a.seasons[k].networks = NetworksGiven(p, k)
                   /\ k \in SpeaksRegulars(p) => a.seasons[k].regulars = GuestRows(RegularsGiven(p)[k])
              /\ DOMAIN a.episodes = DOMAIN p.episodes
              /\ \A e \in DOMAIN p.episodes :
                   /\ a.episodes[e].number = p.episodes[e].number
                   /\ a.episodes[e].runtime = p.episodes[e].runtime
                   /\ e \in SpeaksGuests(p) => a.episodes[e].guests = GuestRows(p.episodes[e].guests)
                   /\ e \in SpeaksCrew(p) => a.episodes[e].crew = EpisodeCrewRows(p.episodes[e].crew)
<1> DEFINE a == Alone[p]
<1>1. /\ Whole(a) /\ ShowAfter(Blank, p, Targets, a)
      /\ SeasonsAfter(Blank.seasons, p, a.seasons)
      /\ EpisodesAfter(Blank.episodes, p, a.seasons, a.episodes)
  <2>1. a = UpsertSeriesPayload(Blank, p, TRUE, Targets)
    BY DEF Alone
  <2> HIDE DEF a
  <2> QED BY <2>1, BlankWhole, Upserted
<1>2. /\ DOMAIN Blank = StoreFields
      /\ Blank.creators = <<>> /\ Blank.seasons = <<>> /\ Blank.episodes = <<>>
      /\ Blank.spaces = [n \in Namespaces |-> {}]
  BY DEF Blank, StoreFields
<1>3. DOMAIN <<>> = {}
  OBVIOUS
<1>4. Credited(a.creators) = CreditedGiven(p)
  <2>1. a.creators = CreatorsReplaced(Blank.creators, p.series.creators)
    BY <1>1 DEF ShowAfter
  <2>2. CreatorsWhole(Blank.creators)
    BY BlankWhole DEF Whole
  <2> HIDE DEF a
  <2> QED BY <2>1, <2>2, CreatorsAre DEF CreditedGiven, CreatorsWhole, PayloadOK
<1>5. ASSUME NEW n \in Namespaces, p.series.spaces[n] # Absent
      PROVE  a.spaces[n] = LastBy(p.series.spaces[n], "key")
  <2>1. a.spaces = SpacesWritten(Blank, p).spaces
    BY <1>1 DEF ShowAfter
  <2>2. SpacesWritten(Blank, p).spaces[n] = ReplaceRows({}, LastBy(p.series.spaces[n], "key"), n \in UpstreamKeyed)
    BY <1>2, <1>5 DEF SpacesWritten, StoreFields
  <2>3. \A made, keyed : ReplaceRows({}, made, keyed) = made
    BY DEF ReplaceRows
  <2> QED BY <2>1, <2>2, <2>3
<1>6. ASSUME p.series.cast # Absent
      PROVE  a.cast = CastRows(p.series.cast) /\ a.crew = CrewRows(p.series.crew)
  <2>1. a.cast = CreditsWritten(Blank, p).cast /\ a.crew = CreditsWritten(Blank, p).crew
    BY <1>1 DEF ShowAfter
  <2>2. /\ CreditsWritten(Blank, p).cast = CastRows(p.series.cast)
        /\ CreditsWritten(Blank, p).crew = CrewRows(p.series.crew)
    BY <1>2, <1>6 DEF CreditsWritten, WithCredits, StoreFields
  <2> QED BY <2>1, <2>2
<1> HIDE DEF a
<1> QED BY <1>1, <1>2, <1>3, <1>4, <1>5, <1>6 DEF a, ShowAfter, SeasonsAfter, EpisodesAfter

-----------------------------------------------------------------------------
(* One vintage                                                             *)

Blocks == {"spine", "cast", "crew", "recommendations", "spaces", "screened", "networks",
           "regulars", "guests", "episodeCrew"}

SpineAgrees(s, spine) ==
    /\ s.body = spine.body /\ s.joins = spine.joins
    /\ Credited(s.creators) = spine.creators
    /\ DOMAIN s.seasons \ LegacySeasons = DOMAIN spine.numbers
    /\ \A k \in DOMAIN spine.numbers : s.seasons[k].number = spine.numbers[k]
    /\ \A e \in DOMAIN spine.episodes :
         /\ e \in DOMAIN s.episodes
         /\ s.episodes[e].number = spine.episodes[e].number
         /\ s.episodes[e].runtime = spine.episodes[e].runtime
HomesAgree(s, spine) ==
    \A e \in DOMAIN spine.episodes : HomeIs(s.seasons, s.episodes[e].number, s.episodes[e].season)

EpisodesAgree(episodes, g) ==
    \A e \in EpisodeIds :
        IF e \in DOMAIN episodes
        THEN /\ episodes[e].guests = g.guests[e] /\ episodes[e].crew = g.episodeCrew[e]
             /\ episodes[e].screened = (e \in g.screened)
        ELSE g.guests[e] = {} /\ g.episodeCrew[e] = {} /\ e \notin g.screened
\* What a block says of TMDB's seasons; of one it does not name nothing is stored.
SeasonsAgree(seasons, column, said) ==
    /\ DOMAIN said \subseteq SeasonIds \cap DOMAIN seasons
    /\ \A k \in SeasonIds \cap DOMAIN seasons :
         seasons[k][column] = IF k \in DOMAIN said THEN said[k] ELSE {}

\* Inductive: the rows of a show and what was last said of them.
Agrees(s, g) ==
    /\ Whole(s) /\ DOMAIN g = Blocks
    /\ g.spine # NoVersion => SpineAgrees(s, g.spine) /\ HomesAgree(s, g.spine)
    /\ [n \in Namespaces |-> UpstreamEntries(s.spaces[n])] = g.spaces
    /\ s.cast = g.cast /\ s.crew = g.crew
    /\ s.recommendations = g.recommendations
    /\ EpisodesAgree(s.episodes, g)
    /\ SeasonsAgree(s.seasons, "networks", g.networks)
    /\ SeasonsAgree(s.seasons, "regulars", g.regulars)

LEMMA SaidAgrees ==
    ASSUME NEW old, NEW new, NEW column, NEW said, SeasonsAgree(old, column, said),
           NEW spoken, NEW says,
           \A k \in SeasonIds \cap DOMAIN new :
               new[k][column] = IF k \in spoken THEN says[k]
                                ELSE IF k \in DOMAIN old THEN old[k][column] ELSE {}
    PROVE  SeasonsAgree(new, column, Said(said, DOMAIN new, spoken, says))
<1> DEFINE t == Said(said, DOMAIN new, spoken, says)
<1>1. /\ DOMAIN t = DOMAIN new \cap SeasonIds
      /\ \A k \in DOMAIN new \cap SeasonIds :
           t[k] = IF k \in spoken THEN says[k] ELSE IF k \in DOMAIN said THEN said[k] ELSE {}
  BY DEF Said
<1> HIDE DEF t
<1>2. ASSUME NEW k \in SeasonIds \cap DOMAIN new PROVE new[k][column] = t[k]
  BY <1>1 DEF SeasonsAgree
<1> QED BY <1>1, <1>2 DEF SeasonsAgree, t

LEMMA SpineKept ==
    ASSUME NEW s, Whole(s), NEW p, PayloadOK(p), p \in Payloads
    PROVE  LET t == UpsertSeriesPayload(s, p, TRUE, live)
           IN SpineAgrees(t, Spine(Alone[p])) /\ HomesAgree(t, Spine(Alone[p]))
<1> DEFINE t == UpsertSeriesPayload(s, p, TRUE, live)
           a == Alone[p]
           spine == Spine(a)
<1>1. /\ ShowAfter(s, p, live, t) /\ SeasonsAfter(s.seasons, p, t.seasons)
      /\ EpisodesAfter(s.episodes, p, t.seasons, t.episodes) /\ Whole(t)
  BY Upserted
<1>2. /\ a.body = p.series.body /\ a.joins = p.series.joins
      /\ Credited(a.creators) = CreditedGiven(p)
      /\ DOMAIN a.seasons = SeasonsNamed(p)
      /\ \A k \in SeasonsNamed(p) : a.seasons[k].number = NumberGiven(p, k)
      /\ DOMAIN a.episodes = DOMAIN p.episodes
      /\ \A e \in DOMAIN p.episodes : /\ a.episodes[e].number = p.episodes[e].number
                                      /\ a.episodes[e].runtime = p.episodes[e].runtime
  BY AloneIs
<1> HIDE DEF a, t
<1>3. /\ spine.body = a.body /\ spine.joins = a.joins /\ spine.creators = Credited(a.creators)
      /\ DOMAIN spine.numbers = DOMAIN a.seasons
      /\ \A k \in DOMAIN a.seasons : spine.numbers[k] = a.seasons[k].number
      /\ DOMAIN spine.episodes = DOMAIN a.episodes
      /\ \A e \in DOMAIN a.episodes : /\ spine.episodes[e].number = a.episodes[e].number
                                      /\ spine.episodes[e].runtime = a.episodes[e].runtime
  BY DEF Spine
<1> HIDE DEF spine
<1>4. Credited(t.creators) = CreditedGiven(p)
  <2>1. t.creators = CreatorsReplaced(s.creators, p.series.creators)
    BY <1>1 DEF ShowAfter
  <2> QED BY <2>1, CreatorsAre DEF CreditedGiven, Whole, CreatorsWhole, PayloadOK
<1>5. DOMAIN t.seasons \ LegacySeasons = SeasonsNamed(p)
  BY <1>1, NamedAre, PayloadStoreAssumption DEF SeasonsAfter
<1>6. SpineAgrees(t, spine)
  BY <1>1, <1>2, <1>3, <1>4, <1>5 DEF SpineAgrees, ShowAfter, SeasonsAfter, EpisodesAfter
<1>7. HomesAgree(t, spine)
  BY <1>1, <1>2, <1>3 DEF HomesAgree, EpisodesAfter
<1> QED BY <1>6, <1>7 DEF spine, a, t

LEMMA SpacesKept ==
    ASSUME NEW s, DOMAIN s = StoreFields, NEW p, PayloadOK(p), NEW n \in Namespaces
    PROVE  LET new == SpacesWritten(s, p).spaces
           IN /\ UpstreamEntries(new[n]) = IF p.series.spaces[n] = Absent THEN UpstreamEntries(s.spaces[n])
                                           ELSE LastBy(p.series.spaces[n], "key")
              /\ n \in UpstreamKeyed => {r \in new[n] : r.key = Null} = {r \in s.spaces[n] : r.key = Null}
<1> DEFINE new == SpacesWritten(s, p).spaces
           given == p.series.spaces[n]
           last == LastBy(given, "key")
<1>1. new[n] = IF given = Absent THEN s.spaces[n] ELSE ReplaceRows(s.spaces[n], last, n \in UpstreamKeyed)
  BY DEF SpacesWritten, StoreFields
<1> HIDE DEF new
<1>2. CASE given = Absent
  BY <1>1, <1>2 DEF new
<1>3. CASE given # Absent
  <2>1. \A r \in last : r.key # Null
    <3>1. given \in Seq(Entry)
      BY <1>3 DEF PayloadOK, OrAbsent
    <3>2. \A i \in DOMAIN given : given[i] \in Entry
      BY <3>1
    <3> HIDE DEF given
    <3>3. last \subseteq Entry
      BY <3>2 DEF LastBy
    <3> HIDE DEF last
    <3> QED BY <3>3, PayloadStoreAssumption DEF Entry
  <2> HIDE DEF last
  <2>2. \A r \in ReplaceRows(s.spaces[n], last, n \in UpstreamKeyed) :
           r \in last \/ (r \in s.spaces[n] /\ r.key = Null /\ n \in UpstreamKeyed)
    BY DEF ReplaceRows
  <2>3. \A r : r \in last \/ (r \in s.spaces[n] /\ r.key = Null /\ n \in UpstreamKeyed)
              => r \in ReplaceRows(s.spaces[n], last, n \in UpstreamKeyed)
    BY DEF ReplaceRows
  <2>4. UpstreamEntries(new[n]) = last
    BY <1>1, <1>3, <2>1, <2>2, <2>3 DEF UpstreamEntries
  <2>5. n \in UpstreamKeyed => {r \in new[n] : r.key = Null} = {r \in s.spaces[n] : r.key = Null}
    BY <1>1, <1>3, <2>1, <2>2, <2>3
  <2> QED BY <1>3, <2>4, <2>5 DEF new, last
<1> QED BY <1>2, <1>3

\* The vintage h that a payload leaves of g, with what it writes alone, a.
VintageAfter(g, p, s, a, h) ==
    /\ DOMAIN h = Blocks /\ h.spine = Spine(a)
    /\ h.spaces = [n \in Namespaces |-> IF p.series.spaces[n] = Absent THEN g.spaces[n] ELSE a.spaces[n]]
    /\ h.cast = IF p.series.cast = Absent THEN g.cast ELSE a.cast
    /\ h.crew = IF p.series.cast = Absent THEN g.crew ELSE a.crew
    /\ h.recommendations = IF p.series.recommendations = Absent THEN g.recommendations
                           ELSE WriteSeriesRecommendations(Blank, p, live).recommendations
    /\ h.networks = Said(g.networks, DOMAIN s.seasons, SeasonsDetailed(p),
                         [k \in DOMAIN a.seasons |-> a.seasons[k].networks])
    /\ h.regulars = Said(g.regulars, DOMAIN s.seasons, SpeaksRegulars(p),
                         [k \in DOMAIN a.seasons |-> a.seasons[k].regulars])
    /\ h.screened = IF p.series.screened = Absent THEN g.screened
                    ELSE (g.screened \ DOMAIN p.episodes) \cup (p.series.screened \cap DOMAIN p.episodes)
    /\ \A e \in EpisodeIds :
         /\ h.guests[e] = IF e \in SpeaksGuests(p) \cap DOMAIN s.episodes THEN a.episodes[e].guests
                          ELSE g.guests[e]
         /\ h.episodeCrew[e] = IF e \in SpeaksCrew(p) \cap DOMAIN s.episodes THEN a.episodes[e].crew
                               ELSE g.episodeCrew[e]

LEMMA MirrorVintageIs ==
    ASSUME NEW g, DOMAIN g = Blocks, NEW p, PayloadOK(p), NEW s
    PROVE  VintageAfter(g, p, s, Alone[p], MirrorVintage(g, p, s))
<1> DEFINE a == Alone[p]
           x == SpineVintage(g, p, DOMAIN s.seasons)
           y == CreditsVintage(x, p, DOMAIN s.episodes)
           z == RecommendationsVintage(y, p)
           h == RegularsVintage(z, p, DOMAIN s.seasons)
<1>1. /\ DOMAIN x = Blocks /\ x.spine = Spine(a)
      /\ x.spaces = [n \in Namespaces |-> IF p.series.spaces[n] = Absent THEN g.spaces[n] ELSE a.spaces[n]]
      /\ x.networks = Said(g.networks, DOMAIN s.seasons, SeasonsDetailed(p),
                           [k \in DOMAIN a.seasons |-> a.seasons[k].networks])
      /\ x.screened = IF p.series.screened = Absent THEN g.screened
                      ELSE (g.screened \ DOMAIN p.episodes) \cup (p.series.screened \cap DOMAIN p.episodes)
      /\ \A f \in {"cast", "crew", "recommendations", "regulars", "guests", "episodeCrew"} : x[f] = g[f]
  <2> HIDE DEF a
  <2> QED BY DEF SpineVintage, Blocks, a
<1> HIDE DEF x
<1>2. /\ DOMAIN y = Blocks
      /\ y.cast = IF p.series.cast = Absent THEN x.cast ELSE a.cast
      /\ y.crew = IF p.series.cast = Absent THEN x.crew ELSE a.crew
      /\ \A e \in EpisodeIds :
           /\ y.guests[e] = IF e \in SpeaksGuests(p) \cap DOMAIN s.episodes THEN a.episodes[e].guests
                            ELSE x.guests[e]
           /\ y.episodeCrew[e] = IF e \in SpeaksCrew(p) \cap DOMAIN s.episodes THEN a.episodes[e].crew
                                 ELSE x.episodeCrew[e]
      /\ \A f \in {"spine", "spaces", "networks", "screened", "recommendations", "regulars"} : y[f] = x[f]
  <2> HIDE DEF a
  <2> QED BY <1>1 DEF CreditsVintage, Blocks, a
<1> HIDE DEF y
<1>3. /\ DOMAIN z = Blocks
      /\ z.recommendations = IF p.series.recommendations = Absent THEN y.recommendations
                             ELSE WriteSeriesRecommendations(Blank, p, live).recommendations
      /\ \A f \in Blocks \ {"recommendations"} : z[f] = y[f]
  BY <1>2 DEF RecommendationsVintage, Blocks
<1> HIDE DEF z
<1>4. /\ DOMAIN h = Blocks
      /\ h.regulars = Said(z.regulars, DOMAIN s.seasons, SpeaksRegulars(p),
                           [k \in DOMAIN a.seasons |-> a.seasons[k].regulars])
      /\ \A f \in Blocks \ {"regulars"} : h[f] = z[f]
  <2> HIDE DEF a
  <2> QED BY <1>3 DEF RegularsVintage, Blocks, a
<1>5. h = MirrorVintage(g, p, s)
  BY DEF MirrorVintage, x, y, z
<1> HIDE DEF h, a
<1>6. DOMAIN h = Blocks /\ h.spine = Spine(a) /\ h.spaces = x.spaces /\ h.networks = x.networks
      /\ h.screened = x.screened /\ h.cast = y.cast /\ h.crew = y.crew
      /\ h.guests = y.guests /\ h.episodeCrew = y.episodeCrew
      /\ h.recommendations = z.recommendations /\ y.recommendations = g.recommendations
      /\ z.regulars = g.regulars
      /\ x.cast = g.cast /\ x.crew = g.crew /\ x.guests = g.guests /\ x.episodeCrew = g.episodeCrew
  BY <1>1, <1>2, <1>3, <1>4 DEF Blocks
<1>7. VintageAfter(g, p, s, a, h)
  BY <1>1, <1>2, <1>3, <1>4, <1>6 DEF VintageAfter
<1> QED BY <1>5, <1>7 DEF a

\* What h says of the episodes once p has been written over g.
EpisodesSaid(g, p, h) ==
    /\ h.screened = IF p.series.screened = Absent THEN g.screened
                    ELSE (g.screened \ DOMAIN p.episodes) \cup (p.series.screened \cap DOMAIN p.episodes)
    /\ \A e \in EpisodeIds :
         /\ h.guests[e] = IF e \in SpeaksGuests(p) THEN GuestRows(p.episodes[e].guests) ELSE g.guests[e]
         /\ h.episodeCrew[e] = IF e \in SpeaksCrew(p) THEN EpisodeCrewRows(p.episodes[e].crew)
                               ELSE g.episodeCrew[e]

LEMMA EpisodesKept ==
    ASSUME NEW old, EpisodesWhole(old), NEW g, EpisodesAgree(old, g),
           NEW p, PayloadOK(p), NEW seasons, NEW new, EpisodesAfter(old, p, seasons, new),
           NEW h, EpisodesSaid(g, p, h)
    PROVE  EpisodesAgree(new, h)
<1>1. SUFFICES ASSUME NEW e \in EpisodeIds
               PROVE  IF e \in DOMAIN new
                      THEN /\ new[e].guests = h.guests[e] /\ new[e].crew = h.episodeCrew[e]
                           /\ new[e].screened = (e \in h.screened)
                      ELSE h.guests[e] = {} /\ h.episodeCrew[e] = {} /\ e \notin h.screened
  BY DEF EpisodesAgree
<1>2. SpeaksGuests(p) \subseteq DOMAIN p.episodes /\ SpeaksCrew(p) \subseteq DOMAIN p.episodes
  BY DEF SpeaksGuests, SpeaksCrew
<1>3. CASE e \in DOMAIN p.episodes
  <2>1. e \in DOMAIN new
    BY <1>3 DEF EpisodesAfter
  <2>2. new[e].guests = h.guests[e] /\ new[e].crew = h.episodeCrew[e]
    BY <1>3 DEF EpisodesAfter, EpisodesAgree, EpisodesSaid
  <2>3. new[e].screened = (e \in h.screened)
    <3>1. new[e].screened = IF p.series.screened # Absent THEN e \in p.series.screened
                            ELSE e \in DOMAIN old /\ old[e].screened
      BY <1>3 DEF EpisodesAfter
    <3>2. (e \in DOMAIN old /\ old[e].screened) <=> (e \in g.screened)
      <4>1. CASE e \in DOMAIN old
        <5>1. old[e].screened = (e \in g.screened)
          BY <4>1 DEF EpisodesAgree
        <5> QED BY <4>1, <5>1
      <4>2. CASE e \notin DOMAIN old
        BY <4>2 DEF EpisodesAgree
      <4> QED BY <4>1, <4>2
    <3>3. (e \in h.screened) = IF p.series.screened # Absent THEN e \in p.series.screened ELSE e \in g.screened
      BY <1>3 DEF EpisodesSaid
    <3> QED BY <3>1, <3>2, <3>3
  <2> QED BY <2>1, <2>2, <2>3
<1>4. CASE e \in DOMAIN old \ DOMAIN p.episodes
  <2>1. old[e] = [c \in EpisodeColumns |-> old[e][c]]
    BY <1>4 DEF EpisodesWhole
  <2>2. e \in DOMAIN new /\ \A c \in {"guests", "crew", "screened"} : new[e][c] = old[e][c]
    BY <1>4, <2>1 DEF EpisodesAfter, EpisodeColumns
  <2> QED BY <1>2, <1>4, <2>2 DEF EpisodesAgree, EpisodesSaid
<1>5. CASE e \notin DOMAIN old \cup DOMAIN p.episodes
  BY <1>2, <1>5 DEF EpisodesAfter, EpisodesAgree, EpisodesSaid
<1> QED BY <1>3, <1>4, <1>5

LEMMA MirrorAgrees ==
    ASSUME NEW s, NEW g, Agrees(s, g), NEW p, PayloadOK(p), p \in Payloads
    PROVE  LET t == UpsertSeriesPayload(s, p, TRUE, live) IN Agrees(t, MirrorVintage(g, p, t))
<1> DEFINE t == UpsertSeriesPayload(s, p, TRUE, live)
           h == MirrorVintage(g, p, t)
           a == Alone[p]
<1>1. Whole(s) /\ DOMAIN s = StoreFields /\ DOMAIN g = Blocks
  BY DEF Agrees, Whole
<1>2. /\ Whole(t) /\ ShowAfter(s, p, live, t) /\ SeasonsAfter(s.seasons, p, t.seasons)
      /\ EpisodesAfter(s.episodes, p, t.seasons, t.episodes)
  BY <1>1, Upserted
<1>3. SpineAgrees(t, Spine(a)) /\ HomesAgree(t, Spine(a))
  BY <1>1, SpineKept
<1> HIDE DEF t
<1>4. VintageAfter(g, p, t, a, h)
  BY <1>1, MirrorVintageIs
<1>5. /\ \A n \in Namespaces : p.series.spaces[n] # Absent => a.spaces[n] = LastBy(p.series.spaces[n], "key")
      /\ p.series.cast # Absent => a.cast = CastRows(p.series.cast) /\ a.crew = CrewRows(p.series.crew)
      /\ DOMAIN a.seasons = SeasonsNamed(p)
      /\ \A k \in SeasonsNamed(p) :
           /\ k \in SeasonsDetailed(p) => a.seasons[k].networks = NetworksGiven(p, k)
           /\ k \in SpeaksRegulars(p) => a.seasons[k].regulars = GuestRows(RegularsGiven(p)[k])
      /\ DOMAIN a.episodes = DOMAIN p.episodes
      /\ \A e \in DOMAIN p.episodes :
           /\ e \in SpeaksGuests(p) => a.episodes[e].guests = GuestRows(p.episodes[e].guests)
           /\ e \in SpeaksCrew(p) => a.episodes[e].crew = EpisodeCrewRows(p.episodes[e].crew)
  BY AloneIs
<1> HIDE DEF h, a
<1>6. [n \in Namespaces |-> UpstreamEntries(t.spaces[n])] = h.spaces
  <2>1. ASSUME NEW n \in Namespaces
        PROVE  UpstreamEntries(t.spaces[n]) = IF p.series.spaces[n] = Absent THEN g.spaces[n] ELSE a.spaces[n]
    <3>1. t.spaces = SpacesWritten(s, p).spaces
      BY <1>2 DEF ShowAfter
    <3>2. UpstreamEntries(s.spaces[n]) = g.spaces[n]
      BY DEF Agrees
    <3>3. UpstreamEntries(t.spaces[n]) = IF p.series.spaces[n] = Absent THEN UpstreamEntries(s.spaces[n])
                                         ELSE LastBy(p.series.spaces[n], "key")
      BY <1>1, <3>1, SpacesKept
    <3> QED BY <3>2, <3>3, <1>5
  <2> QED BY <2>1, <1>4 DEF VintageAfter
<1>7. t.cast = h.cast /\ t.crew = h.crew
  <2>1. t.cast = CreditsWritten(s, p).cast /\ t.crew = CreditsWritten(s, p).crew
    BY <1>2 DEF ShowAfter
  <2>2. CASE p.series.cast = Absent
    BY <1>4, <2>1, <2>2 DEF CreditsWritten, Agrees, VintageAfter
  <2>3. CASE p.series.cast # Absent
    <3>1. /\ CreditsWritten(s, p).cast = CastRows(p.series.cast)
          /\ CreditsWritten(s, p).crew = CrewRows(p.series.crew)
      BY <1>1, <2>3 DEF CreditsWritten, WithCredits, StoreFields
    <3> QED BY <1>4, <1>5, <2>1, <2>3, <3>1 DEF VintageAfter
  <2> QED BY <2>2, <2>3
<1>8. t.recommendations = h.recommendations
  <2>1. t.recommendations = RecommendationsWritten(s, p, live).recommendations
    BY <1>2 DEF ShowAfter
  <2>2. DOMAIN Blank = StoreFields
    BY DEF Blank, StoreFields
  <2>3. RecommendationsWritten(s, p, live).recommendations =
            IF p.series.recommendations = Absent THEN s.recommendations
            ELSE WriteSeriesRecommendations(Blank, p, live).recommendations
    BY <1>1, <2>2 DEF RecommendationsWritten, WriteSeriesRecommendations, StoreFields
  <2> QED BY <1>4, <2>1, <2>3 DEF Agrees, VintageAfter
<1>9. EpisodesAgree(t.episodes, h)
  <2>1. DOMAIN p.episodes \subseteq DOMAIN t.episodes
    BY <1>2 DEF EpisodesAfter
  <2>2. SpeaksGuests(p) \subseteq DOMAIN p.episodes /\ SpeaksCrew(p) \subseteq DOMAIN p.episodes
    BY DEF SpeaksGuests, SpeaksCrew
  <2>3. \A e \in EpisodeIds :
          /\ h.guests[e] = IF e \in SpeaksGuests(p) THEN GuestRows(p.episodes[e].guests) ELSE g.guests[e]
          /\ h.episodeCrew[e] = IF e \in SpeaksCrew(p) THEN EpisodeCrewRows(p.episodes[e].crew)
                                ELSE g.episodeCrew[e]
    BY <1>4, <1>5, <2>1, <2>2 DEF VintageAfter
  <2>4. EpisodesWhole(s.episodes) /\ EpisodesAgree(s.episodes, g)
    BY DEF Agrees, Whole
  <2>5. h.screened = IF p.series.screened = Absent THEN g.screened
                     ELSE (g.screened \ DOMAIN p.episodes) \cup (p.series.screened \cap DOMAIN p.episodes)
    BY <1>4 DEF VintageAfter
  <2>6. EpisodesAfter(s.episodes, p, t.seasons, t.episodes)
    BY <1>2
  <2>7. EpisodesSaid(g, p, h)
    BY <2>3, <2>5 DEF EpisodesSaid
  <2> QED BY <2>4, <2>6, <2>7, EpisodesKept
<1>10. SeasonsAgree(t.seasons, "networks", h.networks) /\ SeasonsAgree(t.seasons, "regulars", h.regulars)
  <2>1. \A k \in SeasonIds \cap DOMAIN t.seasons : k \in SeasonsNamed(p)
    BY <1>2, PayloadStoreAssumption DEF SeasonsAfter
  <2>2. SpeaksRegulars(p) \subseteq SeasonsNamed(p) /\ SeasonsDetailed(p) \subseteq SeasonsNamed(p)
    BY DEF SpeaksRegulars, RegularsGiven, SeasonsDetailed
  <2> DEFINE nets == [k \in DOMAIN a.seasons |-> a.seasons[k].networks]
             regs == [k \in DOMAIN a.seasons |-> a.seasons[k].regulars]
  <2>3. \A k \in SeasonIds \cap DOMAIN t.seasons :
           t.seasons[k]["networks"] = IF k \in SeasonsDetailed(p) THEN nets[k]
                                      ELSE IF k \in DOMAIN s.seasons THEN s.seasons[k]["networks"] ELSE {}
    BY <1>2, <1>5, <2>1, <2>2 DEF SeasonsAfter
  <2>4. \A k \in SeasonIds \cap DOMAIN t.seasons :
           t.seasons[k]["regulars"] = IF k \in SpeaksRegulars(p) THEN regs[k]
                                      ELSE IF k \in DOMAIN s.seasons THEN s.seasons[k]["regulars"] ELSE {}
    BY <1>2, <1>5, <2>1, <2>2 DEF SeasonsAfter
  <2>5. SeasonsAgree(s.seasons, "networks", g.networks) /\ SeasonsAgree(s.seasons, "regulars", g.regulars)
    BY DEF Agrees
  <2>6. h.networks = Said(g.networks, DOMAIN t.seasons, SeasonsDetailed(p), nets)
        /\ h.regulars = Said(g.regulars, DOMAIN t.seasons, SpeaksRegulars(p), regs)
    BY <1>4 DEF VintageAfter
  <2> HIDE DEF nets, regs
  <2>7. SeasonsAgree(t.seasons, "networks", h.networks)
    BY <2>3, <2>5, <2>6, SaidAgrees
  <2>8. SeasonsAgree(t.seasons, "regulars", h.regulars)
    BY <2>4, <2>5, <2>6, SaidAgrees
  <2> QED BY <2>7, <2>8
<1>11. Agrees(t, h)
  BY <1>2, <1>3, <1>4, <1>6, <1>7, <1>8, <1>9, <1>10 DEF Agrees, VintageAfter
<1> QED BY <1>11 DEF h, t

\* What the narrow writers leave alone.
SpineStays(s, t) ==
    /\ t.body = s.body /\ t.joins = s.joins /\ t.creators = s.creators
    /\ DOMAIN t.seasons = DOMAIN s.seasons
    /\ \A k \in DOMAIN s.seasons : t.seasons[k].number = s.seasons[k].number
    /\ DOMAIN t.episodes = DOMAIN s.episodes
    /\ \A e \in DOMAIN s.episodes : \A c \in {"season", "number", "runtime"} :
         t.episodes[e][c] = s.episodes[e][c]

LEMMA SpineAgreesStill ==
    ASSUME NEW s, NEW t, SpineStays(s, t), NEW spine, SpineAgrees(s, spine), HomesAgree(s, spine)
    PROVE  SpineAgrees(t, spine) /\ HomesAgree(t, spine)
<1>1. SpineAgrees(t, spine)
  <2>1. \A k \in DOMAIN spine.numbers : k \in DOMAIN s.seasons
    BY DEF SpineAgrees
  <2> QED BY <2>1 DEF SpineAgrees, SpineStays
<1>2. HomesAgree(t, spine)
  <2> SUFFICES ASSUME NEW e \in DOMAIN spine.episodes
               PROVE  HomeIs(t.seasons, t.episodes[e].number, t.episodes[e].season)
    BY DEF HomesAgree
  <2>1. e \in DOMAIN s.episodes
    BY DEF SpineAgrees
  <2>2. t.episodes[e].number = s.episodes[e].number /\ t.episodes[e].season = s.episodes[e].season
    BY <2>1 DEF SpineStays
  <2>3. HomeIs(s.seasons, s.episodes[e].number, s.episodes[e].season)
    BY DEF HomesAgree
  <2>4. DOMAIN t.seasons = DOMAIN s.seasons
        /\ \A k \in DOMAIN s.seasons : t.seasons[k].number = s.seasons[k].number
    BY DEF SpineStays
  <2> QED BY <2>2, <2>3, <2>4 DEF HomeIs
<1> QED BY <1>1, <1>2

LEMMA SeriesCreditsAgree ==
    ASSUME NEW s, NEW g, Agrees(s, g), NEW p, PayloadOK(p), p \in Payloads
    PROVE  /\ Agrees(WriteSeriesCredits(s, p), CreditsVintage(g, p, DOMAIN s.episodes))
           /\ Touches(s, WriteSeriesCredits(s, p),
                      {"cast", "crew", "episodes", "people", "characters", "roles"})
           /\ DOMAIN WriteSeriesCredits(s, p).episodes = DOMAIN s.episodes
           /\ \A e \in DOMAIN s.episodes \ EpisodeIds :
                WriteSeriesCredits(s, p).episodes[e] = s.episodes[e]
<1> DEFINE b == CreditsWritten(s, p)
           t == EpisodeCreditsWritten(b, p)
           h == CreditsVintage(g, p, DOMAIN s.episodes)
           a == Alone[p]
<1>1. Whole(s) /\ DOMAIN s = StoreFields /\ DOMAIN g = Blocks
  BY DEF Agrees, Whole
<1>2. Touches(s, b, {"cast", "crew", "people", "characters", "roles"})
  BY <1>1 DEF CreditsWritten, WithCredits, Touches, StoreFields
<1>3. /\ b.cast = IF p.series.cast = Absent THEN s.cast ELSE CastRows(p.series.cast)
      /\ b.crew = IF p.series.cast = Absent THEN s.crew ELSE CrewRows(p.series.crew)
  BY <1>1 DEF CreditsWritten, WithCredits, StoreFields
<1> HIDE DEF b
<1>4. DOMAIN b = StoreFields /\ b.episodes = s.episodes /\ EpisodesWhole(b.episodes)
  BY <1>1, <1>2 DEF Touches, Whole, StoreFields
<1>5. /\ Touches(b, t, {"episodes", "people", "characters", "roles"})
      /\ EpisodesWhole(t.episodes) /\ DOMAIN t.episodes = DOMAIN b.episodes
      /\ \A e \in DOMAIN b.episodes \ DOMAIN p.episodes : t.episodes[e] = b.episodes[e]
      /\ \A e \in DOMAIN b.episodes \cap DOMAIN p.episodes :
           /\ t.episodes[e].guests = IF e \in SpeaksGuests(p) THEN GuestRows(p.episodes[e].guests)
                                     ELSE b.episodes[e].guests
           /\ t.episodes[e].crew = IF e \in SpeaksCrew(p) THEN EpisodeCrewRows(p.episodes[e].crew)
                                   ELSE b.episodes[e].crew
           /\ \A c \in EpisodeColumns \ {"guests", "crew"} : t.episodes[e][c] = b.episodes[e][c]
  BY <1>4, CreditedEpisodes
<1> HIDE DEF t
<1>6. Touches(s, t, {"cast", "crew", "episodes", "people", "characters", "roles"})
  BY <1>2, <1>5 DEF Touches, StoreFields
<1>7. t.seasons = s.seasons /\ t.cast = b.cast /\ t.crew = b.crew /\ t.spaces = s.spaces
      /\ t.recommendations = s.recommendations /\ DOMAIN t = StoreFields
  BY <1>2, <1>5, <1>6 DEF Touches, StoreFields
<1>8. \A e \in DOMAIN s.episodes : \A c \in EpisodeColumns \ {"guests", "crew"} :
          t.episodes[e][c] = s.episodes[e][c]
  BY <1>4, <1>5
<1>9. Whole(t)
  <2>1. Housed(t.episodes, t.seasons)
    BY <1>1, <1>4, <1>5, <1>7, <1>8 DEF Housed, Whole, EpisodeColumns
  <2>2. t.creators = s.creators
    BY <1>6 DEF Touches, StoreFields
  <2> QED BY <1>1, <1>5, <1>7, <2>1, <2>2 DEF Whole
<1>10. SpineStays(s, t)
  <2>1. t.body = s.body /\ t.joins = s.joins /\ t.creators = s.creators
    BY <1>6 DEF Touches, StoreFields
  <2> QED BY <1>4, <1>5, <1>7, <1>8, <2>1 DEF SpineStays, EpisodeColumns
<1>11. /\ DOMAIN h = Blocks
       /\ h.cast = IF p.series.cast = Absent THEN g.cast ELSE a.cast
       /\ h.crew = IF p.series.cast = Absent THEN g.crew ELSE a.crew
       /\ \A e \in EpisodeIds :
            /\ h.guests[e] = IF e \in SpeaksGuests(p) \cap DOMAIN s.episodes THEN a.episodes[e].guests
                             ELSE g.guests[e]
            /\ h.episodeCrew[e] = IF e \in SpeaksCrew(p) \cap DOMAIN s.episodes THEN a.episodes[e].crew
                                  ELSE g.episodeCrew[e]
       /\ \A f \in {"spine", "spaces", "networks", "screened", "recommendations", "regulars"} : h[f] = g[f]
  <2> HIDE DEF a
  <2> QED BY <1>1 DEF CreditsVintage, Blocks, a
<1>12. /\ p.series.cast # Absent => a.cast = CastRows(p.series.cast) /\ a.crew = CrewRows(p.series.crew)
       /\ \A e \in DOMAIN p.episodes :
            /\ e \in SpeaksGuests(p) => a.episodes[e].guests = GuestRows(p.episodes[e].guests)
            /\ e \in SpeaksCrew(p) => a.episodes[e].crew = EpisodeCrewRows(p.episodes[e].crew)
  BY AloneIs
<1> HIDE DEF a, h
<1>13. t.cast = h.cast /\ t.crew = h.crew
  BY <1>3, <1>7, <1>11, <1>12 DEF Agrees
<1>14. EpisodesAgree(t.episodes, h)
  <2> SUFFICES ASSUME NEW e \in EpisodeIds
               PROVE  IF e \in DOMAIN t.episodes
                      THEN /\ t.episodes[e].guests = h.guests[e] /\ t.episodes[e].crew = h.episodeCrew[e]
                           /\ t.episodes[e].screened = (e \in h.screened)
                      ELSE h.guests[e] = {} /\ h.episodeCrew[e] = {} /\ e \notin h.screened
    BY DEF EpisodesAgree
  <2>1. SpeaksGuests(p) \subseteq DOMAIN p.episodes /\ SpeaksCrew(p) \subseteq DOMAIN p.episodes
    BY DEF SpeaksGuests, SpeaksCrew
  <2>2. DOMAIN t.episodes = DOMAIN s.episodes /\ h.screened = g.screened
    BY <1>4, <1>5, <1>11
  <2>3. EpisodesAgree(s.episodes, g)
    BY DEF Agrees
  <2>4. CASE e \in DOMAIN s.episodes
    <3>1. t.episodes[e].screened = (e \in h.screened)
      <4>1. t.episodes[e].screened = s.episodes[e].screened
        BY <1>8, <2>4 DEF EpisodeColumns
      <4>2. s.episodes[e].screened = (e \in g.screened)
        BY <2>3, <2>4 DEF EpisodesAgree
      <4> QED BY <2>2, <4>1, <4>2
    <3>2. s.episodes[e].guests = g.guests[e] /\ s.episodes[e].crew = g.episodeCrew[e]
      BY <2>3, <2>4 DEF EpisodesAgree
    <3>3. t.episodes[e].guests = h.guests[e] /\ t.episodes[e].crew = h.episodeCrew[e]
      BY <1>4, <1>5, <1>11, <1>12, <2>1, <2>4, <3>2
    <3> QED BY <2>2, <2>4, <3>1, <3>3
  <2>5. CASE e \notin DOMAIN s.episodes
    BY <1>11, <2>2, <2>3, <2>5 DEF EpisodesAgree
  <2> QED BY <2>4, <2>5
<1>15. Agrees(t, h)
  <2>1. h.spine # NoVersion => SpineAgrees(t, h.spine) /\ HomesAgree(t, h.spine)
    BY <1>10, <1>11, SpineAgreesStill DEF Agrees
  <2>2. h.spaces = g.spaces /\ h.recommendations = g.recommendations
        /\ h.networks = g.networks /\ h.regulars = g.regulars
    BY <1>11
  <2> QED BY <1>7, <1>9, <1>11, <1>13, <1>14, <2>1, <2>2 DEF Agrees
<1>16. t = WriteSeriesCredits(s, p)
  BY DEF WriteSeriesCredits, t, b
<1>17. DOMAIN t.episodes = DOMAIN s.episodes
       /\ \A e \in DOMAIN s.episodes \ EpisodeIds : t.episodes[e] = s.episodes[e]
  BY <1>4, <1>5 DEF PayloadOK
<1> QED BY <1>6, <1>15, <1>16, <1>17 DEF h

LEMMA RecommendationsAgree ==
    ASSUME NEW s, NEW g, Agrees(s, g), NEW p
    PROVE  /\ Agrees(WriteSeriesRecommendations(s, p, live), RecommendationsVintage(g, p))
           /\ Touches(s, WriteSeriesRecommendations(s, p, live), {"recommendations"})
<1> DEFINE t == WriteSeriesRecommendations(s, p, live)
           h == RecommendationsVintage(g, p)
<1>1. DOMAIN s = StoreFields /\ DOMAIN g = Blocks /\ DOMAIN Blank = StoreFields
  BY DEF Agrees, Whole, Blank, StoreFields
<1>2. Touches(s, t, {"recommendations"})
  BY <1>1 DEF WriteSeriesRecommendations, RecommendationsWritten, Touches, StoreFields
<1>3. t.recommendations = IF p.series.recommendations = Absent THEN s.recommendations
                          ELSE RecommendationRows(p.series.recommendations, live)
  BY <1>1 DEF WriteSeriesRecommendations, RecommendationsWritten, StoreFields
<1>4. /\ DOMAIN h = Blocks
      /\ h.recommendations = IF p.series.recommendations = Absent THEN g.recommendations
                             ELSE WriteSeriesRecommendations(Blank, p, live).recommendations
      /\ \A f \in Blocks \ {"recommendations"} : h[f] = g[f]
  BY <1>1 DEF RecommendationsVintage, Blocks
<1>5. p.series.recommendations # Absent =>
          WriteSeriesRecommendations(Blank, p, live).recommendations
            = RecommendationRows(p.series.recommendations, live)
  BY <1>1 DEF WriteSeriesRecommendations, RecommendationsWritten, StoreFields
<1>6. t.recommendations = h.recommendations
  BY <1>3, <1>4, <1>5 DEF Agrees
<1> HIDE DEF t, h
<1>7. /\ t.seasons = s.seasons /\ t.episodes = s.episodes /\ t.creators = s.creators
      /\ t.body = s.body /\ t.joins = s.joins /\ t.spaces = s.spaces
      /\ t.cast = s.cast /\ t.crew = s.crew /\ DOMAIN t = StoreFields
  BY <1>2 DEF Touches, StoreFields
<1>8. /\ h.spine = g.spine /\ h.spaces = g.spaces /\ h.cast = g.cast /\ h.crew = g.crew
      /\ h.networks = g.networks /\ h.regulars = g.regulars
      /\ h.guests = g.guests /\ h.episodeCrew = g.episodeCrew /\ h.screened = g.screened
  BY <1>4 DEF Blocks
<1>9. Whole(t)
  BY <1>7 DEF Agrees, Whole
<1>10. EpisodesAgree(t.episodes, h)
  BY <1>7, <1>8 DEF Agrees, EpisodesAgree
<1>11. h.spine # NoVersion => SpineAgrees(t, h.spine) /\ HomesAgree(t, h.spine)
  <2>1. SpineStays(s, t)
    BY <1>7 DEF SpineStays
  <2> QED BY <1>8, <2>1, SpineAgreesStill DEF Agrees
<1>12. Agrees(t, h)
  BY <1>4, <1>6, <1>7, <1>8, <1>9, <1>10, <1>11 DEF Agrees
<1> QED BY <1>2, <1>12 DEF t, h

LEMMA SeasonCreditsAgree ==
    ASSUME NEW s, NEW g, Agrees(s, g), NEW p, PayloadOK(p), p \in Payloads
    PROVE  /\ Agrees(WriteSeasonCredits(s, p), RegularsVintage(g, p, DOMAIN s.seasons))
           /\ Touches(s, WriteSeasonCredits(s, p), {"seasons", "people", "characters", "roles"})
           /\ DOMAIN WriteSeasonCredits(s, p).seasons = DOMAIN s.seasons
           /\ \A k \in DOMAIN s.seasons \ SeasonIds : WriteSeasonCredits(s, p).seasons[k] = s.seasons[k]
<1> DEFINE t == WriteSeasonCredits(s, p)
           h == RegularsVintage(g, p, DOMAIN s.seasons)
           a == Alone[p]
           regs == [k \in DOMAIN a.seasons |-> a.seasons[k].regulars]
<1>1. Whole(s) /\ DOMAIN s = StoreFields /\ DOMAIN g = Blocks
  BY DEF Agrees, Whole
<1>2. /\ Touches(s, t, {"seasons", "people", "characters", "roles"}) /\ SeasonsWhole(t.seasons)
      /\ DOMAIN t.seasons = DOMAIN s.seasons
      /\ \A k \in DOMAIN s.seasons \ SpeaksRegulars(p) : t.seasons[k] = s.seasons[k]
      /\ \A k \in DOMAIN s.seasons \cap SpeaksRegulars(p) :
           t.seasons[k] = [s.seasons[k] EXCEPT !.regulars = GuestRows(RegularsGiven(p)[k])]
  BY <1>1, CreditedSeasons DEF WriteSeasonCredits, Whole
<1>3. /\ DOMAIN h = Blocks
      /\ h.regulars = Said(g.regulars, DOMAIN s.seasons, SpeaksRegulars(p), regs)
      /\ \A f \in Blocks \ {"regulars"} : h[f] = g[f]
  <2> HIDE DEF a
  <2> QED BY <1>1 DEF RegularsVintage, Blocks, a
<1>4. \A k \in SeasonsNamed(p) :
          /\ k \in DOMAIN a.seasons
          /\ k \in SpeaksRegulars(p) => a.seasons[k].regulars = GuestRows(RegularsGiven(p)[k])
  BY AloneIs
<1>5. SpeaksRegulars(p) \subseteq SeasonsNamed(p) /\ SeasonsNamed(p) \subseteq SeasonIds
  BY NamedAre DEF SpeaksRegulars, RegularsGiven
<1> HIDE DEF t, h, a
<1>6. ASSUME NEW k \in SpeaksRegulars(p) PROVE regs[k] = GuestRows(RegularsGiven(p)[k])
  <2>1. k \in SeasonsNamed(p)
    BY <1>5
  <2>2. k \in DOMAIN a.seasons /\ a.seasons[k].regulars = GuestRows(RegularsGiven(p)[k])
    BY <1>4, <2>1
  <2>3. regs[k] = a.seasons[k].regulars
    BY <2>2
  <2> QED BY <2>2, <2>3
<1> HIDE DEF regs
<1>7. ASSUME NEW k \in DOMAIN s.seasons
      PROVE  /\ \A c \in {"id", "number", "networks"} : t.seasons[k][c] = s.seasons[k][c]
             /\ t.seasons[k]["regulars"] = IF k \in SpeaksRegulars(p) THEN regs[k] ELSE s.seasons[k]["regulars"]
  <2>1. DOMAIN s.seasons[k] = SeasonColumns
    BY <1>1 DEF Whole, SeasonsWhole
  <2>2. CASE k \in SpeaksRegulars(p)
    BY <1>2, <1>6, <2>1, <2>2 DEF SeasonColumns
  <2>3. CASE k \notin SpeaksRegulars(p)
    BY <1>2, <2>3
  <2> QED BY <2>2, <2>3
<1>8. /\ t.episodes = s.episodes /\ t.creators = s.creators
      /\ t.body = s.body /\ t.joins = s.joins /\ t.spaces = s.spaces
      /\ t.cast = s.cast /\ t.crew = s.crew /\ t.recommendations = s.recommendations
      /\ DOMAIN t = StoreFields
  BY <1>2 DEF Touches, StoreFields
<1>9. /\ h.spine = g.spine /\ h.spaces = g.spaces /\ h.cast = g.cast /\ h.crew = g.crew
      /\ h.networks = g.networks /\ h.recommendations = g.recommendations
      /\ h.guests = g.guests /\ h.episodeCrew = g.episodeCrew /\ h.screened = g.screened
  BY <1>3 DEF Blocks
<1>10. Whole(t)
  BY <1>1, <1>2, <1>8 DEF Whole, Housed
<1>11. EpisodesAgree(t.episodes, h)
  BY <1>8, <1>9 DEF Agrees, EpisodesAgree
<1>12. h.spine # NoVersion => SpineAgrees(t, h.spine) /\ HomesAgree(t, h.spine)
  <2>1. SpineStays(s, t)
    BY <1>2, <1>7, <1>8 DEF SpineStays
  <2> QED BY <1>9, <2>1, SpineAgreesStill DEF Agrees
<1>13. SeasonsAgree(t.seasons, "networks", h.networks)
  BY <1>2, <1>7, <1>9 DEF SeasonsAgree, Agrees
<1>14. SeasonsAgree(t.seasons, "regulars", h.regulars)
  <2>1. \A k \in SeasonIds \cap DOMAIN t.seasons :
           t.seasons[k]["regulars"] = IF k \in SpeaksRegulars(p) THEN regs[k]
                                      ELSE IF k \in DOMAIN s.seasons THEN s.seasons[k]["regulars"] ELSE {}
    BY <1>2, <1>7
  <2>2. SeasonsAgree(s.seasons, "regulars", g.regulars)
    BY DEF Agrees
  <2>3. h.regulars = Said(g.regulars, DOMAIN t.seasons, SpeaksRegulars(p), regs)
    BY <1>2, <1>3
  <2> QED BY <2>1, <2>2, <2>3, SaidAgrees
<1>15. Agrees(t, h)
  BY <1>3, <1>8, <1>9, <1>10, <1>11, <1>12, <1>13, <1>14 DEF Agrees
<1>16. \A k \in DOMAIN s.seasons \ SeasonIds : t.seasons[k] = s.seasons[k]
  BY <1>2, <1>5
<1> QED BY <1>2, <1>15, <1>16 DEF t, h

LEMMA LocalAgrees ==
    ASSUME NEW s \in LocalRows PROVE Agrees(s, Unwritten)
<1> DEFINE g == Unwritten
<1>1. StoreOK(s) /\ NoPayload(s)
  BY PayloadUpsertAssumption
<1>2. /\ DOMAIN g = Blocks /\ g.spine = NoVersion /\ g.cast = <<>> /\ g.crew = <<>>
      /\ g.recommendations = {} /\ g.spaces = [n \in Namespaces |-> {}] /\ g.screened = {}
      /\ g.networks = <<>> /\ g.regulars = <<>>
      /\ \A e \in EpisodeIds : g.guests[e] = {} /\ g.episodeCrew[e] = {}
  BY DEF Unwritten, Blocks
<1> HIDE DEF g
<1>3. Whole(s)
  <2>1. SeasonsWhole(s.seasons)
    BY <1>1 DEF StoreOK, SeasonsWhole, SeasonRow, SeasonColumns
  <2>2. EpisodesWhole(s.episodes)
    BY <1>1 DEF StoreOK, EpisodesWhole, EpisodeRow, EpisodeColumns
  <2>3. CreatorsWhole(s.creators) /\ DOMAIN s = StoreFields
    BY <1>1 DEF StoreOK, CreatorsWhole
  <2>4. Housed(s.episodes, s.seasons)
    BY <1>1 DEF StoreOK, Housed, OrNull
  <2> QED BY <2>1, <2>2, <2>3, <2>4 DEF Whole
<1>4. [n \in Namespaces |-> UpstreamEntries(s.spaces[n])] = g.spaces
  <2>1. \A n \in Namespaces : UpstreamEntries(s.spaces[n]) = {}
    BY <1>1 DEF NoPayload, UpstreamEntries
  <2> QED BY <2>1, <1>2
<1>5. EpisodesAgree(s.episodes, g)
  <2>1. ASSUME NEW e \in EpisodeIds \cap DOMAIN s.episodes
        PROVE  /\ s.episodes[e].guests = {} /\ s.episodes[e].crew = {}
               /\ s.episodes[e].screened = (e \in g.screened)
    <3>1. /\ s.episodes[e].guests = {} /\ s.episodes[e].crew = {} /\ ~s.episodes[e].screened
      BY <1>1 DEF NoPayload
    <3>2. s.episodes[e].screened \in BOOLEAN
      BY <1>1 DEF StoreOK, EpisodeRow
    <3> QED BY <3>1, <3>2, <1>2
  <2> QED BY <2>1, <1>2 DEF EpisodesAgree
<1>6. SeasonsAgree(s.seasons, "networks", g.networks) /\ SeasonsAgree(s.seasons, "regulars", g.regulars)
  <2>1. DOMAIN <<>> = {}
    OBVIOUS
  <2> QED BY <1>1, <1>2, <2>1 DEF NoPayload, SeasonsAgree
<1>7. s.cast = g.cast /\ s.crew = g.crew /\ s.recommendations = g.recommendations
  BY <1>1, <1>2 DEF NoPayload
<1>8. ~(g.spine # NoVersion)
  BY <1>2
<1>9. DOMAIN g = Blocks
  BY <1>2
<1>10. Agrees(s, g)
  BY <1>3, <1>4, <1>5, <1>6, <1>7, <1>8, <1>9 DEF Agrees
<1> QED BY <1>10 DEF g

-----------------------------------------------------------------------------
(* The specification                                                       *)

\* Inductive: whatever is pending, the rows and the vintage agree.
Sound ==
    /\ Agrees(store, vintage)
    /\ upstream \in Versions
    /\ pending \in [Writers -> Versions \cup {NoVersion}]

LEMMA SoundInit == PayloadInit => Sound
<1> SUFFICES ASSUME PayloadInit PROVE Sound
  OBVIOUS
<1>1. upstream \in Versions /\ pending \in [Writers -> Versions \cup {NoVersion}]
  BY DEF PayloadInit
<1>2. PICK s \in LocalRows :
         \/ store = s /\ vintage = Unwritten
         \/ \E v \in Versions : LET p == WithoutCredits(Payload["mirror"][v]) IN
              /\ store = UpsertSeriesPayload(s, p, TRUE, live)
              /\ vintage = MirrorVintage(Unwritten, p, store)
  BY DEF PayloadInit
<1>3. Agrees(s, Unwritten)
  BY LocalAgrees
<1>4. CASE store = s /\ vintage = Unwritten
  BY <1>1, <1>3, <1>4 DEF Sound
<1>5. ASSUME NEW v \in Versions, NEW p, p = WithoutCredits(Payload["mirror"][v]),
             store = UpsertSeriesPayload(s, p, TRUE, live),
             vintage = MirrorVintage(Unwritten, p, store)
      PROVE  Sound
  <2>1. PayloadOK(p) /\ p \in Payloads
    BY <1>5, FetchedOK, OlderOK DEF Payloads
  <2>2. Agrees(UpsertSeriesPayload(s, p, TRUE, live),
               MirrorVintage(Unwritten, p, UpsertSeriesPayload(s, p, TRUE, live)))
    BY <1>3, <2>1, MirrorAgrees
  <2> QED BY <1>1, <1>5, <2>2 DEF Sound
<1> QED BY <1>2, <1>4, <1>5

LEMMA SoundNext == Sound /\ [PayloadNext]_payloadVars => Sound'
<1> SUFFICES ASSUME Sound, [PayloadNext]_payloadVars PROVE Sound'
  OBVIOUS
<1> USE DEF Sound
<1>1. ASSUME NEW v \in Versions, UpstreamChanges(v) PROVE Sound'
  BY <1>1 DEF UpstreamChanges
<1>2. ASSUME NEW t \in Targets, TargetGoes(t) PROVE Sound'
  BY <1>2 DEF TargetGoes
<1>3. ASSUME NEW w \in Writers, Fetch(w) PROVE Sound'
  BY <1>3 DEF Fetch
<1>4. ASSUME NEW w \in Writers, Fail(w) PROVE Sound'
  BY <1>4 DEF Fail
<1>5. CASE Mirror
  <2> DEFINE p == Payload["mirror"][pending["mirror"]]
             t == UpsertSeriesPayload(store, p, TRUE, live)
  <2>1. pending["mirror"] \in Versions
    BY <1>5 DEF Mirror, Writers
  <2>2. PayloadOK(p) /\ p \in Payloads
    BY <2>1, FetchedOK DEF Payloads, Writers
  <2>3. store' = t /\ vintage' = MirrorVintage(vintage, p, store')
    BY <1>5 DEF Mirror
  <2>4. Agrees(t, MirrorVintage(vintage, p, t))
    <3> HIDE DEF p
    <3> QED BY <2>2, MirrorAgrees
  <2>5. Agrees(store', vintage')
    BY <2>3, <2>4
  <2> QED BY <2>5, <1>5 DEF Mirror
<1>6. CASE BackfillShowCredits
  <2> DEFINE p == Payload["credits"][pending["credits"]]
  <2>1. pending["credits"] \in Versions
    BY <1>6 DEF BackfillShowCredits, Writers
  <2>2. PayloadOK(p) /\ p \in Payloads
    BY <2>1, FetchedOK DEF Payloads, Writers
  <2>3. Agrees(WriteSeriesCredits(store, p), CreditsVintage(vintage, p, DOMAIN store.episodes))
    <3> HIDE DEF p
    <3> QED BY <2>2, SeriesCreditsAgree
  <2>4. Agrees(store', vintage')
    BY <2>3, <1>6 DEF BackfillShowCredits
  <2> QED BY <2>4, <1>6 DEF BackfillShowCredits
<1>7. CASE BackfillShowRecommendations
  <2> DEFINE p == Payload["recommendations"][pending["recommendations"]]
  <2>1. Agrees(WriteSeriesRecommendations(store, p, live), RecommendationsVintage(vintage, p))
    <3> HIDE DEF p
    <3> QED BY RecommendationsAgree
  <2>2. Agrees(store', vintage')
    BY <2>1, <1>7 DEF BackfillShowRecommendations
  <2> QED BY <2>2, <1>7 DEF BackfillShowRecommendations
<1>8. CASE BackfillShowSeasonCredits
  <2> DEFINE p == Payload["regulars"][pending["regulars"]]
  <2>1. pending["regulars"] \in Versions
    BY <1>8 DEF BackfillShowSeasonCredits, Writers
  <2>2. PayloadOK(p) /\ p \in Payloads
    BY <2>1, FetchedOK DEF Payloads, Writers
  <2>3. Agrees(WriteSeasonCredits(store, p), RegularsVintage(vintage, p, DOMAIN store.seasons))
    <3> HIDE DEF p
    <3> QED BY <2>2, SeasonCreditsAgree
  <2>4. Agrees(store', vintage')
    BY <2>3, <1>8 DEF BackfillShowSeasonCredits
  <2> QED BY <2>4, <1>8 DEF BackfillShowSeasonCredits
<1>9. CASE UNCHANGED payloadVars
  BY <1>9 DEF payloadVars
<1> QED BY <1>1, <1>2, <1>3, <1>4, <1>5, <1>6, <1>7, <1>8, <1>9 DEF PayloadNext

THEOREM SoundAlways == PayloadSpec => []Sound
<1> QED BY SoundInit, SoundNext, PTL DEF PayloadSpec

(* Each block of a show's rows is what one payload would have written on an *)
(* empty show, whatever payloads, writers, shows and local rows there are   *)
(* (tmdb/upsert.py, the replacing writers and _refresh_scope).              *)
THEOREM ShowsOneVintage == PayloadSpec => []OneVintage
<1>1. Sound => OneVintage
  <2> SUFFICES ASSUME Sound PROVE OneVintage
    OBVIOUS
  <2>1. vintage.spine # NoVersion => OfSpine(vintage.spine)
    BY DEF Sound, Agrees, SpineAgrees, OfSpine
  <2>2. \A e \in EpisodeIds \cap DOMAIN store.episodes :
          /\ store.episodes[e].guests = vintage.guests[e]
          /\ store.episodes[e].crew = vintage.episodeCrew[e]
          /\ store.episodes[e].screened = (e \in vintage.screened)
    BY DEF Sound, Agrees, EpisodesAgree
  <2>3. /\ \A k \in DOMAIN vintage.networks : store.seasons[k].networks = vintage.networks[k]
        /\ \A k \in DOMAIN vintage.regulars : store.seasons[k].regulars = vintage.regulars[k]
    BY DEF Sound, Agrees, SeasonsAgree
  <2> QED BY <2>1, <2>2, <2>3 DEF Sound, Agrees, OneVintage
<1> QED BY <1>1, SoundAlways, PTL

(* Every episode of the payload that wrote a show last hangs on a season of *)
(* its number that is stored, whatever the payload dropped                  *)
(* (upsert_series_payload, the order of its writes).                        *)
THEOREM EpisodesAreHome == PayloadSpec => []EpisodesHome
<1>1. Sound => EpisodesHome
  BY DEF Sound, Agrees, HomesAgree, HomeIs, EpisodesHome
<1> QED BY <1>1, SoundAlways, PTL

\* What a step of a writer does to the rows that no payload wrote.
KeepsLocal(s, t) ==
    /\ LocalSeasonsOf(t) = LocalSeasonsOf(s)
    /\ LocalEntriesOf(t) = LocalEntriesOf(s)
    /\ \A i \in DOMAIN s.creators : s.creators[i].credit = Null =>
         i \in DOMAIN t.creators /\ t.creators[i] = s.creators[i]
    /\ LocalEpisodes(t) = LocalEpisodes(s)
    /\ \A e \in LocalEpisodes(s) :
         \/ t.episodes[e] = s.episodes[e]
         \/ /\ s.episodes[e].season \in SeasonIds \ DOMAIN t.seasons
            /\ t.episodes[e] = [s.episodes[e] EXCEPT !.season = Null]

LEMMA UpsertKeepsLocal ==
    ASSUME NEW s, Whole(s), NEW p, PayloadOK(p), NEW on
    PROVE  KeepsLocal(s, UpsertSeriesPayload(s, p, TRUE, on))
<1> DEFINE t == UpsertSeriesPayload(s, p, TRUE, on)
<1>1. /\ Whole(t) /\ ShowAfter(s, p, on, t) /\ SeasonsAfter(s.seasons, p, t.seasons)
      /\ EpisodesAfter(s.episodes, p, t.seasons, t.episodes)
  BY Upserted
<1>2. DOMAIN s = StoreFields
  BY DEF Whole
<1> HIDE DEF t
<1>3. LocalSeasonsOf(t) = LocalSeasonsOf(s)
  <2>1. LegacySeasons \cap DOMAIN t.seasons = LegacySeasons \cap DOMAIN s.seasons
    BY <1>1, NamedAre, PayloadStoreAssumption DEF SeasonsAfter
  <2>2. \A k \in LegacySeasons \cap DOMAIN s.seasons : t.seasons[k] = s.seasons[k]
    BY <1>1 DEF SeasonsAfter
  <2> QED BY <2>1, <2>2 DEF LocalSeasonsOf
<1>4. LocalEntriesOf(t) = LocalEntriesOf(s)
  <2>1. t.spaces = SpacesWritten(s, p).spaces
    BY <1>1 DEF ShowAfter
  <2>2. UpstreamKeyed \subseteq Namespaces
    BY DEF UpstreamKeyed, Namespaces
  <2>3. ASSUME NEW n \in UpstreamKeyed
        PROVE  {r \in t.spaces[n] : r.key = Null} = {r \in s.spaces[n] : r.key = Null}
    <3>1. n \in Namespaces
      BY <2>2
    <3> QED BY <1>2, <2>1, <3>1, SpacesKept
  <2> QED BY <2>3 DEF LocalEntriesOf
<1>5. \A i \in DOMAIN s.creators : s.creators[i].credit = Null =>
          i \in DOMAIN t.creators /\ t.creators[i] = s.creators[i]
  <2>1. t.creators = CreatorsReplaced(s.creators, p.series.creators)
    BY <1>1 DEF ShowAfter
  <2> QED BY <2>1, CreatorsAre DEF Whole, CreatorsWhole, PayloadOK
<1>6. LocalEpisodes(t) = LocalEpisodes(s)
  BY <1>1, PayloadStoreAssumption DEF LocalEpisodes, EpisodesAfter, PayloadOK
<1>7. ASSUME NEW e \in LocalEpisodes(s)
      PROVE  \/ t.episodes[e] = s.episodes[e]
             \/ /\ s.episodes[e].season \in SeasonIds \ DOMAIN t.seasons
                /\ t.episodes[e] = [s.episodes[e] EXCEPT !.season = Null]
  <2>1. e \in DOMAIN s.episodes \ DOMAIN p.episodes
    BY PayloadStoreAssumption DEF LocalEpisodes, PayloadOK
  <2>2. CASE s.episodes[e].season \in DOMAIN t.seasons
    BY <1>1, <2>1, <2>2 DEF EpisodesAfter
  <2>3. CASE s.episodes[e].season \notin DOMAIN t.seasons
    <3>1. t.episodes[e] = [s.episodes[e] EXCEPT !.season = Null]
      BY <1>1, <2>1, <2>3 DEF EpisodesAfter
    <3>2. s.episodes[e] = [c \in EpisodeColumns |-> s.episodes[e][c]]
      BY <2>1 DEF Whole, EpisodesWhole
    <3>3. s.episodes[e].season \in DOMAIN s.seasons \cup {Null}
      BY <2>1 DEF Whole, Housed
    <3>4. CASE s.episodes[e].season = Null
      BY <3>1, <3>2, <3>4 DEF EpisodeColumns
    <3>5. CASE s.episodes[e].season \in DOMAIN s.seasons
      <4>1. s.episodes[e].season \in SeasonKeys
        BY <3>5 DEF Whole, SeasonsWhole
      <4>2. s.episodes[e].season \notin LegacySeasons
        BY <1>1, <2>3, <3>5 DEF SeasonsAfter
      <4> QED BY <2>3, <3>1, <4>1, <4>2 DEF SeasonKeys
    <3> QED BY <3>3, <3>4, <3>5
  <2> QED BY <2>2, <2>3
<1>8. KeepsLocal(s, t)
  BY <1>3, <1>4, <1>5, <1>6, <1>7 DEF KeepsLocal
<1> QED BY <1>8 DEF t

\* A writer that leaves TMDB's rows' neighbours as they are keeps them.
LEMMA NarrowKeepsLocal ==
    ASSUME NEW s, NEW t, t.creators = s.creators, t.spaces = s.spaces,
           DOMAIN t.seasons = DOMAIN s.seasons, DOMAIN t.episodes = DOMAIN s.episodes,
           \A k \in DOMAIN s.seasons \ SeasonIds : t.seasons[k] = s.seasons[k],
           \A e \in DOMAIN s.episodes \ EpisodeIds : t.episodes[e] = s.episodes[e]
    PROVE  KeepsLocal(s, t)
<1>1. LocalSeasonsOf(t) = LocalSeasonsOf(s)
  BY PayloadStoreAssumption DEF LocalSeasonsOf
<1>2. LocalEntriesOf(t) = LocalEntriesOf(s)
  BY DEF LocalEntriesOf
<1>3. LocalEpisodes(t) = LocalEpisodes(s) /\ \A e \in LocalEpisodes(s) : t.episodes[e] = s.episodes[e]
  BY PayloadStoreAssumption DEF LocalEpisodes
<1> QED BY <1>1, <1>2, <1>3 DEF KeepsLocal

LEMMA NextKeepsLocal == Sound /\ [PayloadNext]_payloadVars => KeepsLocal(store, store')
<1> SUFFICES ASSUME Sound, [PayloadNext]_payloadVars PROVE KeepsLocal(store, store')
  OBVIOUS
<1>1. Agrees(store, vintage) /\ Whole(store) /\ pending \in [Writers -> Versions \cup {NoVersion}]
  BY DEF Sound, Agrees
<1>2. CASE UNCHANGED store
  BY <1>2, NarrowKeepsLocal
<1>3. CASE Mirror
  <2> DEFINE p == Payload["mirror"][pending["mirror"]]
  <2>1. PayloadOK(p)
    BY <1>1, <1>3, FetchedOK DEF Mirror, Writers
  <2>2. store' = UpsertSeriesPayload(store, p, TRUE, live)
    BY <1>3 DEF Mirror
  <2> HIDE DEF p
  <2>3. KeepsLocal(store, UpsertSeriesPayload(store, p, TRUE, live))
    BY <1>1, <2>1, UpsertKeepsLocal
  <2> QED BY <2>2, <2>3
<1>4. CASE BackfillShowCredits
  <2> DEFINE p == Payload["credits"][pending["credits"]]
             t == WriteSeriesCredits(store, p)
  <2>1. PayloadOK(p) /\ p \in Payloads
    BY <1>1, <1>4, FetchedOK DEF BackfillShowCredits, Writers, Payloads
  <2>2. store' = t
    BY <1>4 DEF BackfillShowCredits
  <2> HIDE DEF p
  <2>3. /\ Touches(store, t, {"cast", "crew", "episodes", "people", "characters", "roles"})
        /\ DOMAIN t.episodes = DOMAIN store.episodes
        /\ \A e \in DOMAIN store.episodes \ EpisodeIds : t.episodes[e] = store.episodes[e]
    BY <1>1, <2>1, SeriesCreditsAgree
  <2> HIDE DEF t
  <2>4. t.creators = store.creators /\ t.spaces = store.spaces /\ t.seasons = store.seasons
    BY <2>3 DEF Touches, StoreFields
  <2>5. KeepsLocal(store, t)
    BY <2>3, <2>4, NarrowKeepsLocal
  <2> QED BY <2>2, <2>5
<1>5. CASE BackfillShowRecommendations
  <2> DEFINE p == Payload["recommendations"][pending["recommendations"]]
             t == WriteSeriesRecommendations(store, p, live)
  <2>1. store' = t
    BY <1>5 DEF BackfillShowRecommendations
  <2> HIDE DEF p
  <2>2. Touches(store, t, {"recommendations"})
    BY <1>1, RecommendationsAgree
  <2> HIDE DEF t
  <2>3. t.creators = store.creators /\ t.spaces = store.spaces /\ t.seasons = store.seasons
        /\ t.episodes = store.episodes
    BY <2>2 DEF Touches, StoreFields
  <2>4. KeepsLocal(store, t)
    BY <2>3, NarrowKeepsLocal
  <2> QED BY <2>1, <2>4
<1>6. CASE BackfillShowSeasonCredits
  <2> DEFINE p == Payload["regulars"][pending["regulars"]]
             t == WriteSeasonCredits(store, p)
  <2>1. PayloadOK(p) /\ p \in Payloads
    BY <1>1, <1>6, FetchedOK DEF BackfillShowSeasonCredits, Writers, Payloads
  <2>2. store' = t
    BY <1>6 DEF BackfillShowSeasonCredits
  <2> HIDE DEF p
  <2>3. /\ Touches(store, t, {"seasons", "people", "characters", "roles"})
        /\ DOMAIN t.seasons = DOMAIN store.seasons
        /\ \A k \in DOMAIN store.seasons \ SeasonIds : t.seasons[k] = store.seasons[k]
    BY <1>1, <2>1, SeasonCreditsAgree
  <2> HIDE DEF t
  <2>4. t.creators = store.creators /\ t.spaces = store.spaces /\ t.episodes = store.episodes
    BY <2>3 DEF Touches, StoreFields
  <2>5. KeepsLocal(store, t)
    BY <2>3, <2>4, NarrowKeepsLocal
  <2> QED BY <2>2, <2>5
<1> QED
  BY <1>2, <1>3, <1>4, <1>5, <1>6
     DEF PayloadNext, payloadVars, UpstreamChanges, TargetGoes, Fetch, Fail

(* No writer changes or deletes a row that no payload wrote; of an episode  *)
(* copied from TV Maze only the season can go, and only with one of TMDB's  *)
(* that went (prune_missing_seasons, _replace_show_rows).                   *)
THEOREM LocalRowsKept == PayloadSpec => LocalKept
<1>1. Sound /\ [PayloadNext]_payloadVars =>
        [/\ LocalSeasonsOf(store') = LocalSeasonsOf(store)
         /\ LocalEntriesOf(store') = LocalEntriesOf(store)
         /\ \A i \in DOMAIN store.creators : store.creators[i].credit = Null =>
              i \in DOMAIN store'.creators /\ store'.creators[i] = store.creators[i]
         /\ LocalEpisodes(store') = LocalEpisodes(store)
         /\ \A e \in LocalEpisodes(store) :
              \/ store'.episodes[e] = store.episodes[e]
              \/ /\ store.episodes[e].season \in SeasonIds \ DOMAIN store'.seasons
                 /\ store'.episodes[e] = [store.episodes[e] EXCEPT !.season = Null]]_payloadVars
  BY NextKeepsLocal DEF KeepsLocal
<1> QED BY <1>1, SoundAlways, PTL DEF PayloadSpec, LocalKept

-----------------------------------------------------------------------------
(* Whom a credit names                                                     *)

\* The vocabularies only grow.
Grown(s, t) == /\ s.people \subseteq t.people /\ s.characters \subseteq t.characters
               /\ s.roles \subseteq t.roles

\* It holds still if what is new is named.
LEMMA InternedStill ==
    ASSUME NEW s, Interned(s), NEW t, Grown(s, t),
           \A c \in ToSet(t.cast) : c \in ToSet(s.cast) \/ CreditNamed(t, c),
           \A c \in ToSet(t.crew) : c \in ToSet(s.crew) \/ CrewNamed(t, c),
           \A k \in DOMAIN t.seasons : \A c \in t.seasons[k].regulars :
               (k \in DOMAIN s.seasons /\ c \in s.seasons[k].regulars) \/ CreditNamed(t, c),
           \A e \in DOMAIN t.episodes : \A c \in t.episodes[e].guests :
               (e \in DOMAIN s.episodes /\ c \in s.episodes[e].guests) \/ CreditNamed(t, c),
           \A e \in DOMAIN t.episodes : \A c \in t.episodes[e].crew :
               (e \in DOMAIN s.episodes /\ c \in s.episodes[e].crew) \/ CrewNamed(t, c)
    PROVE  Interned(t)
<1>1. \A c : CreditNamed(s, c) => CreditNamed(t, c)
  BY DEF CreditNamed, Grown, OrNull
<1>2. \A c : CrewNamed(s, c) => CrewNamed(t, c)
  BY DEF CrewNamed, Grown
<1> QED BY <1>1, <1>2 DEF Interned

LEMMA WordsOf ==
    ASSUME NEW s, DOMAIN s = StoreFields, NEW credits, NEW crew, NEW t,
           SameWords(t, WithCredits(s, credits, crew))
    PROVE  /\ Grown(s, t)
           /\ \A c \in credits : CreditNamed(t, c)
           /\ \A c \in crew : CrewNamed(t, c)
<1> DEFINE w == WithCredits(s, credits, crew)
<1>1. /\ w.people = s.people \cup {c.person : c \in credits \cup crew}
      /\ w.characters = s.characters \cup ({c.character : c \in credits} \ {Null})
      /\ w.roles = s.roles \cup {c.role : c \in crew}
  BY DEF WithCredits, StoreFields
<1> HIDE DEF w
<1>2. t.people = w.people /\ t.characters = w.characters /\ t.roles = w.roles
  BY DEF SameWords, w
<1> QED BY <1>1, <1>2 DEF Grown, CreditNamed, CrewNamed, OrNull

LEMMA CreditsIntern ==
    ASSUME NEW s, DOMAIN s = StoreFields, Interned(s), NEW p
    PROVE  Interned(CreditsWritten(s, p))
<1>1. CASE p.series.cast = Absent
  BY <1>1 DEF CreditsWritten
<1>2. CASE p.series.cast # Absent
  <2> DEFINE cast == CastRows(p.series.cast)
             crew == CrewRows(p.series.crew)
             named == {p.series.cast[i].person : i \in DOMAIN p.series.cast}
                      \cup {p.series.crew[i].person : i \in DOMAIN p.series.crew}
             w == WithCredits(s, ToSet(cast), ToSet(crew))
             t == [w EXCEPT !.people = @ \cup named, !.cast = cast, !.crew = crew]
  <2>1. t = CreditsWritten(s, p)
    BY <1>2 DEF CreditsWritten
  <2>2. Touches(s, w, {"people", "characters", "roles"})
    BY DEF WithCredits, Touches, StoreFields
  <2>3. Grown(s, w) /\ (\A c \in ToSet(cast) : CreditNamed(w, c)) /\ \A c \in ToSet(crew) : CrewNamed(w, c)
    <3>1. SameWords(w, w)
      BY DEF SameWords
    <3> HIDE DEF cast, crew
    <3> QED BY <3>1, WordsOf
  <2> HIDE DEF w, cast, crew, named
  <2>4. /\ t.cast = cast /\ t.crew = crew /\ t.people = w.people \cup named
        /\ t.characters = w.characters /\ t.roles = w.roles
        /\ t.seasons = s.seasons /\ t.episodes = s.episodes
    BY <2>2 DEF Touches, StoreFields
  <2> HIDE DEF t
  <2>5. Grown(s, t)
    BY <2>3, <2>4 DEF Grown
  <2>6. (\A c \in ToSet(t.cast) : CreditNamed(t, c)) /\ \A c \in ToSet(t.crew) : CrewNamed(t, c)
    BY <2>3, <2>4 DEF CreditNamed, CrewNamed
  <2>7. Interned(t)
    BY <2>4, <2>5, <2>6, InternedStill
  <2> QED BY <2>1, <2>7
<1> QED BY <1>1, <1>2

\* The tables that credits and their names are in.
Crediting == {"cast", "crew", "people", "characters", "roles", "seasons", "episodes"}
LEMMA InternedElsewhere ==
    ASSUME NEW s, Interned(s), NEW t, NEW tables, Touches(s, t, tables), tables \cap Crediting = {}
    PROVE  Interned(t)
<1>1. \A f \in Crediting : t[f] = s[f]
  BY DEF Touches, Crediting, StoreFields
<1>2. /\ t.cast = s.cast /\ t.crew = s.crew /\ t.seasons = s.seasons /\ t.episodes = s.episodes
      /\ t.people = s.people /\ t.characters = s.characters /\ t.roles = s.roles
  BY <1>1 DEF Crediting
<1> QED BY <1>2 DEF Interned, CreditNamed, CrewNamed

LEMMA ShowRowsIntern ==
    ASSUME NEW s, DOMAIN s = StoreFields, Interned(s), NEW p, NEW on
    PROVE  Interned(ShowRowsWritten(s, p, on))
<1> DEFINE a == ShowWritten(s, p)
           b == CountriesWritten(a, p)
           c == JoinsWritten(b, p)
           d == CreatorsWritten(c, p)
           e == SpacesWritten(d, p)
           f == CreditsWritten(e, p)
           g == RecommendationsWritten(f, p, on)
<1>1. Touches(s, a, {"body"})
  BY DEF ShowWritten, Touches, StoreFields
<1>2. Touches(a, b, {"countries"})
  BY <1>1 DEF CountriesWritten, Touches, StoreFields
<1>3. Touches(b, c, {"joins"})
  BY <1>2 DEF JoinsWritten, Touches, StoreFields
<1>4. Touches(c, d, {"creators"})
  BY <1>3 DEF CreatorsWritten, Touches, StoreFields
<1>5. Touches(d, e, {"spaces"})
  BY <1>4 DEF SpacesWritten, Touches, StoreFields
<1>6. DOMAIN e = StoreFields
  BY <1>5 DEF Touches
<1>7. DOMAIN f = StoreFields
  BY <1>6 DEF CreditsWritten, WithCredits, StoreFields
<1>8. Touches(f, g, {"recommendations"})
  BY <1>7 DEF RecommendationsWritten, Touches, StoreFields
<1>9. g = ShowRowsWritten(s, p, on)
  BY DEF ShowRowsWritten
<1>10. Interned(e)
  <2> HIDE DEF a, b, c, d, e
  <2>1. Interned(a)
    BY <1>1, InternedElsewhere DEF Crediting
  <2>2. Interned(b)
    BY <1>2, <2>1, InternedElsewhere DEF Crediting
  <2>3. Interned(c)
    BY <1>3, <2>2, InternedElsewhere DEF Crediting
  <2>4. Interned(d)
    BY <1>4, <2>3, InternedElsewhere DEF Crediting
  <2> QED BY <1>5, <2>4, InternedElsewhere DEF Crediting
<1>11. Interned(f)
  <2> HIDE DEF e
  <2> QED BY <1>6, <1>10, CreditsIntern
<1>12. Interned(g)
  <2> HIDE DEF f, g
  <2> QED BY <1>8, <1>11, InternedElsewhere DEF Crediting
<1> QED BY <1>9, <1>12

LEMMA SeasonCreditsIntern ==
    ASSUME NEW s, DOMAIN s = StoreFields, SeasonsWhole(s.seasons), Interned(s), NEW p
    PROVE  Interned(SeasonCreditsWritten(s, p))
<1> DEFINE t == SeasonCreditsWritten(s, p)
<1>1. /\ Touches(s, t, {"seasons", "people", "characters", "roles"})
      /\ DOMAIN t.seasons = DOMAIN s.seasons
      /\ \A k \in DOMAIN s.seasons \ SpeaksRegulars(p) : t.seasons[k] = s.seasons[k]
      /\ \A k \in DOMAIN s.seasons \cap SpeaksRegulars(p) :
           t.seasons[k] = [s.seasons[k] EXCEPT !.regulars = GuestRows(RegularsGiven(p)[k])]
      /\ SameWords(t, WithCredits(s, SeasonCreditsRead(s, p), {}))
  BY CreditedSeasons
<1> HIDE DEF t
<1>2. t.cast = s.cast /\ t.crew = s.crew /\ t.episodes = s.episodes
  BY <1>1 DEF Touches, StoreFields
<1>3. Grown(s, t) /\ \A r \in SeasonCreditsRead(s, p) : CreditNamed(t, r)
  BY <1>1, WordsOf
<1>4. ASSUME NEW k \in DOMAIN t.seasons, NEW r \in t.seasons[k].regulars
      PROVE  (k \in DOMAIN s.seasons /\ r \in s.seasons[k].regulars) \/ CreditNamed(t, r)
  <2>1. k \in DOMAIN s.seasons /\ DOMAIN s.seasons[k] = SeasonColumns
    BY <1>1 DEF SeasonsWhole
  <2>2. CASE k \in SpeaksRegulars(p)
    <3>1. t.seasons[k].regulars = GuestRows(RegularsGiven(p)[k])
      BY <1>1, <2>1, <2>2 DEF SeasonColumns
    <3>2. r \in SeasonCreditsRead(s, p)
      BY <1>4, <2>1, <2>2, <3>1 DEF SeasonCreditsRead
    <3> QED BY <1>3, <3>2
  <2>3. CASE k \notin SpeaksRegulars(p)
    BY <1>1, <1>4, <2>1, <2>3
  <2> QED BY <2>2, <2>3
<1>5. Interned(t)
  BY <1>2, <1>3, <1>4, InternedStill
<1> QED BY <1>5 DEF t

LEMMA SeasonsIntern ==
    ASSUME NEW s, Whole(s), Interned(s), NEW p, PayloadOK(p)
    PROVE  Interned(SeasonsWritten(s, p, TRUE))
<1> DEFINE a == SeasonsUpserted(s, p)
           b == MissingSeasonsPruned(a, p)
           c == SeasonNetworksWritten(b, p)
           t == SeasonCreditsWritten(c, p)
           named == SeasonsNamed(p)
<1>1. /\ Touches(s, a, {"seasons"}) /\ SeasonsWhole(a.seasons)
      /\ DOMAIN a.seasons = DOMAIN s.seasons \cup named
      /\ \A k \in DOMAIN s.seasons \ named : a.seasons[k] = s.seasons[k]
      /\ \A k \in named :
           a.seasons[k].regulars = IF k \in DOMAIN s.seasons THEN s.seasons[k].regulars ELSE {}
  BY UpsertedSeasons DEF Whole
<1>2. /\ Touches(a, b, {"seasons", "episodes"}) /\ SeasonsWhole(b.seasons)
      /\ DOMAIN b.seasons = named \cup (DOMAIN a.seasons \cap LegacySeasons)
      /\ \A k \in DOMAIN b.seasons : b.seasons[k] = a.seasons[k]
      /\ HomesAfter(a.episodes, b.episodes, DOMAIN b.seasons)
  <2> HIDE DEF a
  <2> QED BY <1>1, PrunedSeasons DEF Touches
<1>3. /\ Touches(b, c, {"seasons"}) /\ SeasonsWhole(c.seasons)
      /\ DOMAIN c.seasons = DOMAIN b.seasons
      /\ \A k \in DOMAIN b.seasons \ SeasonsDetailed(p) : c.seasons[k] = b.seasons[k]
      /\ \A k \in DOMAIN b.seasons \cap SeasonsDetailed(p) :
           c.seasons[k] = [b.seasons[k] EXCEPT !.networks = NetworksGiven(p, k)]
  <2> HIDE DEF b
  <2> QED BY <1>2, NetworkedSeasons DEF Touches
<1>4. t = SeasonsWritten(s, p, TRUE)
  BY DEF SeasonsWritten
<1> HIDE DEF a, b, c, t, named
<1>5. a.episodes = s.episodes /\ b.episodes = c.episodes
      /\ \A f \in {"cast", "crew", "people", "characters", "roles"} :
           a[f] = s[f] /\ b[f] = a[f] /\ c[f] = b[f]
  BY <1>1, <1>2, <1>3 DEF Touches, StoreFields
<1>6. ASSUME NEW k \in DOMAIN c.seasons, NEW r \in c.seasons[k].regulars
      PROVE  k \in DOMAIN s.seasons /\ r \in s.seasons[k].regulars
  <2>1. k \in DOMAIN b.seasons /\ b.seasons[k] = a.seasons[k] /\ DOMAIN b.seasons[k] = SeasonColumns
    BY <1>2, <1>3 DEF SeasonsWhole
  <2>2. c.seasons[k].regulars = b.seasons[k].regulars
    BY <1>3, <2>1 DEF SeasonColumns
  <2>3. k \in DOMAIN a.seasons
    BY <1>1, <1>2, <2>1
  <2> QED BY <1>1, <1>6, <2>1, <2>2, <2>3
<1>7. ASSUME NEW e \in DOMAIN c.episodes
      PROVE  /\ e \in DOMAIN s.episodes
             /\ c.episodes[e].guests = s.episodes[e].guests /\ c.episodes[e].crew = s.episodes[e].crew
  <2>1. /\ e \in DOMAIN s.episodes
        /\ c.episodes[e] \in {s.episodes[e], [s.episodes[e] EXCEPT !.season = Null]}
    BY <1>2, <1>5 DEF HomesAfter
  <2>2. s.episodes[e] = [x \in EpisodeColumns |-> s.episodes[e][x]]
    BY <2>1 DEF Whole, EpisodesWhole
  <2> QED BY <2>1, <2>2 DEF EpisodeColumns
<1>8. Interned(c)
  <2>1. /\ c.cast = s.cast /\ c.crew = s.crew /\ c.people = s.people
        /\ c.characters = s.characters /\ c.roles = s.roles
    BY <1>5
  <2>2. Grown(s, c)
    BY <2>1 DEF Grown
  <2> QED BY <1>6, <1>7, <2>1, <2>2, InternedStill
<1>9. DOMAIN c = StoreFields
  BY <1>3 DEF Touches
<1>10. Interned(t)
  BY <1>3, <1>8, <1>9, SeasonCreditsIntern DEF t
<1> QED BY <1>4, <1>10

LEMMA EpisodeCreditsIntern ==
    ASSUME NEW s, DOMAIN s = StoreFields, EpisodesWhole(s.episodes), Interned(s), NEW p
    PROVE  Interned(EpisodeCreditsWritten(s, p))
<1> DEFINE t == EpisodeCreditsWritten(s, p)
<1>1. /\ Touches(s, t, {"episodes", "people", "characters", "roles"})
      /\ DOMAIN t.episodes = DOMAIN s.episodes
      /\ \A e \in DOMAIN s.episodes \ DOMAIN p.episodes : t.episodes[e] = s.episodes[e]
      /\ \A e \in DOMAIN s.episodes \cap DOMAIN p.episodes :
           /\ t.episodes[e].guests = IF e \in SpeaksGuests(p) THEN GuestRows(p.episodes[e].guests)
                                     ELSE s.episodes[e].guests
           /\ t.episodes[e].crew = IF e \in SpeaksCrew(p) THEN EpisodeCrewRows(p.episodes[e].crew)
                                   ELSE s.episodes[e].crew
      /\ SameWords(t, WithCredits(s, EpisodeGuestsRead(s, p), EpisodeCrewRead(s, p)))
  BY CreditedEpisodes
<1> HIDE DEF t
<1>2. /\ Grown(s, t) /\ \A c \in EpisodeGuestsRead(s, p) : CreditNamed(t, c)
      /\ \A c \in EpisodeCrewRead(s, p) : CrewNamed(t, c)
  BY <1>1, WordsOf
<1>3. t.cast = s.cast /\ t.crew = s.crew /\ t.seasons = s.seasons
  BY <1>1 DEF Touches, StoreFields
<1>4. ASSUME NEW e \in DOMAIN t.episodes, NEW c \in t.episodes[e].guests
      PROVE  (e \in DOMAIN s.episodes /\ c \in s.episodes[e].guests) \/ CreditNamed(t, c)
  <2>1. CASE e \in DOMAIN p.episodes /\ e \in SpeaksGuests(p)
    <3>1. c \in EpisodeGuestsRead(s, p)
      BY <1>1, <1>4, <2>1 DEF EpisodeGuestsRead
    <3> QED BY <1>2, <3>1
  <2>2. CASE ~(e \in DOMAIN p.episodes /\ e \in SpeaksGuests(p))
    BY <1>1, <1>4, <2>2
  <2> QED BY <2>1, <2>2
<1>5. ASSUME NEW e \in DOMAIN t.episodes, NEW c \in t.episodes[e].crew
      PROVE  (e \in DOMAIN s.episodes /\ c \in s.episodes[e].crew) \/ CrewNamed(t, c)
  <2>1. CASE e \in DOMAIN p.episodes /\ e \in SpeaksCrew(p)
    <3>1. c \in EpisodeCrewRead(s, p)
      BY <1>1, <1>5, <2>1 DEF EpisodeCrewRead
    <3> QED BY <1>2, <3>1
  <2>2. CASE ~(e \in DOMAIN p.episodes /\ e \in SpeaksCrew(p))
    BY <1>1, <1>5, <2>2
  <2> QED BY <2>1, <2>2
<1>6. Interned(t)
  BY <1>2, <1>3, <1>4, <1>5, InternedStill
<1> QED BY <1>6 DEF t

LEMMA UpsertInterns ==
    ASSUME NEW s, Whole(s), Interned(s), NEW p, PayloadOK(p), NEW on
    PROVE  Interned(UpsertSeriesPayload(s, p, TRUE, on))
<1> DEFINE a == ShowRowsWritten(s, p, on)
           b == SeasonsWritten(a, p, TRUE)
           c == EpisodesUpserted(b, p)
           d == EpisodeCreditsWritten(c, p)
           t == RuntimeRefreshed(AirPointersSet(d, p))
<1>1. Whole(a) /\ Interned(a)
  <2>1. /\ DOMAIN a = StoreFields /\ a.seasons = s.seasons /\ a.episodes = s.episodes
        /\ a.creators = CreatorsWritten(s, p).creators
    BY ShowRowsTouch DEF Whole
  <2>2. CreatorsWritten(s, p).creators = CreatorsReplaced(s.creators, p.series.creators)
    BY DEF CreatorsWritten, Whole, StoreFields
  <2>3. CreatorsWhole(a.creators)
    BY <2>1, <2>2, CreatorsAre DEF Whole, CreatorsWhole, PayloadOK
  <2>4. Interned(a)
    BY ShowRowsIntern DEF Whole
  <2> HIDE DEF a
  <2> QED BY <2>1, <2>3, <2>4 DEF Whole
<1> HIDE DEF a
<1>2. /\ Touches(a, b, {"seasons", "episodes", "people", "characters", "roles"})
      /\ SeasonsWhole(b.seasons) /\ HomesAfter(a.episodes, b.episodes, DOMAIN b.seasons) /\ Interned(b)
  BY <1>1, WrittenSeasons, SeasonsIntern
<1> HIDE DEF b
<1>3. DOMAIN b = StoreFields /\ EpisodesWhole(b.episodes)
  <2>1. \A e \in DOMAIN a.episodes : a.episodes[e] = [x \in EpisodeColumns |-> a.episodes[e][x]]
    BY <1>1 DEF Whole, EpisodesWhole
  <2>2. ASSUME NEW e \in DOMAIN b.episodes
        PROVE  b.episodes[e] = [x \in EpisodeColumns |-> b.episodes[e][x]]
    <3>1. e \in DOMAIN a.episodes
      BY <1>2 DEF HomesAfter
    <3>2. b.episodes[e] \in {a.episodes[e], [a.episodes[e] EXCEPT !.season = Null]}
      BY <3>1, <1>2 DEF HomesAfter
    <3> QED BY <3>1, <3>2, <2>1
  <2> QED BY <1>1, <1>2, <2>2 DEF Touches, Whole, EpisodesWhole, HomesAfter
<1>4. /\ Touches(b, c, {"episodes"}) /\ EpisodesWhole(c.episodes)
      /\ DOMAIN c.episodes = DOMAIN b.episodes \cup DOMAIN p.episodes
      /\ \A e \in DOMAIN b.episodes \ DOMAIN p.episodes : c.episodes[e] = b.episodes[e]
      /\ \A e \in DOMAIN p.episodes :
           /\ c.episodes[e].guests = IF e \in DOMAIN b.episodes THEN b.episodes[e].guests ELSE {}
           /\ c.episodes[e].crew = IF e \in DOMAIN b.episodes THEN b.episodes[e].crew ELSE {}
  BY <1>2, <1>3, UpsertedEpisodes
<1> HIDE DEF c
<1>5. Interned(c)
  <2>1. /\ c.cast = b.cast /\ c.crew = b.crew /\ c.people = b.people /\ c.seasons = b.seasons
        /\ c.characters = b.characters /\ c.roles = b.roles
    BY <1>4 DEF Touches, StoreFields
  <2>2. Grown(b, c)
    BY <2>1 DEF Grown
  <2>3. \A e \in DOMAIN c.episodes : \A r \in c.episodes[e].guests :
           e \in DOMAIN b.episodes /\ r \in b.episodes[e].guests
    BY <1>4
  <2>4. \A e \in DOMAIN c.episodes : \A r \in c.episodes[e].crew :
           e \in DOMAIN b.episodes /\ r \in b.episodes[e].crew
    BY <1>4
  <2> QED BY <1>2, <2>1, <2>2, <2>3, <2>4, InternedStill
<1>6. Interned(d) /\ DOMAIN d = StoreFields
  <2>1. DOMAIN c = StoreFields
    BY <1>4 DEF Touches
  <2>2. DOMAIN d = StoreFields
    BY <1>4, <2>1, CreditedEpisodes DEF Touches
  <2> QED BY <1>4, <1>5, <2>1, <2>2, EpisodeCreditsIntern
<1> HIDE DEF d
<1>7. Touches(d, t, {"last", "next", "runtime"})
  BY <1>6, PointersTouch
<1>8. t = UpsertSeriesPayload(s, p, TRUE, on)
  BY DEF UpsertSeriesPayload, a, b, c, d
<1> HIDE DEF t
<1>9. Interned(t)
  BY <1>6, <1>7, InternedElsewhere DEF Crediting
<1> QED BY <1>8, <1>9

LEMMA InternedInit == PayloadInit => Interned(store)
<1> SUFFICES ASSUME PayloadInit PROVE Interned(store)
  OBVIOUS
<1>1. PICK s \in LocalRows :
         \/ store = s
         \/ \E v \in Versions : LET p == WithoutCredits(Payload["mirror"][v]) IN
              store = UpsertSeriesPayload(s, p, TRUE, live)
  BY DEF PayloadInit
<1>2. Interned(s) /\ Whole(s)
  BY LocalAgrees, PayloadUpsertAssumption DEF Agrees
<1>3. ASSUME NEW v \in Versions, NEW p, p = WithoutCredits(Payload["mirror"][v]),
             store = UpsertSeriesPayload(s, p, TRUE, live)
      PROVE  Interned(store)
  <2>1. PayloadOK(p)
    BY <1>3, FetchedOK, OlderOK
  <2> QED BY <1>2, <1>3, <2>1, UpsertInterns
<1> QED BY <1>1, <1>2, <1>3

LEMMA InternedNext ==
    Sound /\ Interned(store) /\ [PayloadNext]_payloadVars => Interned(store)'
<1> SUFFICES ASSUME Sound, Interned(store), [PayloadNext]_payloadVars PROVE Interned(store')
  OBVIOUS
<1>1. Whole(store) /\ pending \in [Writers -> Versions \cup {NoVersion}]
  BY DEF Sound, Agrees
<1>2. CASE UNCHANGED store
  BY <1>2
<1>3. CASE Mirror
  <2> DEFINE p == Payload["mirror"][pending["mirror"]]
  <2>1. PayloadOK(p)
    BY <1>1, <1>3, FetchedOK DEF Mirror, Writers
  <2>2. store' = UpsertSeriesPayload(store, p, TRUE, live)
    BY <1>3 DEF Mirror
  <2> HIDE DEF p
  <2>3. Interned(UpsertSeriesPayload(store, p, TRUE, live))
    BY <1>1, <2>1, UpsertInterns
  <2> QED BY <2>2, <2>3
<1>4. CASE BackfillShowCredits
  <2> DEFINE p == Payload["credits"][pending["credits"]]
             b == CreditsWritten(store, p)
  <2>1. store' = EpisodeCreditsWritten(b, p)
    BY <1>4 DEF BackfillShowCredits, WriteSeriesCredits
  <2> HIDE DEF p
  <2>2. Interned(b)
    BY <1>1, CreditsIntern DEF Whole
  <2>3. DOMAIN b = StoreFields /\ b.episodes = store.episodes
    BY <1>1 DEF CreditsWritten, WithCredits, Whole, StoreFields
  <2> HIDE DEF b
  <2>4. EpisodesWhole(b.episodes)
    BY <1>1, <2>3 DEF Whole
  <2>5. Interned(EpisodeCreditsWritten(b, p))
    BY <2>2, <2>3, <2>4, EpisodeCreditsIntern
  <2> QED BY <2>1, <2>5
<1>5. CASE BackfillShowRecommendations
  <2> DEFINE p == Payload["recommendations"][pending["recommendations"]]
             t == WriteSeriesRecommendations(store, p, live)
  <2>1. store' = t
    BY <1>5 DEF BackfillShowRecommendations
  <2> HIDE DEF p
  <2>2. Touches(store, t, {"recommendations"})
    BY RecommendationsAgree DEF Sound
  <2> HIDE DEF t
  <2>3. Interned(t)
    BY <2>2, InternedElsewhere DEF Crediting
  <2> QED BY <2>1, <2>3
<1>6. CASE BackfillShowSeasonCredits
  <2> DEFINE p == Payload["regulars"][pending["regulars"]]
  <2>1. store' = SeasonCreditsWritten(store, p)
    BY <1>6 DEF BackfillShowSeasonCredits, WriteSeasonCredits
  <2> HIDE DEF p
  <2>2. Interned(SeasonCreditsWritten(store, p))
    BY <1>1, SeasonCreditsIntern DEF Whole
  <2> QED BY <2>1, <2>2
<1>7. Interned(store')
  BY <1>2, <1>3, <1>4, <1>5, <1>6
     DEF PayloadNext, payloadVars, UpstreamChanges, TargetGoes, Fetch, Fail
<1> QED BY <1>7

(* No credit of a show, of its seasons or of its episodes is without its    *)
(* person, character and role: the writers intern before they insert, and   *)
(* nothing prunes (WithCredits; _write_credits, _write_season_credits,      *)
(* _write_episode_credits).                                                 *)
THEOREM CreditsInterned == PayloadSpec => []Interned(store)
<1> QED BY InternedInit, InternedNext, SoundAlways, PTL DEF PayloadSpec
=============================================================================
