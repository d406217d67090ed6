------------------------------ MODULE Airdates ------------------------------
(***************************************************************************)
(* The dates of one show: the mirror that writes them (the date part of    *)
(* tmdb/upsert.py), and the nightly pass that corrects them against the    *)
(* oracle, TV Maze (airdates/reconcile.py, show_state.py, client.py).      *)
(*                                                                         *)
(* Both are one transaction on a show, and both read before they write:    *)
(* an upsert the offsets, the pass its cached link and the dates it judges *)
(* with requests to the oracle in between.  A transaction's stamps         *)
(* (tmdb_synced_at, last_reconciled_at) are now(), which in Postgres is    *)
(* when the transaction began; clock has the four such moments in order.   *)
(*                                                                         *)
(* A show is due on a night if it was never reconciled, if it was mirrored *)
(* since, if it is airing, on its turn of the sweep and when it is behind  *)
(* two turns.  Nights are missed, turns fail, and upstream and oracle      *)
(* change under the pass.                                                  *)
(***************************************************************************)
EXTENDS Offsets, Sequences

CONSTANTS
    Episodes,      \* of the show, TMDB's
    Authored,      \* its episodes without a TMDB id, which no upsert writes
    AuthoredDate,  \* their dates, before any correction
    SeasonRows,    \* its rows in catalog.season
    Season,        \* the season number of an episode, a row or LastToAir
    Number,        \* the number of an episode in its season
    Schedules,     \* the dates TMDB may give: functions on Given
    Oracles,       \* what TV Maze may hold: [lookup, serves]
    Ids,           \* TV Maze ids
    None, Gone,    \* no id; a 404
    Defaults,      \* offsets an operator may have entered for the show
    SweepDays,     \* SWEEP_DAYS
    MissingDays,   \* RELOOKUP_MISSING_AFTER, in days
    MaxEvents      \* bound: changes of TMDB, TV Maze and the show's scope,
                   \* idle upserts, failed turns and upserts

Premiere == "first_air_date"
LastAired == "last_air_date"
LastToAir == "last_episode_to_air"
OurEpisodes == Episodes \cup Authored
PayloadDates == Episodes \cup SeasonRows \cup {Premiere, LastAired}
Given == PayloadDates \cup {LastToAir}
Dated == PayloadDates \cup Authored
Seasons == {Season[e] : e \in OurEpisodes}

ASSUME AirdatesAssumption ==
    /\ Schedules \subseteq [Given -> Int \cup {NoDate}] /\ Schedules # {}
    /\ AuthoredDate \in [Authored -> Int \cup {NoDate}] /\ Authored \cap Given = {}
    /\ \A o \in Oracles : /\ o.lookup \in Ids \cup {None}
                          /\ o.serves \in [Ids -> [OurEpisodes -> Int \cup {NoDate}] \cup {Gone}]
    /\ Defaults \subseteq OffsetTables(Seasons)
    /\ Season \in [OurEpisodes \cup SeasonRows \cup {LastToAir} -> Nat]
    /\ Number \in [OurEpisodes -> Int]
    /\ {SweepDays, MissingDays} \subseteq Nat \ {0}
    /\ None \notin Ids /\ MaxEvents \in Nat

VARIABLES
    tmdb,      \* TMDB's dates
    oracle,    \* what TV Maze answers
    tracked,   \* a user follows the show
    airing,    \* an episode is still to air, by TMDB's dates
    rows,      \* the stored pair of each date
    mirrored,  \* the dates of the last upsert that committed (ghost)
    offsets,   \* catalog.air_date_offset of the show
    link,      \* catalog.airdate_show_state: id and days since it was asked
    since,     \* days since last_reconciled_at, or Never
    clock,     \* the order in which transactions and stamps began
    day,       \* the date, modulo SweepDays
    ran,       \* the pass has run today
    upsert,    \* the upsert in flight
    turn,      \* the pass, as far as this show's turn in it
    judged,    \* the dates the last verdicts rested on (ghost)
    crossed,   \* the last upsert wrote with offsets since replaced (ghost)
    events

world == <<tmdb, oracle, tracked, airing>>
vars == <<tmdb, oracle, tracked, airing, rows, mirrored, offsets, link, since,
          clock, day, ran, upsert, turn, judged, crossed, events>>

Never == -1
SweepFloor == 2 * SweepDays

\* Each date's season: a premiere is season 1's, the last date belongs to the
\* season of the last dated episode.
SeasonFor(d, last) ==
    CASE d = Premiere -> 1 [] d = LastAired -> last [] OTHER -> Season[d]

\* _last_dated_season: of the payload's episodes and last_episode_to_air.
LastGiven(dates) ==
    SeasonOfLastDated([e \in Episodes \cup {LastToAir} |-> dates[e]], Season)

\* _project_show_dates: of the stored episodes, authored ones too.
LastStored(dates) == SeasonOfLastDated([e \in OurEpisodes |-> dates[e]], Season)

\* The dates that a payload leaves stored, before any correction.
Uncorrected(dates) == [d \in Dated |-> IF d \in Authored THEN AuthoredDate[d] ELSE dates[d]]

Raw(stored) == [d \in Dated |-> Upstream(stored[d])]
Paired(table, dates, last) == [d \in Dated |-> Pair(table, dates[d], SeasonFor(d, last))]

\* What an upsert stores of a payload: not what was authored.
Overwritten(table, dates, stored) ==
    [d \in Dated |-> IF d \in Authored THEN stored[d]
                     ELSE Pair(table, dates[d], SeasonFor(d, LastGiven(dates)))]

\* project_offsets, _project_show_dates: all dates of the show.
Projected(table, stored) ==
    [d \in Dated |-> Project(table, stored[d], SeasonFor(d, LastStored(Raw(stored))))]

\* What a side says of its episodes, as the trust rule takes it.
Entries(dates) ==
    {[id |-> e, season |-> Season[e], number |-> Number[e], date |-> dates[e]] :
        e \in OurEpisodes}
Verdicts(dates, answer) ==
    [s \in Seasons |-> Judge(Entries(dates), Entries(answer), s)]

\* A row with id None is the negative; asked = Never is no row at all.
NoLink == [id |-> None, asked |-> Never]
Usable == link.id # None \/ (link.asked # Never /\ link.asked < MissingDays)

Idle == [at |-> "idle"]
Before(a, b) == \E i, j \in DOMAIN clock : i < j /\ clock[i] = a /\ clock[j] = b
Without(moments) == SelectSeq(clock, LAMBDA m : m \notin moments)
\* The moment a transaction began becomes its stamp's.
Stamped(transaction, stamp) ==
    LET left == Without({stamp})
    IN [i \in DOMAIN left |-> IF left[i] = transaction THEN stamp ELSE left[i]]

\* shows_to_check: in scope, and due.
InScope == tracked \/ airing
Swept == since # Never /\ (day = 0 \/ since > SweepFloor)
Due == InScope /\ (since = Never \/ Before("reconciled", "synced") \/ airing \/ Swept)

-----------------------------------------------------------------------------
Init ==
    /\ tmdb \in Schedules /\ oracle \in Oracles
    /\ tracked = TRUE /\ airing \in BOOLEAN
    /\ mirrored = tmdb /\ offsets \in Defaults
    /\ LET dates == Uncorrected(tmdb) IN rows = Paired(offsets, dates, LastStored(dates))
    /\ link = NoLink /\ since = Never /\ clock = <<"synced">>
    /\ day = 0 /\ ran = FALSE
    /\ upsert = Idle /\ turn = Idle
    /\ judged = <<>> /\ crossed = FALSE /\ events = 0

\* upsert_series_payload as far as dates go: the offsets are read before the
\* show is written.
StartUpsert ==
    /\ upsert = Idle
    /\ tmdb # mirrored \/ events < MaxEvents
    /\ events' = IF tmdb # mirrored THEN events ELSE events + 1
    /\ upsert' = [at |-> "write", offsets |-> offsets, dates |-> tmdb]
    /\ clock' = Append(clock, "upsert")
    /\ UNCHANGED <<world, rows, mirrored, offsets, link, since, day, ran, turn, judged, crossed>>

CommitUpsert ==
    /\ upsert.at = "write"
    /\ rows' = Overwritten(upsert.offsets, upsert.dates, rows)
    /\ mirrored' = upsert.dates
    /\ airing' \in BOOLEAN
    /\ crossed' = (upsert.offsets # offsets)
    /\ upsert' = Idle
    /\ clock' = Stamped("upsert", "synced")
    /\ UNCHANGED <<tmdb, oracle, tracked, offsets, link, since, day, ran, turn, judged,
                   events>>

\* Any error, or the victim of a deadlock with the pass, which locks episodes
\* and then the show where an upsert locks the show first.
FailUpsert ==
    /\ upsert.at = "write" /\ events < MaxEvents
    /\ events' = events + 1
    /\ upsert' = Idle /\ clock' = Without({"upsert"})
    /\ UNCHANGED <<world, rows, mirrored, offsets, link, since, day, ran, turn, judged, crossed>>

-----------------------------------------------------------------------------
(***************************************************************************)
(* The pass: its work list, then the show's turn in a transaction of its   *)
(* own.                                                                    *)
(***************************************************************************)
BeginPass ==
    /\ turn = Idle /\ ~ran
    /\ ran' = TRUE
    /\ turn' = IF Due THEN [at |-> "listed"] ELSE Idle
    /\ UNCHANGED <<world, rows, mirrored, offsets, link, since, clock, day, upsert, judged, crossed, events>>

\* What the turn's reads and requests leave as they are.
Stored == <<rows, mirrored, offsets, link, since, day, ran, upsert, judged, crossed, events>>
Conclude(id) == [at |-> "commit", link |-> id, dates |-> <<>>, verdicts |-> <<>>]

\* _load_link: reuse the id, reuse the negative, or ask.
LoadLink ==
    /\ turn.at = "listed"
    /\ clock' = Append(clock, "turn")
    /\ turn' = IF ~Usable THEN [at |-> "lookup"]
               ELSE IF link.id = None THEN Conclude("kept")
               ELSE [at |-> "episodes", id |-> link.id, cached |-> TRUE]
    /\ UNCHANGED <<world, Stored>>

\* lookup_show, by external id.
LookupShow ==
    /\ turn.at = "lookup"
    /\ turn' = IF oracle.lookup = None THEN Conclude(None)
               ELSE [at |-> "episodes", id |-> oracle.lookup, cached |-> FALSE]
    /\ UNCHANGED <<world, clock, Stored>>

\* Mutant: a 404 on a cached id is read as no counterpart, the id kept.
GetKeepsStale ==
    /\ turn.at = "episodes"
    /\ turn' = IF oracle.serves[turn.id] # Gone
               THEN [at |-> "judge", link |-> IF turn.cached THEN "kept" ELSE turn.id,
                     answer |-> oracle.serves[turn.id]]
               ELSE IF turn.cached THEN Conclude("kept") ELSE Conclude(None)
    /\ UNCHANGED <<world, clock, Stored>>

\* get_show_episodes: a 404 on a cached id asks for the id again, on an id just
\* looked up it is no counterpart.
GetShowEpisodes ==
    /\ turn.at = "episodes"
    /\ turn' = IF oracle.serves[turn.id] # Gone
               THEN [at |-> "judge", link |-> IF turn.cached THEN "kept" ELSE turn.id,
                     answer |-> oracle.serves[turn.id]]
               ELSE IF turn.cached THEN [at |-> "lookup"] ELSE Conclude(None)
    /\ UNCHANGED <<world, clock, Stored>>

\* Mutant: the dates that readers see are judged.
JudgeVisible ==
    /\ turn.at = "judge"
    /\ turn' = [at |-> "commit", link |-> turn.link,
                dates |-> <<[e \in OurEpisodes |-> Raw(rows)[e]], turn.answer>>,
                verdicts |-> Verdicts([d \in Dated |-> rows[d].air], turn.answer)]
    /\ UNCHANGED <<world, clock, Stored>>

\* _our_episodes and judge_seasons, against TMDB's dates and not ours.
JudgeSeasons ==
    /\ turn.at = "judge"
    /\ turn' = [at |-> "commit", link |-> turn.link,
                dates |-> <<[e \in OurEpisodes |-> Raw(rows)[e]], turn.answer>>,
                verdicts |-> Verdicts(Raw(rows), turn.answer)]
    /\ UNCHANGED <<world, clock, Stored>>

\* replace_season_offsets, project_offsets, mark_reconciled.  Without a
\* counterpart only the link and the stamp are written.
CommitTurn ==
    /\ turn.at = "commit"
    /\ link' = IF turn.link = "kept" THEN link ELSE [id |-> turn.link, asked |-> 0]
    /\ IF turn.dates = <<>>
       THEN UNCHANGED <<offsets, rows, judged, crossed>>
       ELSE /\ offsets' = Replaced(offsets, turn.verdicts)
            /\ rows' = Projected(offsets', rows)
            /\ judged' = turn.dates /\ crossed' = FALSE
    /\ since' = 0 /\ clock' = Stamped("turn", "reconciled")
    /\ turn' = Idle
    /\ UNCHANGED <<world, mirrored, day, ran, upsert, events>>

\* An exception, a deadlock or a crash: nothing is written, nothing stamped.
FailTurn ==
    /\ turn # Idle /\ events < MaxEvents
    /\ events' = events + 1
    /\ turn' = Idle /\ clock' = Without({"turn"})
    /\ UNCHANGED <<world, rows, mirrored, offsets, link, since, day, ran, upsert, judged, crossed>>

-----------------------------------------------------------------------------
\* A day passes, whether or not the pass ran.  Neither transaction lasts that
\* long.
Tick ==
    /\ turn = Idle /\ upsert = Idle
    /\ day' = (day + 1) % SweepDays /\ ran' = FALSE
    /\ since' = IF since = Never \/ since > SweepFloor THEN since ELSE since + 1
    /\ link' = IF link.asked = Never \/ link.asked >= MissingDays THEN link
               ELSE [link EXCEPT !.asked = @ + 1]
    /\ UNCHANGED <<world, rows, mirrored, offsets, clock, upsert, turn, judged, crossed, events>>

\* TMDB or TV Maze changes a date, an id moves or goes; the show is followed,
\* no longer followed, or has aired its last.
Change ==
    /\ events < MaxEvents
    /\ events' = events + 1
    /\ \/ /\ tmdb' \in Schedules \ {tmdb}
          /\ UNCHANGED <<oracle, tracked, airing>>
       \/ /\ oracle' \in Oracles \ {oracle}
          /\ UNCHANGED <<tmdb, tracked, airing>>
       \/ /\ tracked' = ~tracked
          /\ UNCHANGED <<tmdb, oracle, airing>>
       \/ /\ airing /\ airing' = FALSE
          /\ UNCHANGED <<tmdb, oracle, tracked>>
    /\ UNCHANGED <<rows, mirrored, offsets, link, since, clock, day, ran, upsert, turn,
                   judged, crossed>>

Turn == LoadLink \/ LookupShow \/ GetShowEpisodes \/ JudgeSeasons \/ CommitTurn
Next ==
    \/ StartUpsert \/ CommitUpsert \/ FailUpsert
    \/ BeginPass \/ Turn \/ FailTurn
    \/ Tick \/ Change

Spec == Init /\ [][Next]_vars

\* Transactions end, days pass, and the pass runs on some night again and again,
\* though not on every night and not on any given turn of the sweep.
FairSpec ==
    /\ Spec
    /\ WF_vars(CommitUpsert) /\ WF_vars(Turn) /\ WF_vars(Tick)
    /\ SF_vars(BeginPass)

-----------------------------------------------------------------------------
Answers == [OurEpisodes -> Dates]
TurnOK ==
    /\ turn.at \in {"idle", "listed", "lookup", "episodes", "judge", "commit"}
    /\ turn.at = "episodes" => turn.id \in Ids
    /\ turn.at \in {"judge", "commit"} => turn.link \in Ids \cup {None, "kept"}
    /\ turn.at = "judge" => turn.answer \in Answers
    /\ turn.at = "commit" /\ turn.dates # <<>>
        => turn.verdicts \in [Seasons -> {-1, 0, 1, Refused}]

UpsertOK ==
    /\ upsert.at \in {"idle", "write"}
    /\ upsert.at = "write" => /\ upsert.offsets \in OffsetTables(Seasons)
                              /\ upsert.dates \in [Given -> Dates]

TypeOK ==
    /\ tmdb \in [Given -> Dates] /\ mirrored \in [Given -> Dates]
    /\ oracle \in Oracles /\ offsets \in OffsetTables(Seasons)
    /\ link.id \in Ids \cup {None}
    /\ TurnOK /\ UpsertOK

\* The two writers need not agree on the season of the last date: only the one
\* reads last_episode_to_air, only the other what was authored.
LastSeasons == {LastGiven(mirrored), LastStored(Uncorrected(mirrored))}

\* Date d is stored as the offsets of this table have it.
Derived(table, d) ==
    \E last \in LastSeasons : rows[d] = Pair(table, Uncorrected(mirrored)[d], SeasonFor(d, last))

\* TMDB's dates, and the authored ones, can always be told from what is stored,
\* whatever corrections came, went and raced, and what is stored is those dates
\* with the recorded offsets on them: unless the last upsert had read the offsets
\* before a turn of the pass changed them and wrote after it, which an authored
\* episode does not meet (offsets.pair, project_offsets).
DatesDerive ==
    /\ Raw(rows) = Uncorrected(mirrored)
    /\ \A d \in Dated : Derived(offsets, d) \/ (crossed /\ d \notin Authored)

\* A turn that finds the dates of both sides as the last verdict found them
\* leaves the offsets as they are: a correction is never evidence against itself
\* (reconcile._our_episodes).
NoFlapping == [][judged # <<>> /\ judged' = judged => offsets' = offsets]_vars

\* What the verdicts of the dates as they are ask of the offsets.
Settled(id) ==
    /\ oracle.serves[id] # Gone
    /\ \A d \in Dated : Derived(offsets, d)
    /\ LET verdicts == Verdicts(Uncorrected(mirrored), oracle.serves[id])
       IN \A s \in Seasons :
            CASE verdicts[s] = Refused -> TRUE
              [] verdicts[s] = 0 -> s \notin DOMAIN offsets
              [] OTHER -> s \in DOMAIN offsets /\ offsets[s] = verdicts[s]

\* Self-healing: a show that stays in scope and has a counterpart comes to be
\* compared with it, and shows the dates that the comparison justifies: though
\* nights are missed, a link goes stale, a negative is remembered, a stamp hides
\* a change and an upsert overwrites a correction.
Resolvable == oracle.lookup # None /\ oracle.serves[oracle.lookup] # Gone
Heals == <>[](InScope /\ Resolvable => link.id # None /\ Settled(link.id))
=============================================================================
