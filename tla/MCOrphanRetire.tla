--------------------------- MODULE MCOrphanRetire ---------------------------
(* Instances of OrphanRetire for TLC.  Show 1 has a revival, 2, that its    *)
(* last season belongs to; show 3 is an orphan that is known by the titles  *)
(* of 2; show 4 is an orphan that an import refers to, and mostly has no    *)
(* episodes.                                                                *)
EXTENDS OrphanRetire

CONSTANTS amy, N, C, D, T0, T1, T2, T3, D1, D2

Show(id, name, ingested) == [id |-> id, name |-> name, ingested |-> ingested]
TheShows == {Show(1, N, TRUE), Show(2, N, TRUE), Show(3, C, FALSE), Show(4, D, FALSE)}

Season(id, show, number, ingested) ==
    [id |-> id, show |-> show, number |-> number, ingested |-> ingested]
TheSeasons == {Season(31, 1, 1, TRUE), Season(32, 1, 1, FALSE), Season(33, 3, 1, FALSE)}

Episode(id, show, season, number, title, date, home) ==
    [id |-> id, show |-> show, season |-> season, number |-> number,
     title |-> title, date |-> date, ingested |-> id >= 20, home |-> home]

\* The ingested episodes: one of show 1, still below the orphan season of its
\* number, and two of the revival.
Ingested(title) ==
    {Episode(21, 1, 1, 1, T0, D1, 32),
     Episode(22, 2, 1, 1, title, D1, NoSeason),
     Episode(23, 2, 1, 2, T2, D2, NoSeason)}

\* The orphans: the pilot of show 1, and two episodes of what was its ninth
\* season; two of show 3, one of them a special or not.
Orphans(first, last) ==
    {Episode(11, 1, 1, first, T0, NoDate, 32),
     Episode(12, 1, 9, 1, T1, NoDate, NoSeason),
     Episode(13, 1, 9, 2, T2, D2, NoSeason),
     Episode(14, 3, 1, 1, T1, D1, 33),
     Episode(15, 3, 1, last, T2, NoDate, 33)}

\* In the second, show 3 has an ingested episode that two of its orphans claim,
\* one by the number and one by the title.
SameTitles == Ingested(T1) \cup Orphans(1, -1)
OtherTitle == Ingested(T3) \cup Orphans(4, 2) \cup {Episode(25, 3, 1, 2, T1, NoDate, 33)}

\* In the third, show 4 is known by the titles of what was ingested for show 3,
\* so that history on 4 follows to 3, and from there to 2.
Chained == SameTitles \cup
    {Episode(25, 3, 2, 1, T0, D1, NoSeason), Episode(26, 3, 2, 2, T3, D2, NoSeason),
     Episode(16, 4, 1, 1, T0, NoDate, NoSeason), Episode(17, 4, 1, 2, T3, NoDate, NoSeason)}
TheCatalogs == {SameTitles, OtherTitle, Chained}
TheCatalog == {SameTitles}

EpisodeFacts == {<<"watch", amy, 11>>, <<"watch", amy, 12>>, <<"rating", amy, 13>>,
                 <<"watch", amy, 14>>, <<"watch", amy, 22>>}
\* A second episode of that title, and of the number of one orphan.
LateEpisode == {Episode(24, 1, 1, 4, T2, NoDate, 31)}

ShowFacts == {<<"watch", amy, 3>>, <<"watch", amy, 2>>, <<"watch", amy, 4>>}
Marks == EpisodeFacts \cup ShowFacts
Histories == {h \cup {<<"watch", amy, 4>>} : h \in SUBSET (EpisodeFacts \cup ShowFacts)}
Following == {{<<"watch", amy, 3>>}}

=============================================================================
