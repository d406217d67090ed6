------------------------- MODULE OrphanRetireProofs -------------------------
(***************************************************************************)
(* The retirement of orphans, for any catalog, history, links, limits and  *)
(* requests in between (OrphanAssumption): no history that has somewhere   *)
(* to go is lost, nothing of the ingest goes, a run that comes to its end  *)
(* has retired all that nothing hangs on, and what it deletes is what the  *)
(* report before it said.                                                  *)
(*                                                                         *)
(* It rests on the matcher (OrphanMatching): whatever the episodes, one    *)
(* orphan is paired with one twin.  A transaction then takes rows only     *)
(* from what leaves, and orphans are all that ever leaves (ChangesFit);    *)
(* pairs lead to what stays (PairsFit), or for shows, to one that has      *)
(* ingested episodes and so stays (LinksFit); what a statement has done is *)
(* done (Carried), as the rows it changed are locked; and orphans are      *)
(* ahead of the run, in its hands or gone (Ahead).  For the report, what   *)
(* is on those still ahead is what was there when it was made, and their   *)
(* plans would come out as they did then (Foretold).                       *)
(***************************************************************************)
EXTENDS OrphanRetire, TLAPS

-----------------------------------------------------------------------------
(* The matcher of the retirement: whatever the episodes, it pairs one      *)
(* orphan with one twin.                                                   *)

Placed(some) ==
    \A e \in some : e.season \in Int /\ e.number \in Int

\* No orphan has two twins, and no twin two orphans.
OneToOne(pairs) == \A p, q \in pairs : p[1] = q[1] <=> p[2] = q[2]
PairsOf(pairs, orphans, others) == pairs \subseteq orphans \X others

-----------------------------------------------------------------------------
(* Within a tier, so that the order in which the orphans are walked does   *)
(* not matter.                                                             *)

\* An exact key is one orphan's and one ingested row's.
LEMMA ExactKeyOneToOne ==
    ASSUME NEW orphans, NEW ingested
    PROVE  OneToOne(ExactKey(orphans, ingested))
<1> SUFFICES ASSUME NEW p \in ExactKey(orphans, ingested),
                    NEW q \in ExactKey(orphans, ingested)
             PROVE  p[1] = q[1] <=> p[2] = q[2]
    BY DEF OneToOne
<1>1. /\ p[1] \in orphans /\ p[2] \in ingested
      /\ Keyed(Key(p[1]), orphans) = {p[1]} /\ Keyed(Key(p[1]), ingested) = {p[2]}
    BY DEF ExactKey
<1>2. /\ q[1] \in orphans /\ q[2] \in ingested
      /\ Keyed(Key(q[1]), orphans) = {q[1]} /\ Keyed(Key(q[1]), ingested) = {q[2]}
    BY DEF ExactKey
<1>3. Key(p[2]) = Key(p[1]) /\ Key(q[2]) = Key(q[1])
    BY <1>1, <1>2 DEF Keyed
<1>4. ASSUME p[2] = q[2] PROVE p[1] = q[1]
    <2>1. q[1] \in Keyed(Key(p[1]), orphans)
        BY <1>2, <1>3, <1>4 DEF Keyed
    <2> QED BY <2>1, <1>1
<1> QED BY <1>1, <1>2, <1>4

\* A title is one orphan's and one other row's.
LEMMA UniqueTitleOneToOne ==
    ASSUME NEW orphans, NEW others
    PROVE  OneToOne(UniqueTitle(orphans, others))
<1> SUFFICES ASSUME NEW p \in UniqueTitle(orphans, others),
                    NEW q \in UniqueTitle(orphans, others)
             PROVE  p[1] = q[1] <=> p[2] = q[2]
    BY DEF OneToOne
<1>1. /\ p[1] \in orphans
      /\ Titled(p[1].title, orphans) = {p[1]} /\ Titled(p[1].title, others) = {p[2]}
    BY DEF UniqueTitle
<1>2. /\ q[1] \in orphans
      /\ Titled(q[1].title, orphans) = {q[1]} /\ Titled(q[1].title, others) = {q[2]}
    BY DEF UniqueTitle
<1>3. p[2].title = p[1].title /\ q[2].title = q[1].title /\ q[1].title # Blank
    BY <1>1, <1>2 DEF Titled
<1>4. ASSUME p[2] = q[2] PROVE p[1] = q[1]
    <2>1. q[1] \in Titled(p[1].title, orphans)
        BY <1>2, <1>3, <1>4 DEF Titled
    <2> QED BY <2>1, <1>1
<1> QED BY <1>1, <1>2, <1>4

\* A constant offset takes different keys to different keys.
LEMMA ShiftedKeyOneToOne ==
    ASSUME NEW orphans, NEW linked, NEW offset \in Int,
           Placed(orphans), Placed(linked)
    PROVE  OneToOne(ShiftedKey(orphans, linked, offset))
<1> SUFFICES ASSUME NEW p \in ShiftedKey(orphans, linked, offset),
                    NEW q \in ShiftedKey(orphans, linked, offset)
             PROVE  p[1] = q[1] <=> p[2] = q[2]
    BY DEF OneToOne
<1>1. /\ p[1] \in orphans /\ p[2] \in linked
      /\ Keyed(Key(p[1]), orphans) = {p[1]}
      /\ Keyed(<<p[1].season - offset, p[1].number>>, linked) = {p[2]}
    BY DEF ShiftedKey
<1>2. /\ q[1] \in orphans /\ q[2] \in linked
      /\ Keyed(Key(q[1]), orphans) = {q[1]}
      /\ Keyed(<<q[1].season - offset, q[1].number>>, linked) = {q[2]}
    BY DEF ShiftedKey
<1>3. /\ Key(p[2]) = <<p[1].season - offset, p[1].number>>
      /\ Key(q[2]) = <<q[1].season - offset, q[1].number>>
    BY <1>1, <1>2 DEF Keyed
<1>4. ASSUME p[2] = q[2] PROVE p[1] = q[1]
    <2>1. p[1].season - offset = q[1].season - offset /\ p[1].number = q[1].number
        BY <1>3, <1>4
    <2>2. p[1].season \in Int /\ q[1].season \in Int
        BY <1>1, <1>2 DEF Placed
    <2>3. p[1].season = q[1].season
        BY <2>1, <2>2
    <2>4. q[1] \in Keyed(Key(p[1]), orphans)
        BY <2>1, <2>3, <1>2 DEF Keyed, Key
    <2> QED BY <2>4, <1>1
<1> QED BY <1>1, <1>2, <1>4

-----------------------------------------------------------------------------
(* From tier to tier                                                       *)

\* A tier added to what is placed keeps it one to one.
LEMMA ThenOneToOne ==
    ASSUME NEW pairs, NEW tier, OneToOne(pairs), OneToOne(tier)
    PROVE  OneToOne(Then(pairs, tier)) /\ pairs \subseteq Then(pairs, tier)
<1>1. ASSUME NEW p \in Then(pairs, tier), NEW q \in Then(pairs, tier)
      PROVE  p[1] = q[1] <=> p[2] = q[2]
    <2>1. CASE p \in pairs /\ q \in pairs
        BY <2>1 DEF OneToOne
    <2>2. CASE p \in tier /\ q \in tier
        BY <2>2 DEF OneToOne
    <2>3. CASE p \in pairs /\ q \notin pairs
        BY <2>3 DEF Then
    <2>4. CASE p \notin pairs /\ q \in pairs
        BY <2>4 DEF Then
    <2> QED BY <2>1, <2>2, <2>3, <2>4 DEF Then
<1> QED BY <1>1 DEF OneToOne, Then

LEMMA OwnMatchesOneToOne ==
    ASSUME NEW orphans, NEW ingested
    PROVE  /\ OneToOne(OwnMatches(orphans, ingested))
           /\ ExactKey(orphans, ingested) \subseteq OwnMatches(orphans, ingested)
BY ExactKeyOneToOne, UniqueTitleOneToOne, ThenOneToOne DEF OwnMatches

\* match_episodes: for any orphans, any ingested episodes of their show and any
\* link, no twin is claimed by two orphans, and no orphan has two twins.
THEOREM MatchesOneToOne ==
    ASSUME NEW orphans, NEW ingested, NEW linked, NEW link,
           link.offset \in Int \cup {NoOffset},
           Placed(orphans), Placed(linked)
    PROVE  OneToOne(Matches(orphans, ingested, link, linked))
<1> DEFINE own == OwnMatches(orphans, ingested)
           shifted == IF link.offset = NoOffset THEN own
                      ELSE Then(own, ShiftedKey(orphans, linked, link.offset))
<1>1. OneToOne(own)
    BY OwnMatchesOneToOne
<1>2. OneToOne(shifted)
    <2>1. CASE link.offset = NoOffset
        BY <2>1, <1>1
    <2>2. CASE link.offset # NoOffset
        BY <2>2, <1>1, ShiftedKeyOneToOne, ThenOneToOne
    <2> QED BY <2>1, <2>2
<1>3. OneToOne(Then(shifted, UniqueTitle(orphans, linked)))
    BY <1>2, UniqueTitleOneToOne, ThenOneToOne
<1> QED BY <1>1, <1>3 DEF Matches

\* What pairs is an orphan of the show and an ingested episode of it or of the
\* linked show.
THEOREM MatchesWithin ==
    ASSUME NEW orphans, NEW ingested, NEW linked, NEW link
    PROVE  PairsOf(Matches(orphans, ingested, link, linked), orphans, ingested \cup linked)
BY DEF PairsOf, Matches, OwnMatches, Then, ExactKey, UniqueTitle, ShiftedKey

\* The report's breakdowns agree: an orphan whose cause is an exact twin is one
\* that tier 0 places, and no later tier or link takes its twin away.
THEOREM ExactTwinsMove ==
    ASSUME NEW orphans, NEW ingested, NEW linked, NEW link, NEW o \in orphans,
           Cause(o, TRUE, orphans, ingested) = "exact_twin"
    PROVE  \E t \in ingested : /\ <<o, t>> \in ExactKey(orphans, ingested)
                               /\ <<o, t>> \in Matches(orphans, ingested, link, linked)
<1>1. PICK t \in Keyed(Key(o), ingested) :
          Keyed(Key(o), ingested) = {t} /\ Keyed(Key(o), orphans) = {o}
    BY DEF Cause
<1>2. t \in ingested /\ <<o, t>> \in ExactKey(orphans, ingested)
    BY <1>1 DEF ExactKey, Keyed
<1>3. <<o, t>> \in OwnMatches(orphans, ingested)
    BY <1>2, OwnMatchesOneToOne
<1>4. OwnMatches(orphans, ingested) \subseteq Matches(orphans, ingested, link, linked)
    BY DEF Matches, Then
<1> QED BY <1>2, <1>3, <1>4

-----------------------------------------------------------------------------
(* The inductive invariant                                                 *)

OfEpisodes == InTransaction /\ ~OfShows
RetiringShows == InTransaction /\ OfShows
\* The stages of a transaction up to what is in the middle of it.
Moving == pass.at \in {"watch", "rating", "event", "middle"}

\* What the transaction may take rows away from.
Leaving == IF OfShows THEN OrphanShows ELSE Ids(OrphansOf(pass.show))

\* Keys name rows, and nothing of the ingest has gone.
Upstanding ==
    /\ \A e \in episodes : e.show \in Ids(shows) /\ e.home \in Ids(seasons) \cup {NoSeason}
    /\ Mirrored(Shows) \subseteq shows /\ Mirrored(Seasons) \subseteq seasons

\* What is still to be done: orphans ahead of the run, in its hands, or none.
Ahead ==
    /\ pass.at = "next" => \A e \in Orphaned(episodes) : e.show \in pass.work
    /\ OfEpisodes => /\ \A e \in Orphaned(episodes) : e.show \in pass.work \cup {pass.show}
                     /\ pass.doomed = Leaving
    /\ pass.at = "seasons" => pass.doomed = Ids(Orphaned(seasons))
    /\ pass.at = "seasons" \/ RetiringShows => Orphaned(episodes) = {} /\ pass.work = {}
    /\ RetiringShows =>
        /\ Orphaned(seasons) = {}
        /\ pass.doomed \subseteq OrphanShows
        /\ Moving => pass.doomed = OrphanShows
        /\ ~Moving => \A s \in OrphanShows :
            s \in pass.doomed <=>
                (s \notin Staged /\ \A r \in episodes \cup seasons : r.show # s)

\* A link leads one show to another, that is ingested or has episodes that are.
Lasting(s) == s \in Ids(Mirrored(shows)) \/ \E e \in Mirrored(episodes) : e.show = s
LinksFit ==
    /\ \A p \in pass.links : p[1] \notin pass.work /\ Lasting(p[2])
    /\ \A p, q \in pass.links : p[1] = q[1] => p = q

\* What the run has read of ingested shows is there.
CacheFits ==
    pass.at \in {"idle", "seasons"} \/ RetiringShows \/
    \A s \in DOMAIN pass.cache : pass.cache[s] \subseteq Mirrored(episodes)

\* A pair leads from what the transaction takes away to what stays.
PairsFit ==
    InTransaction =>
        /\ \A p, q \in pass.pairs : p[1] = q[1] => p = q
        /\ OfEpisodes => \A p \in pass.pairs : p[1] \in Leaving /\ p[2] \in Ids(Mirrored(episodes))
        /\ RetiringShows => pass.pairs = {p \in pass.links : p[1] \in OrphanShows}

\* What has been done of the transaction.
Done == CASE pass.at \in {"idle", "next", "seasons", "watch"} -> {}
          [] pass.at = "rating" -> {"watch"}
          [] OTHER -> FactKinds
ChangesFit ==
    /\ \A r \in txn.del : r[3] \in Leaving
    /\ \A r \in txn.add :
        IF OfEpisodes THEN r[3] \in Ids(Mirrored(episodes)) \cup Ids(shows) ELSE Lasting(r[3])
    /\ \A r \in txn.del \cup txn.add : r[1] \in FactKinds => r[1] \in Done
    /\ InTransaction \/ fresh = {}

\* A fact on what leaves is where its pair leads; or, where a fact was there
\* already and that has moved on, where that has moved to.
Arrived(f, p) == \/ Landed(f, p[2]) \in View
                 \/ \E u \in Survivors(pass.pairs, p[2]) : Landed(f, u) \in txn.add
Carried ==
    InTransaction =>
        \A f \in rows : f[1] \in Done =>
            \A p \in pass.pairs :
                p[1] = f[3] /\ {f, Landed(f, p[2])} \cap fresh = {} => Arrived(f, p)

\* Who was moved into another show follows it.
Followed ==
    OfEpisodes /\ ~Moving => Tracking \subseteq View \cup fresh

IInv == /\ TypeOK /\ Upstanding /\ Ahead /\ LinksFit /\ CacheFits
        /\ PairsFit /\ ChangesFit /\ Carried /\ Followed

-----------------------------------------------------------------------------
(* Rows and landings                                                       *)

LEMMA LandedIs ==
    ASSUME NEW f \in AllRows, NEW t
    PROVE  Landed(f, t) = <<f[1], f[2], t>>
BY DEF Landed, AllRows

-----------------------------------------------------------------------------
(* What the planner comes to                                               *)

LEMMA OffsetsPlaced ==
    ASSUME NEW orphans, NEW candidates, Placed(orphans), Placed(candidates)
    PROVE  Unanimous(Offsets(Evidence(orphans, candidates))) \in Int \cup {NoOffset}
<1> DEFINE offsets == Offsets(Evidence(orphans, candidates))
<1>1. offsets \subseteq Int
  BY DEF Offsets, Evidence, Placed
<1>2. Unanimous(offsets) \in offsets \cup {NoOffset}
  <2> HIDE DEF offsets
  <2>1. CASE \E k \in offsets : offsets = {k}
    BY <2>1 DEF Unanimous
  <2>2. CASE ~(\E k \in offsets : offsets = {k})
    BY <2>2 DEF Unanimous
  <2> QED BY <2>1, <2>2
<1> QED BY <1>1, <1>2

LEMMA ResolveFits ==
    ASSUME NEW orphans, NEW siblings, NEW rowsOf,
           Placed(orphans), \A s \in siblings : Placed(rowsOf[s])
    PROVE  \/ ResolveLink(orphans, siblings, rowsOf) = NoLink
           \/ \E s \in siblings, k \in Int \cup {NoOffset} :
                 ResolveLink(orphans, siblings, rowsOf) = Link(s, k)
<1> DEFINE proven == {s \in siblings : Evidence(orphans, rowsOf[s]) # {}}
           alone == CHOOSE s \in proven : TRUE
           lone == CHOOSE s \in siblings : TRUE
<1>1. CASE \E s \in proven : proven = {s}
  <2>1. alone \in siblings
    BY <1>1
  <2>2. Unanimous(Offsets(Evidence(orphans, rowsOf[alone]))) \in Int \cup {NoOffset}
    BY <2>1, OffsetsPlaced
  <2>3. ResolveLink(orphans, siblings, rowsOf) =
            Link(alone, Unanimous(Offsets(Evidence(orphans, rowsOf[alone]))))
    BY <1>1 DEF ResolveLink
  <2> QED BY <2>1, <2>2, <2>3
<1>2. CASE ~(\E s \in proven : proven = {s}) /\ proven = {} /\ \E s \in siblings : siblings = {s}
  <2>1. lone \in siblings
    BY <1>2
  <2>2. ResolveLink(orphans, siblings, rowsOf) = Link(lone, NoOffset)
    BY <1>2 DEF ResolveLink
  <2> QED BY <2>1, <2>2
<1>3. CASE /\ ~(\E s \in proven : proven = {s})
           /\ ~(proven = {} /\ \E s \in siblings : siblings = {s})
  BY <1>3 DEF ResolveLink
<1> QED BY <1>1, <1>2, <1>3

LEMMA TitlesFit ==
    ASSUME NEW from, NEW orphans, NEW among
    PROVE  \/ LinkByTitles(from, orphans, among) = NoLink
           \/ \E e \in among : LinkByTitles(from, orphans, among) = Link(e.show, NoOffset)
<1> DEFINE titles == {o.title : o \in orphans} \ {Blank}
           votes == [s \in {e.show : e \in among} \ {from} |->
                        Cardinality({t \in titles :
                            Cardinality({e \in Titled(t, among) : e.show = s}) = 1})]
           matched == {t \in titles : Titled(t, among) # {}}
           winners == {s \in DOMAIN votes :
                          /\ \A r \in DOMAIN votes \ {s} : votes[r] < votes[s]
                          /\ votes[s] >= MinVotes
                          /\ 2 * votes[s] >= Cardinality(matched)}
<1>1. LinkByTitles(from, orphans, among) =
          IF winners = {} THEN NoLink ELSE Link(CHOOSE s \in winners : TRUE, NoOffset)
  BY DEF LinkByTitles
<1>2. winners \subseteq {e.show : e \in among}
  BY Zenon
<1> HIDE DEF winners
<1> QED BY <1>1, <1>2

\* A lookup of the cache gives ingested episodes.
CacheHolds(cache) == \A s \in DOMAIN cache : cache[s] \subseteq Mirrored(episodes)
LEMMA CachedFits ==
    ASSUME NEW cache, CacheHolds(cache), NEW s
    PROVE  Cached(cache, s) \subseteq Mirrored(episodes)
BY DEF Cached, IngestedOf, Mirrored, CacheHolds

LEMMA RowsPlaced ==
    ASSUME TypeOK, NEW records \in SUBSET episodes
    PROVE  Placed(records)
BY DEF TypeOK, EpisodeRows, Placed

\* The link of a show leads to one that lasts.
LEMMA LinkFits ==
    ASSUME TypeOK, Upstanding, NEW s \in shows, NEW cache, CacheHolds(cache),
           PlanLink(s, cache) # NoLink
    PROVE  /\ Lasting(PlanLink(s, cache).to)
           /\ PlanLink(s, cache).offset \in Int \cup {NoOffset}
<1> DEFINE siblings == Siblings(s)
           rowsOf == [x \in siblings |-> Cached(cache, x)]
<1>1. CASE siblings # {}
  <2>1. Placed(OrphansOf(s.id))
    BY RowsPlaced DEF OrphansOf
  <2>2. \A x \in siblings : Placed(rowsOf[x])
    BY RowsPlaced, CachedFits DEF Mirrored
  <2>3. PICK x \in siblings, k \in Int \cup {NoOffset} : PlanLink(s, cache) = Link(x, k)
    BY <1>1, <2>1, <2>2, ResolveFits DEF PlanLink
  <2>4. x \in Ids(Mirrored(shows))
    BY DEF Siblings, Ids, Mirrored
  <2> QED BY <2>3, <2>4 DEF Lasting, Link
<1>2. CASE siblings = {}
  <2>1. PlanLink(s, cache) = LinkByTitles(s.id, OrphansOf(s.id), Mirrored(episodes))
    BY <1>2 DEF PlanLink, Mirrored
  <2>2. PICK e \in Mirrored(episodes) : PlanLink(s, cache) = Link(e.show, NoOffset)
    BY <2>1, TitlesFit
  <2> QED BY <2>2 DEF Lasting, Link
<1> QED BY <1>1, <1>2

LEMMA LastingShows ==
    ASSUME TypeOK, NEW s, Lasting(s)
    PROVE  s \in Ids(Shows)
BY DEF TypeOK, Lasting, Mirrored, Ids, EpisodeRows

\* The pairs of a show: its orphans with ingested episodes, one to one.
LEMMA PairsPlanned ==
    ASSUME TypeOK, Upstanding, NEW s \in shows, NEW cache, CacheHolds(cache),
           NEW link, link = PlanLink(s, cache)
    PROVE  LET pairs == IdPairs(PlanMatches(s, link, cache)) IN
           /\ \A p \in pairs : /\ p \in Ids(OrphansOf(s.id)) \X Ids(Mirrored(episodes))
           /\ \A p, q \in pairs : p[1] = q[1] <=> p[2] = q[2]
           /\ \A p, q \in pairs : p[1] = q[1] => p = q
<1> DEFINE matches == PlanMatches(s, link, cache)
           pairs == IdPairs(matches)
           linked == Linked(link, cache)
<1>1. OrphansOf(s.id) \subseteq episodes /\ IngestedOf(s.id) \subseteq Mirrored(episodes)
  BY DEF OrphansOf, IngestedOf, Mirrored
<1>2. linked \subseteq Mirrored(episodes)
  BY CachedFits DEF Linked
<1>3. matches \subseteq OrphansOf(s.id) \X Mirrored(episodes)
  BY <1>1, <1>2, MatchesWithin DEF PlanMatches, PairsOf
<1>4. Placed(OrphansOf(s.id)) /\ Placed(linked)
  BY <1>1, <1>2, RowsPlaced DEF Mirrored
<1>5. OneToOne(matches)
  <2>1. CASE link = NoLink
    <3>1. matches = OwnMatches(OrphansOf(s.id), IngestedOf(s.id))
      BY <2>1 DEF PlanMatches, Matches
    <3> QED BY <3>1, OwnMatchesOneToOne
  <2>2. CASE link # NoLink
    BY <2>2, <1>4, LinkFits, MatchesOneToOne DEF PlanMatches
  <2> QED BY <2>1, <2>2
<1> HIDE DEF matches, linked
<1>6. \A p \in pairs : \E m \in matches : p = <<m[1].id, m[2].id>>
  BY DEF IdPairs
<1>7. \A m \in matches : m[1] \in OrphansOf(s.id) /\ m[2] \in Mirrored(episodes)
  BY <1>3
<1> HIDE DEF pairs
<1>8. \A p \in pairs : p \in Ids(OrphansOf(s.id)) \X Ids(Mirrored(episodes))
  BY <1>6, <1>7 DEF Ids
<1>9. ASSUME NEW p \in pairs, NEW q \in pairs
      PROVE  (p[1] = q[1] <=> p[2] = q[2]) /\ (p[1] = q[1] => p = q)
  <2>1. PICK m \in matches : p = <<m[1].id, m[2].id>>
    BY <1>6
  <2>2. PICK n \in matches : q = <<n[1].id, n[2].id>>
    BY <1>6
  <2>3. m[1] \in episodes /\ m[2] \in episodes /\ n[1] \in episodes /\ n[2] \in episodes
    BY <1>1, <1>7 DEF Mirrored
  <2>4. /\ m[1].id = n[1].id <=> m[1] = n[1]
        /\ m[2].id = n[2].id <=> m[2] = n[2]
    BY <2>3 DEF TypeOK
  <2>5. m[1] = n[1] <=> m[2] = n[2]
    BY <1>5 DEF OneToOne
  <2> QED BY <2>1, <2>2, <2>4, <2>5
<1> QED BY <1>8, <1>9 DEF pairs, matches
-----------------------------------------------------------------------------
(* Types                                                                   *)

LEMMA IdsFit ==
    /\ Ids(Entries) \subseteq AllIds /\ Ids(Shows) \subseteq AllIds /\ Ids(Seasons) \subseteq AllIds
    /\ Ids(Entries) \cap Ids(Shows) = {}
    /\ 0 \notin Ids(Shows)
    /\ \A s, t \in Shows : s.id = t.id => s = t
    /\ \A s, t \in Seasons : s.id = t.id => s = t
<1>1. 0 \notin Ids(Shows)
  BY OrphanAssumption DEF Ids
<1>2. (\A s, t \in Shows : s.id = t.id => s = t) /\ (\A s, t \in Seasons : s.id = t.id => s = t)
  BY OrphanAssumption
<1> QED BY <1>1, <1>2, OrphanAssumption DEF AllIds, Ids

LEMMA FactIs ==
    ASSUME NEW f \in (UNION History) \cup Facts
    PROVE  f \in AllRows /\ f[1] \in FactKinds /\ EventOf(f) \in AllRows
<1>1. f \in FactKinds \X Users \X Ids(Entries \cup Shows)
  BY OrphanAssumption
<1>2. Ids(Entries \cup Shows) \subseteq AllIds
  BY DEF AllIds, Ids
<1> QED BY <1>1, <1>2 DEF FactKinds, EventOf, AllRows

\* What the types say of the tables, of the pass and of its transaction.
LEMMA TypedTables ==
    ASSUME TypeOK
    PROVE  /\ episodes \subseteq EpisodeRows /\ \A e, f \in episodes : e.id = f.id => e = f
           /\ seasons \subseteq Seasons /\ shows \subseteq Shows /\ rows \subseteq AllRows
           /\ Ids(episodes) \subseteq Ids(Entries) /\ Ids(shows) \subseteq Ids(Shows)
           /\ Ids(seasons) \subseteq Ids(Seasons)
BY DEF TypeOK, Ids, EpisodeRows

LEMMA TypedTxn ==
    ASSUME TypeOK
    PROVE  /\ txn.del \subseteq AllRows /\ txn.add \subseteq AllRows /\ txn.lost \subseteq txn.del
           /\ View \subseteq AllRows
           /\ InTransaction \/ txn = NoTxn
           /\ txn \in TxnRows
BY DEF TypeOK, View, TxnRows

LEMMA TypedPass ==
    ASSUME TypeOK
    PROVE  /\ pass \in PassRows(pass.cache)
           /\ \A s \in DOMAIN pass.cache : s \in Ids(Shows) /\ pass.cache[s] \subseteq EpisodeRows
           /\ OfShows \/ \A p, q \in pass.pairs : p[2] = q[2] => p = q
BY DEF TypeOK

LEMMA TypedRest ==
    ASSUME TypeOK
    PROVE  /\ fresh \subseteq Facts /\ asked \in Nat /\ asked \in 0 .. MaxRequests
           /\ report \in Reports
BY DEF TypeOK

\* No change: the pass at rest.
LEMMA AtRest ==
    /\ NoPass \in PassRows(<<>>)
    /\ NoPass.at = "idle" /\ NoPass.show = 0 /\ NoPass.links = {} /\ NoPass.pairs = {}
    /\ NoPass.doomed = {} /\ NoPass.work = {} /\ NoPass.cache = <<>> /\ DOMAIN NoPass.cache = {}
    /\ NoTxn \in TxnRows
    /\ NoTxn.del = {} /\ NoTxn.add = {} /\ NoTxn.lost = {}
    /\ NoReport \in Reports
    /\ ~NoReport.made /\ NoReport.losses = {}
BY DEF NoPass, NoTxn, NoReport, Stages, PassRows, TxnRows, Reports

\* The stage of a transaction.
InTxn(at) == at \notin {"idle", "next", "seasons"}
LEMMA StagesAre ==
    /\ Stages = {"idle", "next", "seasons", "delete", "watch", "rating", "event", "middle",
                 "clear_watch", "clear_rating", "clear_event"}
    /\ \A stage \in DOMAIN After : After[stage] \in Stages /\ InTxn(After[stage]) /\ InTxn(stage)
    /\ After["watch"] = "rating" /\ After["rating"] = "event" /\ After["event"] = "middle"
    /\ After["middle"] = "clear_watch" /\ After["clear_watch"] = "clear_rating"
    /\ After["clear_rating"] = "clear_event" /\ After["clear_event"] = "delete"
    /\ DOMAIN After = {"watch", "rating", "event", "middle", "clear_watch", "clear_rating",
                       "clear_event"}
BY DEF Stages, After, InTxn

LEMMA StepFacts ==
    ASSUME TypeOK, NEW stage \in DOMAIN After, Step(stage)
    PROVE  /\ pass.at = stage /\ pass'.at = After[stage] /\ pass'.at \in Stages
           /\ pass' = [pass EXCEPT !.at = After[stage]]
           /\ UNCHANGED <<pass.limited, pass.work, pass.links, pass.cache, pass.consumed,
                          pass.show, pass.pairs, pass.doomed>>
           /\ InTransaction /\ InTransaction'
           /\ pass' \in PassRows(pass.cache)
<1>1. After[stage] \in Stages /\ InTxn(After[stage]) /\ InTxn(stage)
  BY StagesAre
<1>2. pass.at = stage /\ pass' = [pass EXCEPT !.at = After[stage]]
  BY DEF Step
<1>3. pass \in PassRows(pass.cache)
  BY TypedPass
<1>4. pass'.at = After[stage]
  BY <1>2, <1>3 DEF PassRows
<1> QED BY <1>1, <1>2, <1>3, <1>4 DEF InTransaction, InTxn, PassRows

LEMMA TypeInit == Init => TypeOK
<1> SUFFICES ASSUME Init PROVE TypeOK
  OBVIOUS
<1>1. episodes \subseteq EpisodeRows /\ \A e, f \in episodes : e.id = f.id => e = f
  <2>1. episodes \in Catalogs /\ episodes \subseteq Entries
    BY DEF Init, Entries
  <2> QED BY <2>1, OrphanAssumption
<1>2. rows \subseteq AllRows
  <2>1. PICK facts \in History : rows = Recorded(facts)
    BY DEF Init
  <2> QED BY <2>1, FactIs DEF Recorded
<1>3. seasons = Seasons /\ shows = Shows /\ txn = NoTxn /\ pass = NoPass /\ fresh = {}
      /\ report = NoReport /\ asked = 0
  BY DEF Init
<1>4. asked \in 0 .. MaxRequests
  BY <1>3, OrphanAssumption
<1> QED BY <1>1, <1>2, <1>3, <1>4, AtRest DEF TypeOK, InTransaction, OfShows
-----------------------------------------------------------------------------
(* Steps that leave the pass alone                                         *)

\* Of IInv, all that is not said of types.
Rest == /\ Upstanding /\ Ahead /\ LinksFit /\ CacheFits
        /\ PairsFit /\ ChangesFit /\ Carried /\ Followed

LEMMA SameKeeps ==
    ASSUME Rest, UNCHANGED <<catalog, rows, txn, pass, fresh>>
    PROVE  Rest'
<1> USE DEF catalog, OfEpisodes, RetiringShows, InTransaction, OfShows, Moving, Leaving,
            OrphanShows, OrphansOf, Done, View
<1>1. Upstanding' /\ Ahead'
  BY DEF Rest, Upstanding, Ahead
<1>2. LinksFit' /\ CacheFits' /\ PairsFit'
  BY DEF Rest, LinksFit, CacheFits, PairsFit, Lasting
<1>3. ChangesFit' /\ Carried'
  BY DEF Rest, ChangesFit, Carried, Arrived, Lasting
<1>4. Followed'
  BY DEF Rest, Followed, Tracking
<1> QED BY <1>1, <1>2, <1>3, <1>4 DEF Rest

LEMMA ReportKeeps ==
    ASSUME IInv, Report
    PROVE  IInv'
<1>1. Rest'
  BY SameKeeps DEF IInv, Rest, Report
<1>2. Losses \subseteq AllRows
  <2>1. Losses \subseteq rows
    BY DEF Losses, EpisodeLosses, Unmoved, FactsOn, On
  <2> QED BY <2>1, TypedTables DEF IInv
<1>3. report' \in Reports
  BY <1>2 DEF Report, Reports
<1>4. TypeOK'
  BY <1>3 DEF IInv, TypeOK, Report, catalog, InTransaction, OfShows
<1> QED BY <1>1, <1>4 DEF IInv, Rest
-----------------------------------------------------------------------------
(* Steps between transactions                                              *)

LEMMA QuietFits ==
    ASSUME ~InTransaction', txn' = NoTxn, fresh' = {}
    PROVE  PairsFit' /\ ChangesFit' /\ Carried' /\ Followed'
<1>1. PairsFit' /\ Carried' /\ Followed'
  BY DEF PairsFit, Carried, Followed, OfEpisodes, RetiringShows
<1>2. ChangesFit'
  BY AtRest DEF ChangesFit
<1> QED BY <1>1, <1>2

\* Between transactions nothing is in hand.
LEMMA QuietTxn ==
    ASSUME IInv, ~InTransaction
    PROVE  txn = NoTxn /\ fresh = {}
BY TypedTxn DEF IInv, ChangesFit

LEMMA BeginsSound == Init => IInv
<1> SUFFICES ASSUME Init PROVE IInv
  OBVIOUS
<1>1. TypeOK
  BY TypeInit
<1>2. /\ seasons = Seasons /\ shows = Shows /\ txn = NoTxn /\ pass = NoPass /\ fresh = {}
      /\ episodes \in Catalogs
  BY DEF Init
<1>3. Upstanding
  BY <1>1, <1>2 DEF Upstanding, TypeOK, EpisodeRows, Mirrored
<1>4. ~InTransaction /\ pass.at = "idle"
  BY <1>2, AtRest DEF InTransaction
<1>5. Ahead /\ LinksFit /\ CacheFits
  BY <1>2, <1>4, AtRest DEF Ahead, LinksFit, CacheFits, OfEpisodes, RetiringShows
<1>6. PairsFit /\ Carried /\ Followed
  BY <1>4 DEF PairsFit, Carried, Followed, OfEpisodes, RetiringShows
<1>7. ChangesFit
  BY <1>2, AtRest DEF ChangesFit
<1> QED BY <1>1, <1>3, <1>5, <1>6, <1>7 DEF IInv

\* A run that is over leaves nothing in hand.
LEMMA OverFits ==
    ASSUME IInv, UNCHANGED <<episodes, seasons, shows>>, rows' \subseteq AllRows,
           txn' = NoTxn, pass' = NoPass, fresh' = {}, report' \in Reports, asked' = asked
    PROVE  IInv'
<1>1. ~InTransaction' /\ pass'.at = "idle"
  BY AtRest DEF InTransaction
<1>2. TypeOK'
  BY AtRest DEF IInv, TypeOK, OfShows
<1>3. Upstanding'
  BY DEF IInv, Upstanding
<1>4. Ahead' /\ LinksFit' /\ CacheFits'
  BY <1>1, AtRest DEF Ahead, LinksFit, CacheFits, OfEpisodes, RetiringShows
<1> QED BY <1>1, <1>2, <1>3, <1>4, QuietFits DEF IInv

LEMMA StopKeeps ==
    ASSUME IInv, StopAtLimit \/ Abort
    PROVE  IInv'
<1>1. report' \in Reports /\ rows' \subseteq AllRows
  BY TypedTables, TypedRest DEF IInv, StopAtLimit, Abort, Reports
<1>2. CASE StopAtLimit
  <2>1. ~InTransaction
    BY <1>2 DEF StopAtLimit, InTransaction
  <2> QED BY <1>1, <1>2, <2>1, QuietTxn, OverFits DEF StopAtLimit, catalog
<1>3. CASE Abort
  BY <1>1, <1>3, OverFits DEF Abort, catalog
<1> QED BY <1>2, <1>3

LEMMA StartKeeps ==
    ASSUME IInv, Start
    PROVE  IInv'
<1>1. PICK limited \in {FALSE, Limited} :
          pass' = [NoPass EXCEPT !.at = "next", !.limited = limited, !.work = WorkShows]
  BY DEF Start
<1>2. /\ UNCHANGED <<episodes, seasons, shows, rows, txn, fresh, report, asked>>
      /\ pass.at = "idle" /\ ~InTransaction
  BY DEF Start, catalog, InTransaction
<1>3. /\ pass'.at = "next" /\ pass'.work = WorkShows /\ pass'.links = {} /\ pass'.show = 0
      /\ pass'.cache = <<>> /\ DOMAIN pass'.cache = {} /\ ~InTransaction'
      /\ pass'.pairs = {} /\ pass'.doomed = {} /\ pass' \in PassRows(<<>>)
  <2>1. limited \in BOOLEAN
    BY OrphanAssumption
  <2>2. WorkShows \subseteq Ids(Shows)
    BY TypedTables DEF IInv, WorkShows, Ids
  <2>3. "next" \in Stages
    BY DEF Stages
  <2> QED BY <1>1, <2>1, <2>2, <2>3, AtRest DEF InTransaction, PassRows
<1>4. TypeOK'
  <2>1. pass' \in PassRows(pass'.cache)
    BY <1>3
  <2>2. OfShows' /\ DOMAIN pass'.cache = {}
    BY <1>3 DEF OfShows
  <2>3. txn' = NoTxn
    BY <1>2, QuietTxn
  <2> QED BY <1>2, <2>1, <2>2, <2>3 DEF IInv, TypeOK
<1>5. Upstanding'
  BY <1>2 DEF IInv, Upstanding
<1>6. \A e \in Orphaned(episodes) : e.show \in WorkShows
  <2>1. TAKE e \in Orphaned(episodes)
  <2>2. e \in episodes /\ ~e.ingested
    BY DEF Orphaned
  <2>3. PICK s \in shows : s.id = e.show
    BY <2>2 DEF IInv, Upstanding, Ids
  <2> QED BY <2>2, <2>3 DEF WorkShows, OrphansOf
<1>7. Ahead'
  BY <1>2, <1>3, <1>6 DEF Ahead, OfEpisodes, RetiringShows
<1>8. LinksFit' /\ CacheFits'
  BY <1>3 DEF LinksFit, CacheFits
<1> QED BY <1>2, <1>3, <1>4, <1>5, <1>7, <1>8, QuietTxn, QuietFits DEF IInv
-----------------------------------------------------------------------------
(* Planning a show                                                         *)

LinkOf(s) == PlanLink(s, pass.cache)
PairsOfShow(s) == IdPairs(PlanMatches(s, LinkOf(s), pass.cache))
Planning(s) ==
    /\ s.id \in pass.work /\ pass.at = "next"
    /\ pass'.at = IF OrphansOf(s.id) = {} THEN "next" ELSE "watch"
    /\ pass'.limited = pass.limited
    /\ pass'.work = pass.work \ {s.id} /\ pass'.show = s.id
    /\ pass'.links = pass.links \cup LinkPairs({<<s.id, LinkOf(s)>>})
    /\ DOMAIN pass'.cache = DOMAIN pass.cache \cup ReadBy(s, LinkOf(s))
    /\ \A x \in DOMAIN pass'.cache :
        pass'.cache[x] = IF x \in DOMAIN pass.cache THEN pass.cache[x] ELSE IngestedOf(x)
    /\ pass'.consumed \in BOOLEAN
    /\ pass'.pairs = PairsOfShow(s)
    /\ pass'.doomed = Ids(OrphansOf(s.id))
    /\ pass' = [at |-> pass'.at, limited |-> pass'.limited, work |-> pass'.work,
                links |-> pass'.links, cache |-> pass'.cache, consumed |-> pass'.consumed,
                show |-> pass'.show, pairs |-> pass'.pairs, doomed |-> pass'.doomed]
    /\ UNCHANGED <<episodes, seasons, shows, rows, txn, fresh, report, asked>>

LEMMA PlanFacts ==
    ASSUME TypeOK, Plan
    PROVE  \E s \in shows : Planning(s)
<1>1. PICK s \in shows :
        LET link == PlanLink(s, pass.cache)
            matches == PlanMatches(s, link, pass.cache)
            orphans == OrphansOf(s.id)
        IN /\ s.id \in pass.work /\ \A id \in pass.work : s.id <= id
           /\ pass' = [pass EXCEPT
                !.at = IF orphans = {} THEN "next" ELSE "watch",
                !.work = @ \ {s.id}, !.show = s.id,
                !.links = @ \cup LinkPairs({<<s.id, link>>}),
                !.cache = [x \in DOMAIN @ \cup ReadBy(s, link) |-> Cached(@, x)],
                !.consumed = @ \/ orphans # {},
                !.pairs = IdPairs(matches), !.doomed = Ids(orphans)]
  BY DEF Plan
<1> DEFINE orphans == OrphansOf(s.id)
           at == IF orphans = {} THEN "next" ELSE "watch"
           cache == [x \in DOMAIN pass.cache \cup ReadBy(s, LinkOf(s)) |-> Cached(pass.cache, x)]
           links == pass.links \cup LinkPairs({<<s.id, LinkOf(s)>>})
           pairs == PairsOfShow(s)
           doomed == Ids(orphans)
           consumed == pass.consumed \/ orphans # {}
<1>2. pass' = [pass EXCEPT !.at = at, !.work = @ \ {s.id}, !.show = s.id, !.links = links,
                           !.cache = cache, !.consumed = consumed, !.pairs = pairs,
                           !.doomed = doomed]
  BY <1>1 DEF LinkOf, PairsOfShow
<1>3. /\ DOMAIN cache = DOMAIN pass.cache \cup ReadBy(s, LinkOf(s))
      /\ \A x \in DOMAIN cache :
            cache[x] = IF x \in DOMAIN pass.cache THEN pass.cache[x] ELSE IngestedOf(x)
  BY DEF Cached
<1>4. consumed \in BOOLEAN
  BY DEF OrphansOf
<1> HIDE DEF at, cache, links, pairs, doomed, consumed
<1>5. /\ pass' = [at |-> at, limited |-> pass.limited, work |-> pass.work \ {s.id},
                  links |-> links, cache |-> cache, consumed |-> consumed, show |-> s.id,
                  pairs |-> pairs, doomed |-> doomed]
  BY <1>2, TypedPass DEF PassRows
<1>6. s.id \in pass.work /\ pass.at = "next"
      /\ UNCHANGED <<episodes, seasons, shows, rows, txn, fresh, report, asked>>
  BY <1>1 DEF Plan, catalog
<1> QED BY <1>3, <1>4, <1>5, <1>6 DEF Planning, at, links, pairs, doomed

LEMMA PlanKeeps ==
    ASSUME IInv, Plan
    PROVE  IInv'
<1>1. PICK s \in shows : Planning(s)
  BY PlanFacts DEF IInv
<1> DEFINE link == LinkOf(s)
           pairs == PairsOfShow(s)
<1>2. TypeOK /\ Upstanding /\ pass.at = "next" /\ ~InTransaction /\ txn = NoTxn /\ fresh = {}
      /\ CacheHolds(pass.cache)
  <2>1. pass.at = "next" /\ ~InTransaction
    BY <1>1 DEF Planning, InTransaction
  <2>2. CacheHolds(pass.cache)
    BY <2>1 DEF IInv, CacheFits, CacheHolds, RetiringShows
  <2> QED BY <2>1, <2>2, QuietTxn DEF IInv
<1>3. UNCHANGED <<episodes, seasons, shows, rows, txn, fresh, report, asked>>
  BY <1>1 DEF Planning
<1>4. /\ pass'.at \in {"next", "watch"}
      /\ pass'.at = "next" <=> OrphansOf(s.id) = {}
      /\ pass'.work = pass.work \ {s.id} /\ s.id \in pass.work /\ pass'.show = s.id /\ s.id # 0
      /\ s.id \in Ids(Shows) /\ s.id \in Ids(shows)
      /\ InTransaction' <=> pass'.at = "watch"
      /\ ~OfShows'
  <2>1. s.id \in Ids(Shows) /\ s.id \in Ids(shows)
    BY <1>2, TypedTables DEF Ids
  <2>2. s.id # 0
    BY <2>1, IdsFit
  <2> QED BY <1>1, <2>1, <2>2 DEF Planning, InTransaction, OfShows
<1>5. /\ \A p \in pairs : p \in Ids(OrphansOf(s.id)) \X Ids(Mirrored(episodes))
      /\ \A p, q \in pairs : p[1] = q[1] <=> p[2] = q[2]
      /\ \A p, q \in pairs : p[1] = q[1] => p = q
  BY <1>2, PairsPlanned DEF LinkOf, PairsOfShow
<1>6. Ids(OrphansOf(s.id)) \subseteq Ids(episodes) /\ Ids(Mirrored(episodes)) \subseteq Ids(episodes)
      /\ Ids(episodes) \subseteq AllIds
  BY <1>2, TypedTables, IdsFit DEF OrphansOf, Mirrored, Ids
<1>7. \A p \in pass'.links : p \in pass.links \/ (p = <<s.id, link.to>> /\ link # NoLink)
  BY <1>1 DEF Planning, LinkPairs
<1>8. link # NoLink => Lasting(link.to) /\ link.to \in Ids(Shows)
  BY <1>2, LinkFits, LastingShows DEF LinkOf
<1>9. TypeOK'
  <2>1. pass'.links \subseteq Ids(Shows) \X Ids(Shows)
    BY <1>2, <1>4, <1>7, <1>8, TypedPass DEF PassRows
  <2>2. pass'.pairs \subseteq AllIds \X AllIds /\ pass'.doomed \subseteq AllIds
    BY <1>1, <1>5, <1>6 DEF Planning
  <2>3. \A x \in DOMAIN pass'.cache : x \in Ids(Shows) /\ pass'.cache[x] \subseteq EpisodeRows
    <3>1. ReadBy(s, link) \subseteq Ids(Shows)
      BY <1>2, <1>8, TypedTables DEF ReadBy, Siblings, Ids
    <3>2. \A x : IngestedOf(x) \subseteq EpisodeRows
      BY <1>2, TypedTables DEF IngestedOf
    <3> QED BY <1>1, <1>2, <3>1, <3>2, TypedPass DEF Planning
  <2>4. pass' \in PassRows(pass'.cache)
    <3>1. "next" \in Stages /\ "watch" \in Stages
      BY StagesAre
    <3>2. pass.work \in SUBSET Ids(Shows) /\ pass.limited \in BOOLEAN
      BY <1>2, TypedPass DEF PassRows
    <3> QED BY <1>1, <1>4, <2>1, <2>2, <3>1, <3>2 DEF Planning, PassRows
  <2>5. \A p, q \in pass'.pairs : p[2] = q[2] => p = q
    BY <1>1, <1>5 DEF Planning
  <2> QED BY <1>2, <1>3, <2>3, <2>4, <2>5 DEF TypeOK
<1>10. Upstanding'
  BY <1>2, <1>3 DEF Upstanding
<1>11. Ahead'
  <2>1. \A e \in Orphaned(episodes) : e.show \in pass.work
    BY <1>2 DEF IInv, Ahead
  <2>2. Leaving' = Ids(OrphansOf(s.id)) /\ pass'.doomed = Ids(OrphansOf(s.id))
    BY <1>1, <1>3, <1>4 DEF Leaving, Planning, OrphansOf
  <2>3. OrphansOf(s.id) = {} => \A e \in Orphaned(episodes) : e.show # s.id
    BY DEF OrphansOf, Orphaned
  <2>4. pass'.at = "next" => \A e \in Orphaned(episodes)' : e.show \in pass'.work
    BY <1>3, <1>4, <2>1, <2>3 DEF Orphaned
  <2>5. \A e \in Orphaned(episodes)' : e.show \in pass'.work \cup {pass'.show}
    BY <1>3, <1>4, <2>1 DEF Orphaned
  <2>6. ~RetiringShows' /\ pass'.at # "seasons"
    BY <1>4 DEF RetiringShows
  <2> QED BY <2>2, <2>4, <2>5, <2>6 DEF Ahead
<1>12. LinksFit'
  <2>2. \A p \in pass.links : Lasting(p[2]) /\ p[1] \notin pass.work
    BY DEF IInv, LinksFit
  <2>3. \A p \in pass'.links : p[1] \notin pass'.work
    BY <1>4, <1>7, <2>2
  <2>4. \A p \in pass'.links : Lasting(p[2])'
    BY <1>3, <1>7, <1>8, <2>2 DEF Lasting
  <2>5. \A p, q \in pass'.links : p[1] = q[1] => p = q
    BY <1>4, <1>7, <2>2 DEF IInv, LinksFit
  <2> QED BY <2>3, <2>4, <2>5 DEF LinksFit
<1>13. CacheFits'
  <2>1. \A x : IngestedOf(x) \subseteq Mirrored(episodes)
    BY DEF IngestedOf, Mirrored
  <2> QED BY <1>1, <1>2, <1>3, <2>1 DEF CacheFits, CacheHolds, Planning
<1>14. PairsFit' /\ ChangesFit' /\ Carried' /\ Followed'
  <2>1. CASE ~InTransaction'
    BY <1>2, <1>3, <2>1, QuietFits
  <2>2. CASE InTransaction'
    <3>1. pass'.at = "watch" /\ Moving'
      BY <1>4, <2>2 DEF Moving
    <3>2. PairsFit'
      <4>1. Leaving' = Ids(OrphansOf(s.id))
        BY <1>3, <1>4 DEF Leaving, OrphansOf
      <4>2. pass'.pairs = pairs /\ Mirrored(episodes)' = Mirrored(episodes)
        BY <1>1, <1>3 DEF Planning, Mirrored
      <4> QED BY <1>4, <1>5, <4>1, <4>2 DEF PairsFit, RetiringShows
    <3>3. ChangesFit'
      BY <1>2, <1>3, <2>2, AtRest DEF ChangesFit
    <3>4. Carried'
      BY <3>1 DEF Carried, Done
    <3> QED BY <3>1, <3>2, <3>3, <3>4 DEF Followed
  <2> QED BY <2>1, <2>2
<1> QED BY <1>9, <1>10, <1>11, <1>12, <1>13, <1>14 DEF IInv
-----------------------------------------------------------------------------
(* The phases of the seasons and of the shows                              *)

LEMMA StartSeasonsKeeps ==
    ASSUME IInv, StartSeasons
    PROVE  IInv'
<1>1. /\ pass.at = "next" /\ pass.work = {}
      /\ pass' = [pass EXCEPT !.at = "seasons", !.doomed = Ids(Orphaned(seasons))]
      /\ UNCHANGED <<episodes, seasons, shows, rows, txn, fresh, report, asked>>
  BY DEF StartSeasons, catalog
<1>2. Ids(Orphaned(seasons)) \subseteq AllIds
  BY TypedTables, IdsFit DEF IInv, Orphaned, Ids
<1>3. /\ pass' \in PassRows(pass.cache) /\ pass'.at = "seasons" /\ pass'.work = {}
      /\ pass'.doomed = Ids(Orphaned(seasons))
      /\ UNCHANGED <<pass.links, pass.cache, pass.show, pass.pairs>>
  <2> DEFINE doomed == Ids(Orphaned(seasons))
  <2>1. doomed \in SUBSET AllIds
    BY <1>2
  <2>2. "seasons" \in Stages
    BY StagesAre
  <2> HIDE DEF doomed
  <2>3. pass' = [pass EXCEPT !.at = "seasons", !.doomed = doomed]
    BY <1>1 DEF doomed
  <2> QED BY <1>1, <2>1, <2>2, <2>3, TypedPass DEF IInv, PassRows, doomed
<1>4. ~InTransaction /\ ~InTransaction'
  BY <1>1, <1>3 DEF InTransaction
<1>5. TypeOK'
  <2>1. pass' \in PassRows(pass'.cache)
    BY <1>3
  <2>2. txn = NoTxn
    BY <1>4, QuietTxn
  <2> QED BY <1>1, <1>3, <2>1, <2>2 DEF IInv, TypeOK, OfShows
<1>6. Upstanding'
  BY <1>1 DEF IInv, Upstanding
<1>7. Ahead'
  <2>1. Orphaned(episodes) = {}
    BY <1>1 DEF IInv, Ahead
  <2>2. Orphaned(episodes)' = {} /\ Orphaned(seasons)' = Orphaned(seasons)
    BY <1>1, <2>1 DEF Orphaned
  <2> QED BY <1>3, <1>4, <2>2 DEF Ahead, OfEpisodes, RetiringShows
<1>8. LinksFit'
  BY <1>1, <1>3 DEF IInv, LinksFit, Lasting
<1>9. CacheFits'
  BY <1>3 DEF CacheFits
<1> QED BY <1>1, <1>4, <1>5, <1>6, <1>7, <1>8, <1>9, QuietTxn, QuietFits DEF IInv

\* A batch of seasons: what becomes of the episodes.
Rehomed(e, batch) == IF e.home \in batch THEN [e EXCEPT !.home = Heir(e)] ELSE e

LEMMA HeirFits ==
    ASSUME NEW e
    PROVE  Heir(e) \in Ids(Mirrored(seasons)) \cup {NoSeason}
<1> DEFINE old == CHOOSE s \in seasons : s.id = e.home
           heirs == {s.id : s \in {x \in seasons : /\ x.ingested /\ x.show = old.show
                                                   /\ x.number = old.number}}
<1>1. heirs \subseteq Ids(Mirrored(seasons))
  BY DEF Ids, Mirrored
<1>2. Heir(e) = IF \E h \in heirs : heirs = {h} THEN CHOOSE h \in heirs : TRUE ELSE NoSeason
  BY DEF Heir
<1> HIDE DEF heirs
<1> QED BY <1>1, <1>2

LEMMA RehomedFits ==
    ASSUME TypeOK, Upstanding, NEW batch, NEW e \in episodes
    PROVE  LET x == Rehomed(e, batch) IN
           /\ x = [e EXCEPT !.home = x.home] /\ x \in EpisodeRows
           /\ x.id = e.id /\ x.show = e.show /\ (x.ingested <=> e.ingested)
           /\ x.home = IF e.home \in batch THEN Heir(e) ELSE e.home
<1>1. e \in EpisodeRows
  BY TypedTables
<1>2. Heir(e) \in Ids(Seasons) \cup {NoSeason}
  BY HeirFits, TypedTables DEF Ids, Mirrored
<1> DEFINE heir == Heir(e)
<1> HIDE DEF heir
<1>3. heir \in Ids(Seasons) \cup {NoSeason}
  BY <1>2 DEF heir
<1> DEFINE x == Rehomed(e, batch)
<1>4. x = IF e.home \in batch THEN [e EXCEPT !.home = heir] ELSE e
  BY DEF Rehomed, heir
<1> HIDE DEF x
<1> DEFINE Fits(y) == /\ y = [e EXCEPT !.home = y.home] /\ y \in EpisodeRows
                      /\ y.id = e.id /\ y.show = e.show /\ (y.ingested <=> e.ingested)
<1>5. \A h \in Ids(Seasons) \cup {NoSeason} :
          Fits([e EXCEPT !.home = h]) /\ [e EXCEPT !.home = h].home = h
  BY <1>1 DEF EpisodeRows
<1>6. Fits(e)
  BY <1>1 DEF EpisodeRows
<1> HIDE DEF Fits
<1>7. Fits(x) /\ x.home = IF e.home \in batch THEN heir ELSE e.home
  <2>1. CASE e.home \in batch
    BY <1>3, <1>4, <1>5, <2>1
  <2>2. CASE e.home \notin batch
    BY <1>4, <1>6, <2>2
  <2> QED BY <2>1, <2>2
<1> QED BY <1>7 DEF Fits, x, heir

LEMMA RetireSeasonsFacts ==
    ASSUME TypeOK, Upstanding, Ahead, RetireSeasons
    PROVE  \E batch \in SUBSET pass.doomed :
           /\ episodes' = {Rehomed(e, batch) : e \in episodes}
           /\ seasons' = {s \in seasons : s.id \notin batch}
           /\ pass' = [pass EXCEPT !.doomed = @ \ batch]
           /\ pass' \in PassRows(pass.cache) /\ pass'.doomed = pass.doomed \ batch
           /\ UNCHANGED <<pass.at, pass.work, pass.links, pass.cache, pass.show, pass.pairs>>
           /\ UNCHANGED <<shows, rows, txn, fresh, report, asked>>
           /\ pass.at = "seasons" /\ batch \cap Ids(Mirrored(seasons)) = {}
           /\ Mirrored(seasons) \subseteq seasons' /\ seasons' \subseteq seasons
           /\ Ids(Orphaned(seasons')) = pass.doomed \ batch
<1>1. PICK batch \in SUBSET pass.doomed :
           /\ episodes' = {Rehomed(e, batch) : e \in episodes}
           /\ seasons' = {s \in seasons : s.id \notin batch}
           /\ pass' = [pass EXCEPT !.doomed = @ \ batch]
  BY DEF RetireSeasons, Rehomed
<1>2. pass.at = "seasons" /\ UNCHANGED <<shows, rows, txn, fresh, report, asked>>
  BY DEF RetireSeasons
<1>3. pass.doomed = Ids(Orphaned(seasons))
  BY <1>2 DEF Ahead
<1>4. pass.doomed \cap Ids(Mirrored(seasons)) = {}
  BY <1>3, TypedTables, IdsFit DEF Orphaned, Mirrored, Ids
<1>5. /\ pass' \in PassRows(pass.cache) /\ pass'.doomed = pass.doomed \ batch
      /\ UNCHANGED <<pass.at, pass.work, pass.links, pass.cache, pass.show, pass.pairs>>
  BY <1>1, TypedPass DEF PassRows
<1>6. Mirrored(seasons) \subseteq seasons' /\ seasons' \subseteq seasons
  BY <1>1, <1>4 DEF Mirrored, Ids
<1>7. Ids(Orphaned(seasons')) = pass.doomed \ batch
  BY <1>1, <1>3 DEF Orphaned, Ids
<1> QED BY <1>1, <1>2, <1>4, <1>5, <1>6, <1>7

LEMMA RetireSeasonsKeeps ==
    ASSUME IInv, RetireSeasons
    PROVE  IInv'
<1>1. TypeOK /\ Upstanding /\ Ahead
  BY DEF IInv
<1>2. PICK batch \in SUBSET pass.doomed :
           /\ episodes' = {Rehomed(e, batch) : e \in episodes}
           /\ seasons' = {s \in seasons : s.id \notin batch}
           /\ pass' \in PassRows(pass.cache) /\ pass'.doomed = pass.doomed \ batch
           /\ UNCHANGED <<pass.at, pass.work, pass.links, pass.cache, pass.show, pass.pairs>>
           /\ UNCHANGED <<shows, rows, txn, fresh, report, asked>>
           /\ pass.at = "seasons" /\ batch \cap Ids(Mirrored(seasons)) = {}
           /\ Mirrored(seasons) \subseteq seasons' /\ seasons' \subseteq seasons
           /\ Ids(Orphaned(seasons')) = pass.doomed \ batch
  BY <1>1, RetireSeasonsFacts
<1>3. ~InTransaction /\ ~InTransaction'
  BY <1>2 DEF InTransaction
<1>4. \A x \in episodes' : \E e \in episodes :
        /\ x \in EpisodeRows /\ x.id = e.id /\ x.show = e.show /\ (x.ingested <=> e.ingested)
        /\ x.home = (IF e.home \in batch THEN Heir(e) ELSE e.home) /\ x = Rehomed(e, batch)
  BY <1>1, <1>2, RehomedFits
<1>5. TypeOK'
  <2>1. pass' \in PassRows(pass'.cache)
    BY <1>2
  <2>2. txn = NoTxn
    BY <1>3, QuietTxn
  <2>3. episodes' \subseteq EpisodeRows /\ \A x, y \in episodes' : x.id = y.id => x = y
    <3>1. episodes' \subseteq EpisodeRows
      BY <1>4
    <3>2. ASSUME NEW x \in episodes', NEW y \in episodes', x.id = y.id PROVE x = y
      <4>1. PICK e \in episodes : x.id = e.id /\ x = Rehomed(e, batch)
        BY <1>4
      <4>2. PICK f \in episodes : y.id = f.id /\ y = Rehomed(f, batch)
        BY <1>4
      <4>3. e = f
        BY <3>2, <4>1, <4>2, <1>1, TypedTables
      <4> QED BY <4>1, <4>2, <4>3
    <3> QED BY <3>1, <3>2
  <2> QED BY <1>2, <2>1, <2>2, <2>3 DEF IInv, TypeOK, OfShows
<1>6. Upstanding'
  <2>1. ASSUME NEW x \in episodes'
        PROVE  x.show \in Ids(shows) /\ x.home \in Ids(seasons') \cup {NoSeason}
    <3>1. PICK e \in episodes :
            /\ x.show = e.show
            /\ x.home = (IF e.home \in batch THEN Heir(e) ELSE e.home)
      BY <1>4
    <3>2. e.show \in Ids(shows) /\ e.home \in Ids(seasons) \cup {NoSeason}
      BY <1>1 DEF Upstanding
    <3>3. CASE e.home \in batch
      BY <1>2, <3>1, <3>2, <3>3, HeirFits DEF Ids
    <3>4. CASE e.home \notin batch
      BY <1>2, <3>1, <3>2, <3>4 DEF Ids
    <3> QED BY <3>2, <3>1, <3>3, <3>4
  <2>2. Mirrored(Seasons) \subseteq seasons'
    BY <1>1, <1>2 DEF Upstanding, Mirrored
  <2> QED BY <1>1, <1>2, <2>1, <2>2 DEF Upstanding
<1>7. Ahead'
  <2>1. Orphaned(episodes) = {} /\ pass.work = {}
    BY <1>1, <1>2 DEF Ahead
  <2>2. Orphaned(episodes') = {}
    BY <1>4, <2>1 DEF Orphaned
  <2> QED BY <1>2, <1>3, <2>1, <2>2 DEF Ahead, OfEpisodes, RetiringShows
<1>8. LinksFit'
  <2>1. \A s : Lasting(s) => Lasting(s)'
    <3>1. ASSUME NEW s, NEW e \in Mirrored(episodes), e.show = s
          PROVE  \E x \in Mirrored(episodes') : x.show = s
      <4>1. Rehomed(e, batch) \in episodes' /\ e \in episodes /\ e.ingested
        BY <1>2 DEF Mirrored
      <4> QED BY <1>1, <3>1, <4>1, RehomedFits DEF Mirrored
    <3> QED BY <1>2, <3>1 DEF Lasting
  <2> QED BY <1>2, <2>1 DEF IInv, LinksFit
<1>9. CacheFits'
  BY <1>2 DEF CacheFits
<1> QED BY <1>2, <1>3, <1>5, <1>6, <1>7, <1>8, <1>9, QuietTxn, QuietFits DEF IInv

LEMMA StartShowsKeeps ==
    ASSUME IInv, StartShows
    PROVE  IInv'
<1>1. /\ pass.at = "seasons" /\ pass.doomed = {}
      /\ UNCHANGED <<episodes, seasons, shows, rows, txn, fresh, report, asked>>
  BY DEF StartShows, catalog
<1>2. ~InTransaction /\ txn = NoTxn /\ fresh = {}
  BY <1>1, QuietTxn DEF InTransaction
<1>3. CASE OrphanShows = {}
  <2>1. pass' = NoPass
    BY <1>3 DEF StartShows
  <2> QED BY <1>1, <1>2, <2>1, OverFits, TypedTables, TypedRest DEF IInv
<1>4. CASE OrphanShows # {}
  <2> DEFINE pairs == {p \in pass.links : p[1] \in OrphanShows}
  <2>1. pass' = [pass EXCEPT !.at = "watch", !.show = 0, !.doomed = OrphanShows,
                             !.pairs = {p \in pass.links : p[1] \in OrphanShows}]
    BY <1>4 DEF StartShows
  <2>2. OrphanShows \subseteq AllIds /\ pairs \subseteq AllIds \X AllIds
    <3>1. OrphanShows \subseteq Ids(Shows)
      BY TypedTables DEF IInv, OrphanShows, Orphaned, Ids
    <3>2. pass.links \subseteq Ids(Shows) \X Ids(Shows)
      BY TypedPass DEF IInv, PassRows
    <3> QED BY <3>1, <3>2, IdsFit
  <2>3. /\ pass' \in PassRows(pass.cache) /\ pass'.at = "watch" /\ pass'.show = 0
        /\ pass'.doomed = OrphanShows /\ pass'.pairs = pairs
        /\ UNCHANGED <<pass.links, pass.cache, pass.work>>
    <3>1. "watch" \in Stages
      BY StagesAre
    <3> DEFINE doomed == OrphanShows
    <3>2. doomed \subseteq AllIds /\ doomed = OrphanShows
      BY <2>2
    <3> HIDE DEF pairs, doomed
    <3>3. pass' = [pass EXCEPT !.at = "watch", !.show = 0, !.doomed = doomed, !.pairs = pairs]
      BY <2>1, <3>2 DEF pairs
    <3> QED BY <2>2, <3>1, <3>2, <3>3, TypedPass DEF IInv, PassRows
  <2>4. /\ InTransaction' /\ OfShows' /\ RetiringShows' /\ ~OfEpisodes' /\ Moving'
        /\ OrphanShows' = OrphanShows /\ Leaving' = OrphanShows
    BY <1>1, <2>3 DEF InTransaction, OfShows, RetiringShows, OfEpisodes, Moving, OrphanShows,
                      Leaving
  <2>5. TypeOK'
    <3>1. pass' \in PassRows(pass'.cache)
      BY <2>3
    <3> QED BY <1>1, <2>3, <2>4, <3>1 DEF IInv, TypeOK
  <2>6. Upstanding'
    BY <1>1 DEF IInv, Upstanding
  <2>7. Ahead'
    <3>1. Orphaned(episodes) = {} /\ Orphaned(seasons) = {} /\ pass.work = {}
      <4>1. Ids(Orphaned(seasons)) = {}
        BY <1>1 DEF IInv, Ahead
      <4> QED BY <1>1, <4>1 DEF IInv, Ahead, Ids
    <3> QED BY <1>1, <2>3, <2>4, <3>1 DEF Ahead, Orphaned
  <2>8. LinksFit' /\ CacheFits'
    BY <1>1, <2>3, <2>4 DEF IInv, LinksFit, Lasting, CacheFits
  <2>9. PairsFit'
    BY <2>3, <2>4 DEF IInv, LinksFit, PairsFit
  <2>10. ChangesFit' /\ Carried' /\ Followed'
    BY <1>1, <1>2, <2>3, <2>4, AtRest DEF ChangesFit, Carried, Followed, Done
  <2> QED BY <2>5, <2>6, <2>7, <2>8, <2>9, <2>10 DEF IInv
<1> QED BY <1>3, <1>4
-----------------------------------------------------------------------------
(* Within a transaction                                                    *)

\* What leaves is of orphans: of one show, or the orphan shows.
LEMMA LeavingFits ==
    ASSUME TypeOK
    PROVE  /\ Leaving \cap Ids(Mirrored(episodes)) = {} /\ Leaving \cap Ids(Mirrored(shows)) = {}
           /\ OfShows => Leaving \subseteq Ids(Shows)
           /\ ~OfShows => Leaving \subseteq Ids(Entries) /\ Leaving \cap Ids(Shows) = {}
           /\ Ids(Mirrored(episodes)) \subseteq Ids(Entries) /\ Ids(shows) \subseteq Ids(Shows)
           /\ Ids(Mirrored(episodes)) \subseteq Ids(episodes)
<1>1. Ids(Mirrored(episodes)) \subseteq Ids(Entries) /\ Ids(shows) \subseteq Ids(Shows)
      /\ Ids(Mirrored(shows)) \subseteq Ids(Shows) /\ Ids(Mirrored(episodes)) \subseteq Ids(episodes)
  BY TypedTables DEF Ids, Mirrored
<1>2. CASE OfShows
  <2>1. Leaving \subseteq Ids(Shows)
    BY <1>1, <1>2 DEF Leaving, OrphanShows, Orphaned, Ids
  <2>2. Leaving \cap Ids(Mirrored(shows)) = {}
    BY <1>2, TypedTables, IdsFit DEF Leaving, OrphanShows, Orphaned, Mirrored, Ids
  <2> QED BY <1>1, <1>2, <2>1, <2>2, IdsFit
<1>3. CASE ~OfShows
  <2>1. Leaving \subseteq Ids(Entries)
    BY <1>3, TypedTables DEF Leaving, OrphansOf, Ids
  <2>2. Leaving \cap Ids(Mirrored(episodes)) = {}
    BY <1>3, TypedTables DEF Leaving, OrphansOf, Mirrored, Ids
  <2> QED BY <1>1, <1>3, <2>1, <2>2, IdsFit
<1> QED BY <1>2, <1>3

LEMMA DoomedLeave ==
    ASSUME Ahead, PairsFit, InTransaction
    PROVE  pass.doomed \subseteq Leaving /\ \A p \in pass.pairs : p[1] \in Leaving
BY DEF Ahead, PairsFit, OfEpisodes, RetiringShows, Leaving

\* From the middle on, what pairs lead to is not deleted.
LEMMA PairsStay ==
    ASSUME IInv, InTransaction, ~Moving, NEW p \in pass.pairs
    PROVE  p[2] \notin pass.doomed
<1>1. CASE OfEpisodes
  BY <1>1, LeavingFits, DoomedLeave DEF IInv, PairsFit
<1>2. CASE RetiringShows
  <2>1. Lasting(p[2])
    BY <1>2 DEF IInv, PairsFit, LinksFit
  <2>2. p[2] \in Ids(Mirrored(shows)) => p[2] \notin pass.doomed
    BY <1>2, LeavingFits, DoomedLeave DEF IInv
  <2>3. (\E e \in Mirrored(episodes) : e.show = p[2]) => p[2] \notin pass.doomed
    BY <1>2 DEF IInv, Ahead, Mirrored
  <2> QED BY <2>1, <2>2, <2>3 DEF Lasting
<1> QED BY <1>1, <1>2 DEF OfEpisodes, RetiringShows

\* A step of the transaction over tables that stand still.
LEMMA FrameKeeps ==
    ASSUME IInv, InTransaction, InTransaction', UNCHANGED <<episodes, seasons, shows>>,
           UNCHANGED <<pass.work, pass.links, pass.cache, pass.show, pass.pairs>>
    PROVE  /\ Upstanding' /\ LinksFit' /\ CacheFits' /\ PairsFit'
           /\ Leaving' = Leaving /\ OrphanShows' = OrphanShows
           /\ (OfEpisodes' <=> OfEpisodes) /\ (RetiringShows' <=> RetiringShows)
           /\ (OfShows' <=> OfShows) /\ Mirrored(episodes)' = Mirrored(episodes)
<1>1. /\ OfShows' <=> OfShows
      /\ OrphanShows' = OrphanShows
      /\ OfEpisodes' <=> OfEpisodes
      /\ RetiringShows' <=> RetiringShows
      /\ Mirrored(episodes)' = Mirrored(episodes)
  BY DEF OfShows, OfEpisodes, RetiringShows, OrphanShows, Mirrored
<1>2. Leaving' = Leaving
  BY <1>1 DEF Leaving, OrphansOf
<1>3. Upstanding' /\ LinksFit'
  BY DEF IInv, Upstanding, LinksFit, Lasting
<1>4. CacheFits'
  BY <1>1 DEF IInv, CacheFits, InTransaction
<1>5. PairsFit'
  BY <1>1, <1>2 DEF IInv, PairsFit
<1> QED BY <1>1, <1>2, <1>3, <1>4, <1>5

\* From stage to stage, but for the middle, no more and no less is doomed.
LEMMA StageKeeps ==
    ASSUME IInv, NEW stage \in DOMAIN After, Step(stage),
           stage # "middle" \/ OfEpisodes,
           UNCHANGED <<episodes, seasons, shows, rows, fresh, report, asked>>,
           txn' \in TxnRows, txn'.lost \subseteq txn'.del
    PROVE  /\ TypeOK' /\ Upstanding' /\ Ahead' /\ LinksFit' /\ CacheFits' /\ PairsFit'
           /\ Leaving' = Leaving /\ InTransaction /\ InTransaction'
           /\ (OfEpisodes' <=> OfEpisodes) /\ pass'.doomed = pass.doomed
           /\ (RetiringShows' <=> RetiringShows)
           /\ pass'.pairs = pass.pairs /\ pass.at = stage /\ pass'.at = After[stage]
           /\ Mirrored(episodes)' = Mirrored(episodes)
           /\ pass'.show = pass.show
<1>1. /\ pass.at = stage /\ pass'.at = After[stage] /\ pass' \in PassRows(pass.cache)
      /\ InTransaction /\ InTransaction'
      /\ UNCHANGED <<pass.limited, pass.work, pass.links, pass.cache, pass.consumed,
                     pass.show, pass.pairs, pass.doomed>>
  BY StepFacts DEF IInv
<1>2. /\ Upstanding' /\ LinksFit' /\ CacheFits' /\ PairsFit'
      /\ Leaving' = Leaving /\ OrphanShows' = OrphanShows
      /\ (OfEpisodes' <=> OfEpisodes) /\ (RetiringShows' <=> RetiringShows)
      /\ (OfShows' <=> OfShows) /\ Mirrored(episodes)' = Mirrored(episodes)
  BY <1>1, FrameKeeps
<1>3. TypeOK'
  <2>1. pass' \in PassRows(pass'.cache)
    BY <1>1
  <2> QED BY <1>1, <1>2, <2>1 DEF IInv, TypeOK
<1>4. Ahead'
  <2>1. RetiringShows => (Moving' <=> Moving)
    BY <1>1, StagesAre DEF Moving, OfEpisodes, RetiringShows
  <2>2. pass'.at \notin {"next", "seasons"}
    BY <1>1 DEF InTransaction
  <2> QED BY <1>1, <1>2, <2>1, <2>2 DEF IInv, Ahead, Orphaned
<1> QED BY <1>1, <1>2, <1>3, <1>4

\* What a table's move does.
LEMMA MoveFacts ==
    ASSUME IInv, NEW stage \in {"watch", "rating", "event"}, Move(stage)
    PROVE  /\ txn' \in TxnRows /\ txn'.lost = txn.lost
           /\ txn'.del = txn.del \cup Movable(stage)
           /\ txn'.add = txn.add \cup {Landing(r) : r \in Movable(stage)}
           /\ UNCHANGED <<episodes, seasons, shows, rows, fresh, report, asked>>
           /\ Step(stage) /\ stage \in DOMAIN After
           /\ \A r \in Movable(stage) :
                /\ r \in View /\ r \in AllRows /\ r[1] \in Tables[stage]
                /\ \E p \in pass.pairs : p[1] = r[3] /\ Landing(r) = Landed(r, p[2])
<1>1. /\ UNCHANGED <<episodes, seasons, shows, rows, fresh, report, asked>>
      /\ Step(stage) /\ stage \in DOMAIN After
      /\ txn' = [txn EXCEPT !.del = @ \cup Movable(stage),
                            !.add = @ \cup {Landing(r) : r \in Movable(stage)}]
  BY StagesAre DEF Move, catalog
<1>2. \A r \in Movable(stage) :
          /\ r \in View /\ r \in AllRows /\ r[1] \in Tables[stage]
          /\ \E p \in pass.pairs : p[1] = r[3] /\ Landing(r) = Landed(r, p[2])
  <2> TAKE r \in Movable(stage)
  <2>1. /\ r \in View /\ r[1] \in Tables[stage]
        /\ \E t \in Survivors(pass.pairs, r[3]) : Landed(r, t) \notin View
    BY DEF Movable
  <2> DEFINE t == CHOOSE t \in Survivors(pass.pairs, r[3]) : TRUE
  <2>2. t \in Survivors(pass.pairs, r[3])
    BY <2>1
  <2>3. Landing(r) = Landed(r, t)
    BY DEF Landing
  <2> HIDE DEF t
  <2> QED BY <2>1, <2>2, <2>3, TypedTxn DEF IInv, Survivors
<1>3. \A r \in Movable(stage) : Landing(r) \in AllRows
  <2> TAKE r \in Movable(stage)
  <2>1. PICK p \in pass.pairs : Landing(r) = Landed(r, p[2])
    BY <1>2
  <2>2. r \in AllRows /\ p[2] \in AllIds
    BY <1>2, TypedPass DEF IInv, PassRows
  <2> QED BY <2>1, <2>2, LandedIs DEF AllRows
<1> DEFINE moving == Movable(stage)
           landing == {Landing(r) : r \in Movable(stage)}
<1>4. moving \subseteq AllRows /\ landing \subseteq AllRows
  BY <1>2, <1>3
<1> HIDE DEF moving, landing
<1>5. txn' = [txn EXCEPT !.del = @ \cup moving, !.add = @ \cup landing]
  BY <1>1 DEF moving, landing
<1>6. /\ txn' \in TxnRows /\ txn'.lost = txn.lost
      /\ txn'.del = txn.del \cup moving /\ txn'.add = txn.add \cup landing
  BY <1>4, <1>5, TypedTxn DEF IInv, TxnRows
<1> QED BY <1>1, <1>2, <1>6 DEF moving, landing

LEMMA MoveKeeps ==
    ASSUME IInv, NEW stage \in {"watch", "rating", "event"}, Move(stage)
    PROVE  IInv'
<1>1. /\ txn' \in TxnRows /\ txn'.lost = txn.lost
      /\ txn'.del = txn.del \cup Movable(stage)
      /\ txn'.add = txn.add \cup {Landing(r) : r \in Movable(stage)}
      /\ UNCHANGED <<episodes, seasons, shows, rows, fresh, report, asked>>
      /\ Step(stage) /\ stage \in DOMAIN After
  BY MoveFacts
<1>2. \A r \in Movable(stage) :
        /\ r \in View /\ r \in AllRows /\ r[1] \in Tables[stage]
        /\ \E p \in pass.pairs : p[1] = r[3] /\ Landing(r) = Landed(r, p[2])
  BY MoveFacts
<1>3. txn'.lost \subseteq txn'.del
  BY <1>1, TypedTxn DEF IInv
<1>4. /\ TypeOK' /\ Upstanding' /\ Ahead' /\ LinksFit' /\ CacheFits' /\ PairsFit'
      /\ Leaving' = Leaving /\ InTransaction /\ InTransaction'
      /\ (OfEpisodes' <=> OfEpisodes) /\ pass'.doomed = pass.doomed
      /\ (RetiringShows' <=> RetiringShows)
      /\ pass'.pairs = pass.pairs /\ pass.at = stage /\ pass'.at = After[stage]
      /\ Mirrored(episodes)' = Mirrored(episodes)
  BY <1>1, <1>3, StageKeeps
<1>5. /\ Done \cap Tables[stage] = {} /\ Done \subseteq Done' /\ Done' \subseteq Done \cup Tables[stage]
      /\ Tables[stage] \cap FactKinds \subseteq Done' /\ Done \subseteq FactKinds
  <2>1. stage = "watch" => Done = {} /\ Done' = {"watch"} /\ Tables[stage] = {"watch"}
    BY <1>4, StagesAre DEF Done, Tables
  <2>2. stage = "rating" => Done = {"watch"} /\ Done' = FactKinds /\ Tables[stage] = {"rating"}
    BY <1>4, StagesAre DEF Done, Tables
  <2>3. stage = "event" => Done = FactKinds /\ Done' = FactKinds
                           /\ Tables[stage] = {"watched", "rated"}
    BY <1>4, StagesAre DEF Done, Tables
  <2> QED BY <2>1, <2>2, <2>3 DEF FactKinds
<1>6. ChangesFit'
  <2>1. \A r \in Movable(stage) : r[3] \in Leaving
    BY <1>2, <1>4, DoomedLeave DEF IInv
  <2>2. \A r \in txn'.del : r[3] \in Leaving'
    BY <1>1, <1>4, <2>1 DEF IInv, ChangesFit
  <2>3. ASSUME NEW r \in Movable(stage)
        PROVE  /\ Landing(r)[1] = r[1]
               /\ IF OfEpisodes THEN Landing(r)[3] \in Ids(Mirrored(episodes))
                                ELSE Lasting(Landing(r)[3])
    <3>1. PICK p \in pass.pairs : p[1] = r[3] /\ Landing(r) = Landed(r, p[2])
      BY <1>2
    <3>2. Landing(r) = <<r[1], r[2], p[2]>>
      BY <1>2, <3>1, LandedIs
    <3>3. IF OfEpisodes THEN p[2] \in Ids(Mirrored(episodes)) ELSE Lasting(p[2])
      BY <1>4 DEF IInv, PairsFit, LinksFit, OfEpisodes, RetiringShows
    <3> QED BY <3>2, <3>3
  <2>4. \A s : Lasting(s)' <=> Lasting(s)
    BY <1>1 DEF Lasting
  <2>5. \A r \in txn'.add : IF OfEpisodes' THEN r[3] \in Ids(Mirrored(episodes))' \cup Ids(shows')
                                          ELSE Lasting(r[3])'
    BY <1>1, <1>4, <2>3, <2>4 DEF IInv, ChangesFit, Lasting, Ids
  <2>6. \A r \in txn'.del \cup txn'.add : r[1] \in FactKinds => r[1] \in Done'
    BY <1>1, <1>2, <1>5, <2>3 DEF IInv, ChangesFit
  <2> QED BY <1>4, <2>2, <2>5, <2>6 DEF ChangesFit
<1>7. Carried'
  <2>1. ASSUME NEW f \in rows, f[1] \in Done', NEW p \in pass.pairs, p[1] = f[3],
               {f, Landed(f, p[2])} \cap fresh = {}
        PROVE  Arrived(f, p)'
    <3>1. f \in AllRows /\ \A t : Landed(f, t)[1] = f[1] /\ Landed(f, t)[3] = t
                                  /\ Landed(f, t) = <<f[1], f[2], t>>
      BY TypedTables, LandedIs DEF IInv
    <3>2. View \ Movable(stage) \subseteq View' /\ \A r \in Movable(stage) : Landing(r) \in View'
      BY <1>1 DEF View
    <3>3. CASE f[1] \in Done
      <4>1. Arrived(f, p)
        BY <1>4, <2>1, <3>3 DEF IInv, Carried
      <4>2. Landed(f, p[2]) \in View => Landed(f, p[2]) \in View'
        BY <1>2, <1>5, <3>1, <3>2, <3>3
      <4> QED BY <1>1, <1>4, <4>1, <4>2 DEF Arrived
    <3>4. CASE f[1] \notin Done
      <4>1. f[1] \in Tables[stage] /\ f[1] \in FactKinds
        BY <1>5, <2>1, <3>4 DEF FactKinds, Done
      <4>2. f \in View
        BY <3>4, <4>1 DEF IInv, ChangesFit, View
      <4>3. p[2] \in Survivors(pass.pairs, f[3])
        BY <2>1 DEF Survivors
      <4>4. CASE f \in Movable(stage)
        <5>1. PICK q \in pass.pairs : q[1] = f[3] /\ Landing(f) = Landed(f, q[2])
          BY <1>2, <4>4
        <5>2. q = p
          BY <1>4, <2>1, <5>1 DEF IInv, PairsFit
        <5> QED BY <3>2, <4>4, <5>1, <5>2 DEF Arrived
      <4>5. CASE f \notin Movable(stage)
        <5>1. Landed(f, p[2]) \in View
          BY <4>1, <4>2, <4>3, <4>5 DEF Movable
        <5>2. CASE Landed(f, p[2]) \in Movable(stage)
          <6>1. PICK q \in pass.pairs : /\ q[1] = Landed(f, p[2])[3]
                                        /\ Landing(Landed(f, p[2])) = Landed(Landed(f, p[2]), q[2])
            BY <1>2, <5>2
          <6>2. Landed(Landed(f, p[2]), q[2]) = Landed(f, q[2])
            BY <1>2, <3>1, <5>2, LandedIs
          <6>3. Landed(f, q[2]) \in txn'.add /\ q[2] \in Survivors(pass.pairs, p[2])
            BY <1>1, <3>1, <5>2, <6>1, <6>2 DEF Survivors
          <6> QED BY <1>4, <6>3 DEF Arrived
        <5>3. CASE Landed(f, p[2]) \notin Movable(stage)
          BY <3>2, <5>1, <5>3 DEF Arrived
        <5> QED BY <5>2, <5>3
      <4> QED BY <4>4, <4>5
    <3> QED BY <3>3, <3>4
  <2> QED BY <1>1, <1>4, <2>1 DEF Carried
<1>8. Followed'
  BY <1>4, StagesAre DEF Followed, Moving
<1> QED BY <1>4, <1>6, <1>7, <1>8 DEF IInv

LEMMA TrackKeeps ==
    ASSUME IInv, Track
    PROVE  IInv'
<1> DEFINE tracked == Tracking \ View
<1>1. /\ ~OfShows /\ Step("middle") /\ "middle" \in DOMAIN After
      /\ txn' = [txn EXCEPT !.add = @ \cup tracked]
      /\ UNCHANGED <<episodes, seasons, shows, rows, fresh, report, asked>>
  BY StagesAre DEF Track, catalog
<1>2. \A r \in Tracking : /\ r[1] = "watch" /\ r[3] \in Ids(shows) /\ r \in AllRows
  <2> TAKE r \in Tracking
  <2>1. PICK q \in txn.add \X episodes : r = <<"watch", q[1][2], q[2].show>>
    BY DEF Tracking
  <2>2. q[2].show \in Ids(shows)
    BY <2>1 DEF IInv, Upstanding
  <2>3. q[1] \in AllRows /\ q[2].show \in AllIds
    BY <2>1, <2>2, TypedTxn, TypedTables, IdsFit DEF IInv
  <2> QED BY <2>1, <2>2, <2>3 DEF AllRows
<1>3. tracked \subseteq AllRows
  BY <1>2
<1> HIDE DEF tracked
<1>4. /\ txn' \in TxnRows /\ txn'.lost = txn.lost /\ txn'.del = txn.del
      /\ txn'.add = txn.add \cup tracked
  BY <1>1, <1>3, TypedTxn DEF IInv, TxnRows
<1>5. txn'.lost \subseteq txn'.del
  BY <1>4, TypedTxn DEF IInv
<1>6. OfEpisodes /\ OfEpisodes' /\ ~RetiringShows
      /\ TypeOK' /\ Upstanding' /\ Ahead' /\ LinksFit' /\ CacheFits' /\ PairsFit'
      /\ Leaving' = Leaving /\ InTransaction /\ InTransaction'
      /\ pass'.pairs = pass.pairs /\ pass.at = "middle" /\ pass'.at = "clear_watch"
      /\ pass'.show = pass.show
      /\ Mirrored(episodes)' = Mirrored(episodes)
  <2>1. OfEpisodes /\ ~RetiringShows
    BY <1>1, StepFacts DEF IInv, OfEpisodes, RetiringShows
  <2> QED BY <1>1, <1>4, <1>5, <2>1, StageKeeps, StagesAre
<1>7. Done = FactKinds /\ Done' = FactKinds
  BY <1>6 DEF Done
<1>8. View \subseteq View' /\ tracked \subseteq View'
  BY <1>1, <1>4 DEF View
<1>9. ChangesFit'
  <2>1. \A r \in txn'.del : r[3] \in Leaving'
    BY <1>4, <1>6 DEF IInv, ChangesFit
  <2>2. \A r \in txn'.add : r[3] \in Ids(Mirrored(episodes))' \cup Ids(shows')
    BY <1>1, <1>2, <1>4, <1>6 DEF IInv, ChangesFit, tracked
  <2>3. \A r \in txn'.del \cup txn'.add : r[1] \in FactKinds => r[1] \in Done'
    BY <1>7
  <2> QED BY <1>6, <2>1, <2>2, <2>3 DEF ChangesFit
<1>10. Carried'
  <2>1. ASSUME NEW f \in rows, f[1] \in FactKinds, NEW p \in pass.pairs, p[1] = f[3],
               {f, Landed(f, p[2])} \cap fresh = {}
        PROVE  Arrived(f, p)'
    <3>1. Arrived(f, p)
      BY <1>6, <1>7, <2>1 DEF IInv, Carried
    <3> QED BY <1>4, <1>6, <1>8, <3>1 DEF Arrived
  <2> QED BY <1>1, <1>6, <1>7, <2>1 DEF Carried
<1>11. Followed'
  <2>1. ASSUME NEW r \in Tracking' PROVE r \in Tracking
    <3>1. PICK q \in txn'.add \X episodes : /\ r = <<"watch", q[1][2], q[2].show>>
                                            /\ q[1][1] \in FactKinds /\ q[1][3] = q[2].id
                                            /\ q[2].show # pass.show
      BY <1>1, <1>6 DEF Tracking
    <3>2. q[2].id \in Ids(episodes)
      BY <3>1 DEF Ids
    <3>3. q[1] \notin tracked
      BY <1>2, <3>1, <3>2, TypedTables, IdsFit DEF IInv, tracked
    <3>4. q[1] \in txn.add /\ q[2] \in episodes
      BY <1>4, <3>1, <3>3
    <3> QED BY <3>1, <3>4 DEF Tracking
  <2>2. Tracking \subseteq View'
    BY <1>8 DEF tracked
  <2> QED BY <2>1, <2>2 DEF Followed
<1> QED BY <1>6, <1>9, <1>10, <1>11 DEF IInv

LEMMA LeaveBlockedKeeps ==
    ASSUME IInv, LeaveBlocked
    PROVE  IInv'
<1> DEFINE doomed == pass.doomed \ BlockedShows
<1>1. /\ OfShows /\ pass.at = "middle"
      /\ pass' = [pass EXCEPT !.at = "clear_watch", !.doomed = doomed]
      /\ UNCHANGED <<episodes, seasons, shows, rows, txn, fresh, report, asked>>
  BY StagesAre DEF LeaveBlocked, catalog
<1>2. doomed \subseteq AllIds
  BY TypedPass DEF IInv, PassRows
<1> HIDE DEF doomed
<1>3. /\ pass' \in PassRows(pass.cache) /\ pass'.at = "clear_watch" /\ pass'.doomed = doomed
      /\ UNCHANGED <<pass.work, pass.links, pass.cache, pass.show, pass.pairs>>
  <2>1. "clear_watch" \in Stages
    BY StagesAre
  <2> QED BY <1>1, <1>2, <2>1, TypedPass DEF IInv, PassRows
<1>4. InTransaction /\ InTransaction' /\ RetiringShows /\ ~OfEpisodes /\ Moving /\ ~Moving'
  BY <1>1, <1>3 DEF InTransaction, RetiringShows, OfEpisodes, Moving
<1>5. /\ Upstanding' /\ LinksFit' /\ CacheFits' /\ PairsFit'
      /\ Leaving' = Leaving /\ OrphanShows' = OrphanShows
      /\ (OfEpisodes' <=> OfEpisodes) /\ (RetiringShows' <=> RetiringShows)
      /\ (OfShows' <=> OfShows) /\ Mirrored(episodes)' = Mirrored(episodes)
  BY <1>1, <1>3, <1>4, FrameKeeps
<1>6. TypeOK'
  <2>1. pass' \in PassRows(pass'.cache)
    BY <1>3
  <2> QED BY <1>1, <1>3, <1>4, <1>5, <2>1 DEF IInv, TypeOK
<1>7. Ahead'
  <2>1. Orphaned(episodes) = {} /\ Orphaned(seasons) = {} /\ pass.work = {}
        /\ pass.doomed = OrphanShows
    BY <1>4 DEF IInv, Ahead
  <2>2. \A s \in OrphanShows :
            s \in doomed <=> (s \notin Staged /\ \A r \in episodes \cup seasons : r.show # s)
    BY <2>1 DEF doomed, BlockedShows
  <2>3. doomed \subseteq OrphanShows
    BY <2>1 DEF doomed
  <2> QED BY <1>1, <1>3, <1>4, <1>5, <2>1, <2>2, <2>3 DEF Ahead, Orphaned
<1>8. ChangesFit' /\ Carried'
  <2>1. Done = FactKinds /\ Done' = FactKinds
    BY <1>1, <1>3 DEF Done
  <2>2. \A s : Lasting(s)' <=> Lasting(s)
    BY <1>1 DEF Lasting
  <2>3. View' = View
    BY <1>1 DEF View
  <2>4. ChangesFit'
    BY <1>1, <1>4, <1>5, <2>1, <2>2 DEF IInv, ChangesFit
  <2> QED BY <1>1, <1>3, <1>4, <2>1, <2>3, <2>4 DEF IInv, Carried, Arrived
<1>9. Followed'
  BY <1>4, <1>5 DEF Followed
<1> QED BY <1>5, <1>6, <1>7, <1>8, <1>9 DEF IInv

\* What is left on the doomed rows of a stage.
LeftOf(stage) == {r \in On(pass.doomed, View) : r[1] \in Tables[stage]}
LEMMA ClearFacts ==
    ASSUME IInv, NEW stage \in {"clear_watch", "clear_rating", "clear_event"}, Clear(stage)
    PROVE  /\ txn' \in TxnRows /\ txn'.add = txn.add
           /\ txn'.del = txn.del \cup LeftOf(stage) /\ txn'.lost = txn.lost \cup LeftOf(stage)
           /\ UNCHANGED <<episodes, seasons, shows, rows, fresh, report, asked>>
           /\ Step(stage) /\ stage \in DOMAIN After /\ stage # "middle"
           /\ ~Moving /\ ~Moving' /\ InTransaction /\ InTransaction'
           /\ Done = FactKinds /\ Done' = FactKinds
           /\ LeftOf(stage) \subseteq View /\ \A r \in LeftOf(stage) : r[3] \in pass.doomed
<1> DEFINE left == LeftOf(stage)
<1>1. /\ UNCHANGED <<episodes, seasons, shows, rows, fresh, report, asked>>
      /\ Step(stage) /\ stage \in DOMAIN After /\ stage # "middle"
      /\ txn' = [txn EXCEPT !.del = @ \cup left, !.lost = @ \cup left]
  BY StagesAre DEF Clear, catalog, LeftOf
<1>2. left \subseteq View /\ \A r \in left : r[3] \in pass.doomed
  BY DEF LeftOf, On
<1>3. left \subseteq AllRows
  BY <1>2, TypedTxn DEF IInv
<1> HIDE DEF left
<1>4. /\ txn' \in TxnRows /\ txn'.add = txn.add
      /\ txn'.del = txn.del \cup left /\ txn'.lost = txn.lost \cup left
  BY <1>1, <1>3, TypedTxn DEF IInv, TxnRows
<1>5. ~Moving /\ ~Moving' /\ InTransaction /\ InTransaction' /\ Done = FactKinds /\ Done' = FactKinds
  BY <1>1, StepFacts, StagesAre DEF IInv, Moving, Done
<1> QED BY <1>1, <1>2, <1>4, <1>5 DEF left

LEMMA ClearKeeps ==
    ASSUME IInv, NEW stage \in {"clear_watch", "clear_rating", "clear_event"}, Clear(stage)
    PROVE  IInv'
<1>1. /\ txn' \in TxnRows /\ txn'.add = txn.add
      /\ txn'.del = txn.del \cup LeftOf(stage) /\ txn'.lost = txn.lost \cup LeftOf(stage)
      /\ UNCHANGED <<episodes, seasons, shows, rows, fresh, report, asked>>
      /\ Step(stage) /\ stage \in DOMAIN After /\ stage # "middle"
      /\ ~Moving /\ ~Moving' /\ InTransaction /\ InTransaction'
      /\ Done = FactKinds /\ Done' = FactKinds
      /\ LeftOf(stage) \subseteq View /\ \A r \in LeftOf(stage) : r[3] \in pass.doomed
  BY ClearFacts
<1>2. txn'.lost \subseteq txn'.del
  BY <1>1, TypedTxn DEF IInv
<1>3. /\ TypeOK' /\ Upstanding' /\ Ahead' /\ LinksFit' /\ CacheFits' /\ PairsFit'
      /\ Leaving' = Leaving
      /\ (OfEpisodes' <=> OfEpisodes) /\ pass'.doomed = pass.doomed
      /\ pass'.pairs = pass.pairs /\ pass'.show = pass.show
      /\ Mirrored(episodes)' = Mirrored(episodes)
  BY <1>1, <1>2, StageKeeps
<1>4. View \ LeftOf(stage) \subseteq View'
  BY <1>1 DEF View
<1>5. ChangesFit'
  <2>1. \A r \in txn'.del : r[3] \in Leaving'
    BY <1>1, <1>3, DoomedLeave DEF IInv, ChangesFit
  <2>2. \A s : Lasting(s)' <=> Lasting(s)
    BY <1>1 DEF Lasting
  <2>3. \A r \in txn'.add : IF OfEpisodes' THEN r[3] \in Ids(Mirrored(episodes))' \cup Ids(shows')
                                          ELSE Lasting(r[3])'
    BY <1>1, <1>3, <2>2 DEF IInv, ChangesFit
  <2>4. \A r \in txn'.del \cup txn'.add : r[1] \in FactKinds => r[1] \in Done'
    BY <1>1
  <2> QED BY <1>1, <2>1, <2>3, <2>4 DEF ChangesFit
<1>6. Carried'
  <2>1. ASSUME NEW f \in rows, f[1] \in FactKinds, NEW p \in pass.pairs, p[1] = f[3],
               {f, Landed(f, p[2])} \cap fresh = {}
        PROVE  Arrived(f, p)'
    <3>1. Arrived(f, p)
      BY <1>1, <2>1 DEF IInv, Carried
    <3>2. ASSUME Landed(f, p[2]) \in View PROVE Landed(f, p[2]) \in View'
      <4>1. Landed(f, p[2])[3] = p[2]
        BY LandedIs, TypedTables DEF IInv
      <4>2. p[2] \notin pass.doomed
        BY <1>1, PairsStay
      <4> QED BY <1>1, <1>4, <3>2, <4>1, <4>2
    <3> QED BY <1>1, <1>3, <3>1, <3>2 DEF Arrived
  <2> QED BY <1>1, <1>3, <2>1 DEF Carried
<1>7. Followed'
  <2>1. SUFFICES ASSUME OfEpisodes, NEW r \in Tracking PROVE r \in View' \cup fresh
    <3>1. Tracking' = Tracking
      BY <1>1, <1>3 DEF Tracking
    <3> QED BY <1>1, <1>3, <3>1, <2>1 DEF Followed
  <2>2. r \in View \cup fresh
    BY <1>1, <2>1 DEF IInv, Followed
  <2>3. r[3] \in Ids(shows)
    <3>1. PICK q \in txn.add \X episodes : r = <<"watch", q[1][2], q[2].show>>
      BY <2>1 DEF Tracking
    <3> QED BY <3>1 DEF IInv, Upstanding
  <2>4. r[3] \notin pass.doomed
    BY <1>1, <2>1, <2>3, LeavingFits, DoomedLeave DEF IInv, OfEpisodes
  <2> QED BY <1>1, <1>4, <2>2, <2>4
<1> QED BY <1>3, <1>5, <1>6, <1>7 DEF IInv

\* What a deletion takes: orphans, and nothing that hangs below them.
LEMMA RetireFacts ==
    ASSUME IInv, Retire
    PROVE  /\ InTransaction /\ ~Moving /\ ~InTransaction' /\ pass.at = "delete"
           /\ rows' = View /\ txn' = NoTxn /\ fresh' = {}
           /\ UNCHANGED <<seasons, report, asked>>
           /\ OfShows => /\ RetiringShows /\ ~OfEpisodes
                         /\ shows' = shows \ Deleted(shows) /\ episodes' = episodes
                         /\ pass' = NoPass
                         /\ \A r \in episodes \cup seasons : r.show \notin pass.doomed
           /\ ~OfShows => /\ OfEpisodes /\ ~RetiringShows
                          /\ episodes' = episodes \ Deleted(episodes) /\ shows' = shows
                          /\ pass' \in PassRows(pass.cache) /\ pass'.at = "next"
                          /\ pass'.pairs = {} /\ pass'.doomed = {}
                          /\ UNCHANGED <<pass.work, pass.links, pass.cache, pass.show>>
<1>1. /\ pass.at = "delete" /\ rows' = View /\ txn' = NoTxn /\ fresh' = {}
      /\ UNCHANGED <<report, asked>>
  BY DEF Retire
<1>2. InTransaction /\ ~Moving
  BY <1>1 DEF InTransaction, Moving
<1>3. CASE OfShows
  <2>1. RetiringShows /\ ~OfEpisodes
    BY <1>2, <1>3 DEF RetiringShows, OfEpisodes
  <2>2. \A r \in episodes \cup seasons : r.show \notin pass.doomed
    BY <1>2, <2>1 DEF IInv, Ahead
  <2>3. Below(episodes) = {} /\ Below(seasons) = {}
    BY <2>2 DEF Below
  <2>4. shows' = shows \ Deleted(shows) /\ episodes' = episodes /\ seasons' = seasons
        /\ pass' = NoPass
    BY <1>3, <2>3 DEF Retire
  <2> QED BY <1>1, <1>2, <1>3, <2>1, <2>2, <2>4, AtRest DEF InTransaction
<1>4. CASE ~OfShows
  <2>1. OfEpisodes /\ ~RetiringShows
    BY <1>2, <1>4 DEF RetiringShows, OfEpisodes
  <2>2. /\ episodes' = episodes \ Deleted(episodes) /\ UNCHANGED <<shows, seasons>>
        /\ pass' = [pass EXCEPT !.at = "next", !.pairs = {}, !.doomed = {}]
    BY <1>4 DEF Retire
  <2>3. "next" \in Stages
    BY StagesAre
  <2>4. /\ pass' \in PassRows(pass.cache) /\ pass'.at = "next"
        /\ pass'.pairs = {} /\ pass'.doomed = {}
        /\ UNCHANGED <<pass.work, pass.links, pass.cache, pass.show>>
    BY <2>2, <2>3, TypedPass DEF IInv, PassRows
  <2> QED BY <1>1, <1>2, <1>4, <2>1, <2>2, <2>4 DEF InTransaction
<1> QED BY <1>3, <1>4

LEMMA RetireKeeps ==
    ASSUME IInv, Retire
    PROVE  IInv'
<1>1. /\ InTransaction /\ ~Moving /\ ~InTransaction' /\ pass.at = "delete"
      /\ rows' = View /\ txn' = NoTxn /\ fresh' = {}
      /\ UNCHANGED <<seasons, report, asked>>
  BY RetireFacts
<1>2. View \subseteq AllRows
  BY TypedTxn DEF IInv
<1>3. PairsFit' /\ ChangesFit' /\ Carried' /\ Followed'
  BY <1>1, QuietFits
<1>4. CASE OfShows
  <2>1. /\ RetiringShows /\ shows' = shows \ Deleted(shows) /\ episodes' = episodes
        /\ pass' = NoPass
        /\ \A r \in episodes \cup seasons : r.show \notin pass.doomed
    BY <1>4, RetireFacts
  <2>2. TypeOK'
    BY <1>1, <1>2, <2>1, AtRest DEF IInv, TypeOK, OfShows
  <2>3. Upstanding'
    <3>1. \A e \in episodes : e.show \in Ids(shows')
      <4> TAKE e \in episodes
      <4>1. PICK s \in shows : s.id = e.show
        BY DEF IInv, Upstanding, Ids
      <4>2. s \notin Deleted(shows)
        BY <2>1, <4>1 DEF Deleted
      <4> QED BY <2>1, <4>1, <4>2 DEF Ids
    <3>2. Mirrored(Shows) \subseteq shows'
      BY <2>1 DEF IInv, Upstanding, Mirrored, Deleted
    <3> QED BY <1>1, <2>1, <3>1, <3>2 DEF IInv, Upstanding
  <2>4. Ahead' /\ LinksFit' /\ CacheFits'
    BY <1>1, <2>1, AtRest DEF Ahead, LinksFit, CacheFits, OfEpisodes, RetiringShows
  <2> QED BY <1>3, <2>2, <2>3, <2>4 DEF IInv
<1>5. CASE ~OfShows
  <2>1. /\ OfEpisodes /\ ~RetiringShows
        /\ episodes' = episodes \ Deleted(episodes) /\ shows' = shows
        /\ pass' \in PassRows(pass.cache) /\ pass'.at = "next"
        /\ pass'.pairs = {} /\ pass'.doomed = {}
        /\ UNCHANGED <<pass.work, pass.links, pass.cache, pass.show>>
    BY <1>5, RetireFacts
  <2>2. Mirrored(episodes') = Mirrored(episodes)
    BY <2>1 DEF Mirrored, Deleted
  <2>3. TypeOK'
    <3>1. pass' \in PassRows(pass'.cache)
      BY <2>1
    <3> QED BY <1>1, <1>2, <2>1, <3>1, AtRest DEF IInv, TypeOK
  <2>4. Upstanding'
    BY <1>1, <2>1 DEF IInv, Upstanding
  <2>5. Ahead'
    <3>1. ASSUME NEW e \in Orphaned(episodes') PROVE e.show \in pass.work
      <4>1. e \in episodes /\ ~e.ingested /\ e \notin Deleted(episodes)
        BY <2>1, <3>1 DEF Orphaned
      <4>2. e.show \in pass.work \cup {pass.show} /\ pass.doomed = Ids(OrphansOf(pass.show))
        BY <1>5, <2>1, <4>1 DEF IInv, Ahead, Orphaned, Leaving
      <4>3. e.show # pass.show
        BY <4>1, <4>2 DEF OrphansOf, Deleted, Ids
      <4> QED BY <4>2, <4>3
    <3> QED BY <1>1, <2>1, <3>1 DEF Ahead, OfEpisodes, RetiringShows
  <2>6. LinksFit'
    BY <2>1, <2>2 DEF IInv, LinksFit, Lasting
  <2>7. CacheFits'
    BY <1>1, <2>1, <2>2 DEF IInv, CacheFits, InTransaction
  <2> QED BY <1>3, <2>3, <2>4, <2>5, <2>6, <2>7 DEF IInv
<1> QED BY <1>4, <1>5

-----------------------------------------------------------------------------
(* Requests, and the catalog update                                        *)

LEMMA RequestFacts ==
    ASSUME IInv, NEW f \in Facts, Put(f) \/ Drop(f)
    PROVE  /\ UNCHANGED <<episodes, seasons, shows, txn, pass>>
           /\ asked' = asked + 1 /\ asked' \in 0 .. MaxRequests /\ asked' # asked
           /\ report' = NoReport
           /\ fresh' = IF InTransaction THEN fresh \cup {f} ELSE {}
           /\ Recorded({f}) \cap (txn.del \cup txn.add) = {}
           /\ Recorded({f}) = {f, EventOf(f)} /\ EventOf(f)[1] \notin FactKinds
           /\ rows' = rows \cup Recorded({f}) \/ rows' = rows \ Recorded({f})
           /\ rows' \subseteq AllRows
<1>1. Changed(f) /\ UNCHANGED <<episodes, seasons, shows, txn, pass>>
      /\ (rows' = rows \cup Recorded({f}) \/ rows' = rows \ Recorded({f}))
  BY DEF Put, Drop, catalog
<1>2. Recorded({f}) = {f, EventOf(f)}
  BY DEF Recorded
<1>3. asked \in 0 .. MaxRequests /\ asked < MaxRequests /\ asked' = asked + 1
  BY <1>1, TypedRest DEF IInv, Changed
<1>4. asked' \in 0 .. MaxRequests /\ asked' # asked
  BY <1>3, OrphanAssumption
<1>5. f \in AllRows /\ EventOf(f) \in AllRows /\ f[1] \in FactKinds
  BY FactIs
<1>6. EventOf(f)[1] \notin FactKinds
  BY <1>5 DEF EventOf, FactKinds
<1>7. rows' \subseteq AllRows
  BY <1>1, <1>2, <1>5, TypedTables DEF IInv
<1> QED BY <1>1, <1>2, <1>3, <1>4, <1>6, <1>7 DEF Changed

LEMMA RequestKeeps ==
    ASSUME IInv, NEW f \in Facts, Put(f) \/ Drop(f)
    PROVE  IInv'
<1>1. /\ UNCHANGED <<episodes, seasons, shows, txn, pass>>
      /\ asked' \in 0 .. MaxRequests
      /\ report' = NoReport
      /\ fresh' = IF InTransaction THEN fresh \cup {f} ELSE {}
      /\ Recorded({f}) \cap (txn.del \cup txn.add) = {}
      /\ Recorded({f}) = {f, EventOf(f)} /\ EventOf(f)[1] \notin FactKinds
      /\ rows' = rows \cup Recorded({f}) \/ rows' = rows \ Recorded({f})
      /\ rows' \subseteq AllRows
  BY RequestFacts
<1>2. TypeOK'
  <2>1. fresh' \subseteq Facts
    BY <1>1, TypedRest DEF IInv
  <2> QED BY <1>1, <2>1, AtRest DEF IInv, TypeOK, InTransaction, OfShows
<1>3. InTransaction' <=> InTransaction
  BY <1>1 DEF InTransaction
<1>4. Upstanding' /\ Ahead' /\ LinksFit' /\ CacheFits' /\ PairsFit'
  <2> USE DEF OfEpisodes, RetiringShows, InTransaction, OfShows, Moving, Leaving,
              OrphanShows, OrphansOf, Done
  <2>1. Upstanding' /\ Ahead'
    BY <1>1 DEF IInv, Upstanding, Ahead
  <2>2. LinksFit' /\ CacheFits' /\ PairsFit'
    BY <1>1 DEF IInv, LinksFit, CacheFits, PairsFit, Lasting
  <2> QED BY <2>1, <2>2
<1>5. CASE ~InTransaction
  BY <1>1, <1>2, <1>3, <1>4, <1>5, QuietTxn, QuietFits DEF IInv
<1>6. CASE InTransaction
  <2>1. fresh' = fresh \cup {f}
    BY <1>1, <1>6
  <2>2. ChangesFit'
    BY <1>1, <1>3, <1>6 DEF IInv, ChangesFit, OfEpisodes, InTransaction, OfShows, Leaving,
                            OrphanShows, OrphansOf, Done, Lasting
  <2>3. \A r \in rows' : r[1] \in FactKinds => r \in rows \/ r = f
    BY <1>1
  <2>4. \A r \in View : r[1] \in FactKinds => r \in View' \/ r = f
    BY <1>1 DEF View
  <2>5. Carried'
    <3>1. ASSUME NEW g \in rows', g[1] \in Done', NEW p \in pass.pairs, p[1] = g[3],
                 {g, Landed(g, p[2])} \cap fresh' = {}
          PROVE  Arrived(g, p)'
      <4>1. g[1] \in Done /\ g[1] \in FactKinds
        BY <1>1, <3>1 DEF Done, FactKinds
      <4>2. g \in rows
        BY <2>1, <2>3, <3>1, <4>1
      <4>3. Arrived(g, p)
        BY <1>6, <2>1, <3>1, <4>1, <4>2 DEF IInv, Carried
      <4>4. Landed(g, p[2])[1] \in FactKinds /\ Landed(g, p[2]) # f
        BY <2>1, <3>1, <4>1, <4>2, LandedIs, TypedTables DEF IInv
      <4> QED BY <1>1, <2>4, <4>3, <4>4 DEF Arrived
    <3> QED BY <1>1, <1>3, <3>1 DEF Carried
  <2>6. Followed'
    <3>1. SUFFICES ASSUME OfEpisodes, ~Moving, NEW r \in Tracking PROVE r \in View' \cup fresh'
      <4>1. /\ OfEpisodes' <=> OfEpisodes
            /\ Moving' <=> Moving
            /\ Tracking' = Tracking
        BY <1>1 DEF OfEpisodes, OfShows, InTransaction, Moving, Tracking
      <4> QED BY <3>1, <4>1 DEF Followed
    <3>2. r \in View \cup fresh
      BY <3>1 DEF IInv, Followed
    <3>3. r[1] \in FactKinds
      BY DEF Tracking, FactKinds
    <3> QED BY <2>1, <2>4, <3>2, <3>3
  <2> QED BY <1>2, <1>4, <2>2, <2>5, <2>6 DEF IInv
<1> QED BY <1>5, <1>6

LEMMA IngestKeeps ==
    ASSUME IInv, NEW e \in Late, Ingest(e)
    PROVE  IInv'
<1>1. /\ episodes' = episodes \cup {e} /\ e.id \notin Ids(episodes)
      /\ UNCHANGED <<seasons, shows, rows, txn, pass, fresh, asked>>
      /\ report' = NoReport
  BY DEF Ingest
<1>2. /\ e \in EpisodeRows /\ e.ingested /\ e.show \in Ids(Mirrored(Shows))
      /\ e.home \in Ids(Mirrored(Seasons)) \cup {NoSeason}
      /\ e.id \in Ids(Entries)
  BY OrphanAssumption DEF Entries, Ids
<1>3. e.show \in Ids(Mirrored(shows)) /\ e.show \in Ids(shows)
      /\ e.home \in Ids(seasons) \cup {NoSeason}
  BY <1>2 DEF IInv, Upstanding, Mirrored, Ids
<1>4. /\ InTransaction' <=> InTransaction
      /\ OfShows' <=> OfShows
      /\ OfEpisodes' <=> OfEpisodes
      /\ RetiringShows' <=> RetiringShows
      /\ Moving' <=> Moving
      /\ OrphanShows' = OrphanShows /\ Done' = Done /\ View' = View
      /\ Orphaned(episodes)' = Orphaned(episodes)
      /\ \A s : OrphansOf(s)' = OrphansOf(s)
  BY <1>1, <1>2 DEF InTransaction, OfShows, OfEpisodes, RetiringShows, Moving, OrphanShows,
                    Done, View, Orphaned, OrphansOf
<1>5. Leaving' = Leaving
  BY <1>1, <1>4 DEF Leaving
<1>6. Mirrored(episodes) \subseteq Mirrored(episodes)' /\ \A s : Lasting(s) => Lasting(s)'
  BY <1>1 DEF Mirrored, Lasting
<1>7. TypeOK'
  BY <1>1, <1>2, <1>4, AtRest DEF IInv, TypeOK, Ids
<1>8. Upstanding'
  BY <1>1, <1>3 DEF IInv, Upstanding
<1>9. Ahead'
  <2>1. e.show \notin OrphanShows
    BY <1>3, TypedTables, IdsFit DEF IInv, OrphanShows, Orphaned, Mirrored, Ids
  <2>2. \A s \in OrphanShows : (\A r \in episodes' \cup seasons : r.show # s)
                                 <=> (\A r \in episodes \cup seasons : r.show # s)
    BY <1>1, <2>1
  <2> QED BY <1>1, <1>4, <1>5, <2>2 DEF IInv, Ahead
<1>10. LinksFit' /\ CacheFits'
  BY <1>1, <1>4, <1>6 DEF IInv, LinksFit, CacheFits
<1>15. Ids(Mirrored(episodes)) \subseteq Ids(Mirrored(episodes))'
  BY <1>6 DEF Ids
<1>11. PairsFit'
  BY <1>1, <1>4, <1>5, <1>15 DEF IInv, PairsFit
<1>12. ChangesFit'
  BY <1>1, <1>4, <1>5, <1>6, <1>15 DEF IInv, ChangesFit
<1>13. Carried'
  BY <1>1, <1>4 DEF IInv, Carried, Arrived
<1>14. Followed'
  <2>1. ASSUME OfEpisodes, NEW r \in Tracking' PROVE r \in Tracking
    <3>1. PICK q \in txn.add \X episodes' : /\ r = <<"watch", q[1][2], q[2].show>>
                                            /\ q[1][1] \in FactKinds /\ q[1][3] = q[2].id
                                            /\ q[2].show # pass.show
      BY <1>1 DEF Tracking
    <3>2. q[1][3] \in Ids(episodes) \cup Ids(Shows)
      BY <2>1, <3>1, LeavingFits DEF IInv, ChangesFit
    <3>3. q[2] # e
      BY <1>1, <1>2, <3>1, <3>2, IdsFit
    <3> QED BY <1>1, <3>1, <3>3 DEF Tracking
  <2> QED BY <1>1, <1>4, <2>1 DEF IInv, Followed
<1> QED BY <1>7, <1>8, <1>9, <1>10, <1>11, <1>12, <1>13, <1>14 DEF IInv
-----------------------------------------------------------------------------
(* The theorems                                                            *)

\* The tables that a step which is no request, no deletion and no batch of
\* seasons leaves, and what it leaves of them.
LEMMA QuietSteps ==
    ASSUME Next, ~Retire, ~RetireSeasons, asked' = asked, IInv
    PROVE  UNCHANGED <<seasons, shows, rows>> /\ episodes \subseteq episodes'
<1>1. CASE Report
  BY <1>1 DEF Report, catalog
<1>2. CASE Start \/ Plan \/ StopAtLimit \/ Abort
  BY <1>2 DEF Start, Plan, StopAtLimit, Abort, catalog
<1>3. CASE \E stage \in {"watch", "rating", "event"} : Move(stage)
  BY <1>3 DEF Move, catalog
<1>4. CASE Track \/ LeaveBlocked
  BY <1>4 DEF Track, LeaveBlocked, catalog
<1>5. CASE \E stage \in {"clear_watch", "clear_rating", "clear_event"} : Clear(stage)
  BY <1>5 DEF Clear, catalog
<1>6. CASE StartSeasons \/ StartShows
  BY <1>6 DEF StartSeasons, StartShows, catalog
<1>7. CASE \E f \in Facts : Put(f) \/ Drop(f)
  BY <1>7, RequestFacts
<1>8. CASE \E e \in Late : Ingest(e)
  BY <1>8 DEF Ingest
<1> QED BY <1>1, <1>2, <1>3, <1>4, <1>5, <1>6, <1>7, <1>8 DEF Next, PassNext

\* Every step of the pass, of a user and of the catalog update keeps it.
LEMMA StepsKeep ==
    ASSUME IInv, [Next]_vars
    PROVE  IInv'
<1>1. CASE Report
  BY <1>1, ReportKeeps
<1>2. CASE Start \/ Plan \/ StopAtLimit \/ Abort
  BY <1>2, StartKeeps, PlanKeeps, StopKeeps
<1>3. CASE \E stage \in {"watch", "rating", "event"} : Move(stage)
  BY <1>3, MoveKeeps
<1>4. CASE Track \/ LeaveBlocked
  BY <1>4, TrackKeeps, LeaveBlockedKeeps
<1>5. CASE \E stage \in {"clear_watch", "clear_rating", "clear_event"} : Clear(stage)
  BY <1>5, ClearKeeps
<1>6. CASE Retire \/ StartSeasons \/ RetireSeasons \/ StartShows
  BY <1>6, RetireKeeps, StartSeasonsKeeps, RetireSeasonsKeeps, StartShowsKeeps
<1>7. CASE \E f \in Facts : Put(f) \/ Drop(f)
  BY <1>7, RequestKeeps
<1>8. CASE \E e \in Late : Ingest(e)
  BY <1>8, IngestKeeps
<1>9. CASE UNCHANGED vars
  <2>1. Rest'
    BY <1>9, SameKeeps DEF IInv, Rest, vars, catalog
  <2>2. TypeOK'
    BY <1>9 DEF IInv, vars, TypeOK, InTransaction, OfShows
  <2> QED BY <2>1, <2>2 DEF IInv, Rest
<1> QED BY <1>1, <1>2, <1>3, <1>4, <1>5, <1>6, <1>7, <1>8, <1>9 DEF Next, PassNext

\* What the run has in hand is what it says (IInv), after any aborts, limits and
\* requests, and whatever the catalog holds.
THEOREM RetireInvariant == Spec => []IInv
BY BeginsSound, StepsKeep, PTL DEF Spec

\* Tables and the pass keep their types; no two episodes share an id, and no two
\* orphans of a show a twin (match_episodes).
THEOREM RetireTyped == Spec => []TypeOK
<1>1. IInv => TypeOK
  BY DEF IInv
<1> QED BY <1>1, RetireInvariant, PTL

\* A deletion leaves everyone's rows where the pairs lead.
LEMMA DeletionKeeps ==
    ASSUME IInv, Retire, NEW p \in pass.pairs, NEW f \in FactsOn({p[1]}, rows)
    PROVE  LET home == Landed(f, p[2])
               follows == {<<"watch", f[2], e.show>> :
                              e \in {x \in episodes : x.id = p[2] /\ x.show # pass.show}}
           IN /\ {f, home} \cap fresh = {} => Rests(f, pass.pairs, rows')
              /\ home \in txn.add /\ follows \cap fresh = {} => follows \subseteq rows'
<1> DEFINE home == Landed(f, p[2])
           follows == {<<"watch", f[2], e.show>> :
                          e \in {x \in episodes : x.id = p[2] /\ x.show # pass.show}}
<1>1. InTransaction /\ ~Moving /\ pass.at = "delete" /\ rows' = View
  BY RetireFacts
<1>2. f \in rows /\ f[3] = p[1] /\ f[1] \in FactKinds
  BY DEF FactsOn, On
<1>3. home = <<f[1], f[2], p[2]>>
  BY <1>2, TypedTables, LandedIs DEF IInv
<1>4. ASSUME {f, home} \cap fresh = {} PROVE Rests(f, pass.pairs, rows')
  <2>1. Done = FactKinds
    BY <1>1 DEF Done
  <2>2. Arrived(f, p)
    BY <1>1, <1>2, <1>4, <2>1 DEF IInv, Carried
  <2>3. p[2] \in Survivors(pass.pairs, f[3])
    BY <1>2 DEF Survivors
  <2>4. txn.add \subseteq rows'
    BY <1>1 DEF View
  <2> QED BY <1>1, <2>2, <2>3, <2>4 DEF Arrived, Rests
<1>5. ASSUME home \in txn.add, follows \cap fresh = {} PROVE follows \subseteq rows'
  <2>1. CASE OfEpisodes
    <3>1. ASSUME NEW e \in episodes, e.id = p[2], e.show # pass.show
          PROVE  <<"watch", f[2], e.show>> \in Tracking
      <4>1. <<home, e>> \in txn.add \X episodes
        BY <1>5
      <4>2. home[1] = f[1] /\ home[2] = f[2] /\ home[3] = p[2]
        BY <1>3
      <4> HIDE DEF home
      <4> QED BY <1>2, <3>1, <4>1, <4>2 DEF Tracking
    <3>2. follows \subseteq Tracking
      BY <3>1
    <3> QED BY <1>1, <1>5, <2>1, <3>2 DEF IInv, Followed
  <2>2. CASE RetiringShows
    <3>1. Lasting(p[2])
      BY <1>1, <2>2 DEF IInv, PairsFit, LinksFit
    <3>2. p[2] \in Ids(Shows)
      BY <3>1, LastingShows DEF IInv
    <3>3. p[2] \notin Ids(episodes)
      BY <3>2, IdsFit, TypedTables DEF IInv
    <3> QED BY <3>3 DEF Ids
  <2> QED BY <1>1, <2>1, <2>2 DEF OfEpisodes, RetiringShows
<1> QED BY <1>4, <1>5

\* When an orphan with a twin, or a show with a link, is deleted
\* (_apply_episode_plan, _retire_shows), what users had on it is where the pair
\* leads, and who was moved into another show follows that show.
THEOREM MergesKeepHistory == Spec => KeepsHistory
<1>1. IInv /\ [Next]_vars =>
        [Retire =>
            \A p \in pass.pairs : \A f \in FactsOn({p[1]}, rows) :
                LET home == Landed(f, p[2])
                    follows == {<<"watch", f[2], e.show>> :
                                   e \in {x \in episodes : x.id = p[2] /\ x.show # pass.show}}
                IN /\ {f, home} \cap fresh = {} => Rests(f, pass.pairs, rows')
                   /\ home \in txn.add /\ follows \cap fresh = {} => follows \subseteq rows']_vars
  BY DeletionKeeps
<1> QED BY <1>1, RetireInvariant, PTL DEF Spec, KeepsHistory

\* A batch of seasons leaves every ingested episode, with a season if there is
\* one for it.
LEMMA SeasonsLeave ==
    ASSUME IInv, RetireSeasons
    PROVE  /\ {r \in shows \cup seasons : r.ingested} \subseteq shows' \cup seasons'
           /\ \A e \in episodes : \E x \in episodes' :
                /\ x = [e EXCEPT !.home = x.home]
                /\ \/ x.home \in Ids(seasons')
                   \/ x.home = NoSeason /\ (e.home = NoSeason \/ Heir(e) = NoSeason)
           /\ rows' = rows
<1>1. TypeOK /\ Upstanding /\ Ahead
  BY DEF IInv
<1>2. PICK batch \in SUBSET pass.doomed :
           /\ episodes' = {Rehomed(e, batch) : e \in episodes}
           /\ seasons' = {s \in seasons : s.id \notin batch}
           /\ UNCHANGED <<shows, rows>>
           /\ Mirrored(seasons) \subseteq seasons'
  BY <1>1, RetireSeasonsFacts
<1>3. ASSUME NEW e \in episodes
      PROVE  \E x \in episodes' :
                /\ x = [e EXCEPT !.home = x.home]
                /\ \/ x.home \in Ids(seasons')
                   \/ x.home = NoSeason /\ (e.home = NoSeason \/ Heir(e) = NoSeason)
  <2> DEFINE x == Rehomed(e, batch)
             heir == Heir(e)
  <2>1. x \in episodes'
    BY <1>2
  <2>2. x = [e EXCEPT !.home = x.home] /\ x.home = IF e.home \in batch THEN heir ELSE e.home
    BY <1>1, RehomedFits
  <2>3. heir \in Ids(seasons') \cup {NoSeason}
    BY <1>2, HeirFits DEF Ids
  <2>4. e.home \in Ids(seasons) \cup {NoSeason}
    BY <1>1 DEF Upstanding
  <2>5. e.home \in batch \/ e.home \in Ids(seasons') \cup {NoSeason}
    BY <1>2, <2>4 DEF Ids
  <2> HIDE DEF x, heir
  <2>6. x.home \in Ids(seasons') \/ (x.home = NoSeason /\ (e.home = NoSeason \/ heir = NoSeason))
    BY <2>2, <2>3, <2>5
  <2> QED BY <2>1, <2>2, <2>6 DEF heir
<1> QED BY <1>2, <1>3 DEF Mirrored

\* A deletion leaves what was ingested, and what was on it.
LEMMA DeletionLeaves ==
    ASSUME IInv, Retire
    PROVE  /\ {r \in shows \cup seasons : r.ingested} \subseteq shows' \cup seasons'
           /\ seasons' = seasons
           /\ \A e \in episodes : e.ingested => e \in episodes'
           /\ FactsOn(Ids({r \in episodes \cup shows : r.ingested}), rows) \subseteq rows'
<1>1. seasons' = seasons /\ rows' = View
  BY RetireFacts
<1>2. \A r \in shows : r.ingested => r \in shows'
  BY RetireFacts DEF Deleted
<1>3. \A e \in episodes : e.ingested => e \in episodes'
  BY RetireFacts DEF Deleted
<1>4. ASSUME NEW f \in rows, f[3] \in Ids({r \in episodes \cup shows : r.ingested})
      PROVE  f \in View
  <2>1. f[3] \in Ids(Mirrored(episodes)) \cup Ids(Mirrored(shows))
    BY <1>4 DEF Ids, Mirrored
  <2>2. f \notin txn.del
    BY <2>1, LeavingFits DEF IInv, ChangesFit
  <2> QED BY <2>2 DEF View
<1> QED BY <1>1, <1>2, <1>3, <1>4 DEF FactsOn, On

\* No deletion of the pass, and no cascade of one, takes a row of the ingest or
\* the history on one; and an episode loses its season only for want of an heir
\* (_retire_seasons, _SHOWS_WITH_CHILDREN).
THEOREM IngestedKept == Spec => IngestedStays
<1> DEFINE Stays ==
        asked' = asked =>
        /\ {r \in shows \cup seasons : r.ingested} \subseteq shows' \cup seasons'
        /\ \A e \in episodes : e.ingested =>
            \E x \in episodes' :
                /\ x = [e EXCEPT !.home = x.home]
                /\ \/ x.home \in Ids(seasons')
                   \/ x.home = NoSeason /\ (e.home = NoSeason \/ Heir(e) = NoSeason)
        /\ FactsOn(Ids({r \in episodes \cup shows : r.ingested}), rows) \subseteq rows'
<1>1. ASSUME IInv, Next PROVE Stays
  <2>1. SUFFICES ASSUME asked' = asked PROVE Stays
    OBVIOUS
  <2>2. \A e \in episodes : e = [e EXCEPT !.home = e.home] /\ e.home \in Ids(seasons) \cup {NoSeason}
    BY <1>1, TypedTables DEF IInv, Upstanding, EpisodeRows
  <2>3. CASE RetireSeasons
    BY <1>1, <2>3, SeasonsLeave DEF FactsOn, On
  <2>4. CASE Retire
    BY <1>1, <2>2, <2>4, DeletionLeaves
  <2>5. CASE ~Retire /\ ~RetireSeasons
    <3>1. UNCHANGED <<seasons, shows, rows>> /\ episodes \subseteq episodes'
      BY <1>1, <2>1, <2>5, QuietSteps
    <3> QED BY <2>2, <3>1 DEF FactsOn, On
  <2> QED BY <2>3, <2>4, <2>5
<1>2. IInv /\ [Next]_vars => [Stays]_vars
  BY <1>1
<1> QED BY <1>2, RetireInvariant, PTL DEF Spec, IngestedStays

\* A run without a limit that comes to its end has retired every orphan episode
\* and season, and every orphan show that nothing hangs on (_work_shows).
THEOREM RunsEmpty == Spec => FullPassEmpties
<1> DEFINE Empties ==
        /\ StartShows => Orphaned(episodes) = {} /\ Orphaned(seasons) = {}
        /\ OfShows /\ Retire => \A s \in Orphaned(shows') :
                                   \/ s.id \in Staged
                                   \/ \E r \in episodes \cup seasons : r.show = s.id
<1>1. ASSUME IInv, StartShows PROVE Orphaned(episodes) = {} /\ Orphaned(seasons) = {}
  <2>1. Orphaned(episodes) = {} /\ Ids(Orphaned(seasons)) = {}
    BY <1>1 DEF StartShows, IInv, Ahead
  <2> QED BY <2>1 DEF Ids
<1>2. ASSUME IInv, OfShows, Retire, NEW s \in Orphaned(shows')
      PROVE  s.id \in Staged \/ \E r \in episodes \cup seasons : r.show = s.id
  <2>1. RetiringShows /\ ~Moving /\ shows' = shows \ Deleted(shows)
    BY <1>2, RetireFacts
  <2>2. s \in shows /\ ~s.ingested /\ s.id \notin pass.doomed
    BY <2>1 DEF Orphaned, Deleted
  <2>3. s.id \in OrphanShows
    BY <2>2 DEF OrphanShows, Orphaned, Ids
  <2> QED BY <1>2, <2>1, <2>2, <2>3 DEF IInv, Ahead
<1>3. IInv /\ [Next]_vars => [Empties]_vars
  BY <1>1, <1>2
<1> QED BY <1>3, RetireInvariant, PTL DEF Spec, FullPassEmpties

-----------------------------------------------------------------------------
(* What the report foretells                                               *)

\* The pairs of a show, from the catalog as it is.
PlannedPairs(s) == IdPairs(PlanMatches(s, PlanLink(s, <<>>), <<>>))

\* The report lists what users have on an orphan episode without a twin.
EpisodesForetold ==
    \A s \in shows : \A f \in FactsOn(Ids(OrphansOf(s.id)), rows) :
        Survivors(PlannedPairs(s), f[3]) = {} => f \in report.losses

\* And what they have on an orphan show without a link, where nothing holds the
\* show; once the run has planned a show, its link is the one that was found then.
Loose(s) == /\ ~s.ingested /\ s.id \notin Staged
            /\ \A r \in Mirrored(episodes \cup seasons) : r.show # s.id
Planned(s) == pass.at # "idle" /\ s.id \notin pass.work
ShowsForetold ==
    \A s \in shows : \A f \in FactsOn({s.id}, rows) :
        (/\ Loose(s)
         /\ IF Planned(s) THEN Survivors(pass.links, s.id) = {} ELSE PlanLink(s, <<>>) = NoLink)
        => f \in report.losses

\* The run plans from what the report saw, and brings nobody's history to a
\* place that it takes away later.
PlanForetold ==
    /\ pass.at = "next" \/ OfEpisodes =>
        \A s \in DOMAIN pass.cache : pass.cache[s] = IngestedOf(s)
    /\ OfEpisodes =>
        /\ pass.show \notin pass.work
        /\ \A s \in shows : s.id = pass.show => pass.pairs = PlannedPairs(s)
        /\ \A r \in txn.add : \/ r[3] \in Ids(Mirrored(episodes))
                              \/ \E e \in Mirrored(episodes) : e.show = r[3]
    /\ fresh = {}

LossesForetold ==
    InTransaction =>
        /\ Moving => txn.lost = {}
        /\ \A f \in FactsOn(AllIds, txn.lost) :
            f \in report.losses \/ Rests(f, pass.pairs, View)

Foretelling == report.made /\ ~report.resumed
Foretold == Foretelling => EpisodesForetold /\ ShowsForetold /\ PlanForetold /\ LossesForetold

\* A plan from a cache that is up to date is one from the catalog.
LEMMA CacheSame ==
    ASSUME NEW cache, \A x \in DOMAIN cache : cache[x] = IngestedOf(x), NEW s
    PROVE  /\ PlanLink(s, cache) = PlanLink(s, <<>>)
           /\ \A link : PlanMatches(s, link, cache) = PlanMatches(s, link, <<>>)
<1>1. \A x : Cached(cache, x) = IngestedOf(x)
  BY DEF Cached
<1>2. \A x : Cached(<<>>, x) = IngestedOf(x)
  <2>1. DOMAIN <<>> = {}
    OBVIOUS
  <2> QED BY <2>1 DEF Cached
<1>3. [x \in Siblings(s) |-> Cached(cache, x)] = [x \in Siblings(s) |-> Cached(<<>>, x)]
  BY <1>1, <1>2
<1>4. PlanLink(s, cache) = PlanLink(s, <<>>)
  BY <1>3 DEF PlanLink
<1>5. ASSUME NEW link PROVE PlanMatches(s, link, cache) = PlanMatches(s, link, <<>>)
  <2>1. Linked(link, cache) = Linked(link, <<>>)
    BY <1>1, <1>2 DEF Linked
  <2> QED BY <2>1 DEF PlanMatches
<1> QED BY <1>4, <1>5

\* A plan depends on the orphans of its show and on the ingested rows only.
LEMMA PlanSame ==
    ASSUME shows' = shows, \A x : IngestedOf(x)' = IngestedOf(x),
           {e \in episodes : e.ingested}' = {e \in episodes : e.ingested},
           NEW s, OrphansOf(s.id)' = OrphansOf(s.id)
    PROVE  PlanLink(s, <<>>)' = PlanLink(s, <<>>) /\ PlannedPairs(s)' = PlannedPairs(s)
<1>1. \A x : Cached(<<>>, x)' = Cached(<<>>, x)
  BY DEF Cached
<1>2. Siblings(s)' = Siblings(s) /\ (IngestRan' <=> IngestRan)
  BY DEF Siblings, IngestRan
<1>3. [x \in Siblings(s) |-> Cached(<<>>, x)]' = [x \in Siblings(s) |-> Cached(<<>>, x)]
  BY <1>1, <1>2
<1>4. PlanLink(s, <<>>)' = PlanLink(s, <<>>)
  BY <1>2, <1>3 DEF PlanLink
<1> DEFINE link == PlanLink(s, <<>>)
<1>5. Linked(link, <<>>)' = Linked(link, <<>>)
  BY <1>1, <1>4 DEF Linked
<1>6. PlanMatches(s, link, <<>>)' = PlanMatches(s, link, <<>>)
  BY <1>4, <1>5 DEF PlanMatches
<1> QED BY <1>4, <1>6 DEF PlannedPairs, IdPairs

LEMMA TablesSame ==
    ASSUME UNCHANGED <<episodes, seasons, shows>>
    PROVE  \A s : /\ PlanLink(s, <<>>)' = PlanLink(s, <<>>)
                  /\ PlannedPairs(s)' = PlannedPairs(s)
                  /\ OrphansOf(s.id)' = OrphansOf(s.id)
                  /\ Loose(s)' <=> Loose(s)
<1>1. \A x : OrphansOf(x)' = OrphansOf(x) /\ IngestedOf(x)' = IngestedOf(x)
  BY DEF OrphansOf, IngestedOf
<1>2. {e \in episodes : e.ingested}' = {e \in episodes : e.ingested}
  OBVIOUS
<1>3. \A s : Loose(s)' <=> Loose(s)
  BY DEF Loose, Mirrored
<1> QED BY <1>1, <1>2, <1>3, PlanSame

\* A step that leaves the tables, the report and what has been planned.
LEMMA ListedSame ==
    ASSUME UNCHANGED <<episodes, seasons, shows, rows, report>>
    PROVE  /\ EpisodesForetold => EpisodesForetold'
           /\ ShowsForetold /\ pass'.links = pass.links
              /\ (\A s \in shows : ~s.ingested => (Planned(s)' <=> Planned(s)))
              => ShowsForetold'
<1>1. \A s : FactsOn(Ids(OrphansOf(s.id)), rows)' = FactsOn(Ids(OrphansOf(s.id)), rows)
  BY TablesSame DEF FactsOn, On, Ids
<1>2. \A s : FactsOn({s.id}, rows)' = FactsOn({s.id}, rows)
  BY DEF FactsOn, On
<1>3. ASSUME EpisodesForetold PROVE EpisodesForetold'
  BY <1>1, <1>3, TablesSame DEF EpisodesForetold, Survivors
<1>4. ASSUME ShowsForetold, pass'.links = pass.links,
             \A s \in shows : ~s.ingested => (Planned(s)' <=> Planned(s))
      PROVE  ShowsForetold'
  <2>1. SUFFICES ASSUME NEW s \in shows, NEW f \in FactsOn({s.id}, rows), Loose(s)',
                        IF Planned(s)' THEN Survivors(pass'.links, s.id) = {}
                        ELSE PlanLink(s, <<>>)' = NoLink
                 PROVE  f \in report.losses
    BY <1>2 DEF ShowsForetold, Survivors
  <2>2. Loose(s) /\ PlanLink(s, <<>>)' = PlanLink(s, <<>>)
    BY <2>1, TablesSame
  <2>3. Planned(s)' <=> Planned(s)
    BY <1>4, <2>2 DEF Loose
  <2> QED BY <1>4, <2>1, <2>2, <2>3 DEF ShowsForetold
<1> QED BY <1>3, <1>4

\* Outside of a transaction, nothing is being lost.
LEMMA QuietForetold ==
    ASSUME IInv, ~InTransaction'
    PROVE  LossesForetold'
BY DEF LossesForetold

\* The report itself: it lists every row without a survivor (would_lose).
LEMMA ReportSays ==
    ASSUME IInv, Report
    PROVE  Foretold'
<1>1. /\ pass.at = "idle" /\ report' = [made |-> TRUE, losses |-> Losses, resumed |-> FALSE]
      /\ UNCHANGED <<episodes, seasons, shows, rows, txn, pass, fresh>>
  BY DEF Report, catalog
<1>2. ~InTransaction /\ fresh = {}
  BY <1>1, QuietTxn DEF InTransaction
<1> DEFINE losses == report'.losses
<1>3. losses = Losses
  BY <1>1
<1>4. EpisodesForetold'
  <2>1. SUFFICES ASSUME NEW s \in shows, NEW f \in FactsOn(Ids(OrphansOf(s.id)), rows),
                        Survivors(PlannedPairs(s), f[3]) = {}
                 PROVE  f \in Losses
    BY <1>1, <1>3, TablesSame DEF EpisodesForetold, FactsOn, On, Ids, Survivors
  <2>2. f \in EpisodeLosses(s)
    BY <2>1 DEF EpisodeLosses, Unmoved, PlannedPairs
  <2>3. OrphansOf(s.id) # {}
    BY <2>1 DEF FactsOn, On, Ids
  <2>4. s.id \in WorkShows
    BY <2>3 DEF WorkShows
  <2> QED BY <2>2, <2>4 DEF Losses
<1>5. ShowsForetold'
  <2>1. SUFFICES ASSUME NEW s \in shows, NEW f \in FactsOn({s.id}, rows), Loose(s),
                        PlanLink(s, <<>>) = NoLink
                 PROVE  f \in Losses
    BY <1>1, <1>3, TablesSame DEF ShowsForetold, FactsOn, On, Planned
  <2>2. s.id \in OrphanShows
    BY <2>1 DEF Loose, OrphanShows, Orphaned, Ids
  <2>3. Survivors(LinkPairs(ShowLinks), s.id) = {}
    <3>1. SUFFICES ASSUME NEW p \in LinkPairs(ShowLinks), p[1] = s.id PROVE FALSE
      BY DEF Survivors
    <3>2. PICK q \in ShowLinks : p = <<q[1], q[2].to>> /\ q[2] # NoLink
      BY <3>1 DEF LinkPairs
    <3>3. PICK x \in shows : q = <<x.id, PlanLink(x, <<>>)>>
      BY <3>2 DEF ShowLinks
    <3>4. x.id = s.id
      BY <3>1, <3>2, <3>3
    <3>5. x = s
      BY <3>4, TypedTables, IdsFit DEF IInv
    <3> QED BY <2>1, <3>2, <3>3, <3>5
  <2>4. f \in FactsOn(OrphanShows, rows) /\ f[3] = s.id
    BY <2>1, <2>2 DEF FactsOn, On
  <2>5. f \in Unmoved(OrphanShows, LinkPairs(ShowLinks))
    BY <2>3, <2>4 DEF Unmoved
  <2> QED BY <2>5 DEF Losses
<1>6. PlanForetold' /\ LossesForetold'
  <2>1. pass'.at = "idle" /\ ~InTransaction'
    BY <1>1 DEF InTransaction
  <2> QED BY <1>1, <1>2, <2>1 DEF PlanForetold, LossesForetold, OfEpisodes
<1> QED BY <1>4, <1>5, <1>6 DEF Foretold

\* A run begins: every orphan show is still to be planned.
LEMMA StartSays ==
    ASSUME IInv, Foretold, Start
    PROVE  Foretold'
<1>1. PICK limited \in {FALSE, Limited} :
          pass' = [NoPass EXCEPT !.at = "next", !.limited = limited, !.work = WorkShows]
  BY DEF Start
<1>2. /\ UNCHANGED <<episodes, seasons, shows, rows, txn, fresh, report>>
      /\ pass.at = "idle" /\ ~InTransaction
  BY DEF Start, catalog, InTransaction
<1>3. /\ pass'.at = "next" /\ pass'.work = WorkShows /\ DOMAIN pass'.cache = {}
      /\ ~InTransaction'
  BY <1>1, AtRest DEF NoPass, InTransaction
<1>4. SUFFICES ASSUME Foretelling PROVE Foretold'
  BY <1>2 DEF Foretold, Foretelling
<1>5. EpisodesForetold /\ ShowsForetold
  BY <1>4 DEF Foretold
<1>6. EpisodesForetold'
  BY <1>2, <1>5, ListedSame
<1>7. ShowsForetold'
  <2>1. SUFFICES ASSUME NEW s \in shows, NEW f \in FactsOn({s.id}, rows), Loose(s),
                        ~Planned(s)' => PlanLink(s, <<>>) = NoLink
                 PROVE  f \in report.losses
    BY <1>2, TablesSame DEF ShowsForetold, FactsOn, On
  <2>2. s.id \in WorkShows
    BY <2>1 DEF Loose, WorkShows
  <2>3. ~Planned(s)' /\ ~Planned(s)
    BY <1>2, <1>3, <2>2 DEF Planned
  <2> QED BY <1>5, <2>1, <2>3 DEF ShowsForetold
<1>8. PlanForetold' /\ LossesForetold'
  BY <1>2, <1>3, QuietTxn DEF PlanForetold, LossesForetold, OfEpisodes
<1> QED BY <1>6, <1>7, <1>8 DEF Foretold

\* A plan of the run is the plan that the report made of the show.
LEMMA PlanSays ==
    ASSUME IInv, Foretold, Plan
    PROVE  Foretold'
<1>1. PICK s \in shows : Planning(s)
  BY PlanFacts DEF IInv
<1>2. UNCHANGED <<episodes, seasons, shows, rows, txn, fresh, report>>
  BY <1>1 DEF Planning
<1>3. SUFFICES ASSUME Foretelling PROVE Foretold'
  BY <1>2 DEF Foretold, Foretelling
<1>4. EpisodesForetold /\ ShowsForetold /\ PlanForetold
  BY <1>3 DEF Foretold
<1>5. /\ pass.at = "next" /\ pass'.at \in {"next", "watch"} /\ pass'.show = s.id
      /\ s.id \in pass.work /\ pass'.work = pass.work \ {s.id} /\ ~InTransaction
      /\ txn = NoTxn /\ fresh = {}
      /\ InTransaction' => Moving'
  <2>1. pass.at = "next" /\ pass'.at \in {"next", "watch"}
    BY <1>1 DEF Planning
  <2>2. ~InTransaction /\ (InTransaction' => Moving')
    BY <2>1 DEF InTransaction, Moving
  <2> QED BY <1>1, <2>1, <2>2, QuietTxn DEF Planning
<1>6. \A x \in DOMAIN pass.cache : pass.cache[x] = IngestedOf(x)
  BY <1>4, <1>5 DEF PlanForetold
<1>7. LinkOf(s) = PlanLink(s, <<>>) /\ PairsOfShow(s) = PlannedPairs(s)
  BY <1>6, CacheSame DEF LinkOf, PairsOfShow, PlannedPairs
<1>8. EpisodesForetold'
  BY <1>2, <1>4, ListedSame
<1>9. ShowsForetold'
  <2>1. SUFFICES ASSUME NEW t \in shows, NEW f \in FactsOn({t.id}, rows), Loose(t),
                        IF Planned(t)' THEN Survivors(pass'.links, t.id) = {}
                        ELSE PlanLink(t, <<>>) = NoLink
                 PROVE  f \in report.losses
    BY <1>2, TablesSame DEF ShowsForetold, FactsOn, On, Survivors
  <2>2. pass'.links = pass.links \cup LinkPairs({<<s.id, PlanLink(s, <<>>)>>})
    BY <1>1, <1>7 DEF Planning
  <2>3. CASE t.id = s.id
    <3>1. t = s
      BY <2>3, TypedTables, IdsFit DEF IInv
    <3>2. Planned(t)' /\ ~Planned(t)
      BY <1>5, <2>3 DEF Planned
    <3>3. PlanLink(s, <<>>) = NoLink
      <4> DEFINE link == PlanLink(s, <<>>)
                 pair == <<s.id, link>>
      <4>1. pass'.links = pass.links \cup LinkPairs({pair})
        BY <2>2
      <4> HIDE DEF link
      <4>2. SUFFICES ASSUME link # NoLink PROVE FALSE
        BY DEF link
      <4>3. pair \in {q \in {pair} : q[2] # NoLink} /\ pair[1] = s.id /\ pair[2] = link
        BY <4>2
      <4>4. <<s.id, link.to>> \in LinkPairs({pair})
        BY <4>3 DEF LinkPairs
      <4> HIDE DEF pair
      <4>5. <<s.id, link.to>> \in {p \in pass'.links : p[1] = t.id}
        BY <2>3, <4>1, <4>4
      <4>6. link.to \in Survivors(pass'.links, t.id)
        BY <4>5 DEF Survivors
      <4> QED BY <2>1, <3>2, <4>6
    <3> QED BY <1>4, <2>1, <3>1, <3>2, <3>3 DEF ShowsForetold
  <2>4. CASE t.id # s.id
    <3>1. Planned(t)' <=> Planned(t)
      BY <1>5, <2>4 DEF Planned
    <3>2. Survivors(pass'.links, t.id) = {} => Survivors(pass.links, t.id) = {}
      BY <2>2 DEF Survivors
    <3> QED BY <1>4, <2>1, <3>1, <3>2 DEF ShowsForetold
  <2> QED BY <2>3, <2>4
<1>10. PlanForetold'
  <2>1. \A x : IngestedOf(x)' = IngestedOf(x)
    BY <1>2 DEF IngestedOf
  <2>2. \A x \in DOMAIN pass'.cache : pass'.cache[x] = IngestedOf(x)'
    BY <1>1, <1>6, <2>1 DEF Planning
  <2>3. pass'.pairs = PlannedPairs(s) /\ PlannedPairs(s)' = PlannedPairs(s)
    BY <1>1, <1>2, <1>7, TablesSame DEF Planning
  <2>4. \A t \in shows' : t.id = pass'.show => t = s
    BY <1>2, <1>5, TypedTables, IdsFit DEF IInv
  <2>5. txn'.add = {}
    BY <1>2, <1>5, AtRest
  <2> QED BY <1>2, <1>5, <2>2, <2>3, <2>4, <2>5 DEF PlanForetold
<1>11. LossesForetold'
  <2>1. txn'.lost = {}
    BY <1>2, <1>5, AtRest
  <2> QED BY <2>1 DEF LossesForetold, FactsOn, On
<1> QED BY <1>8, <1>9, <1>10, <1>11 DEF Foretold

\* A step of a transaction leaves what the report lists and what was planned.
LEMMA StageSays ==
    ASSUME IInv, InTransaction, InTransaction',
           UNCHANGED <<episodes, seasons, shows, rows, fresh, report>>,
           UNCHANGED <<pass.work, pass.links, pass.cache, pass.show, pass.pairs>>,
           EpisodesForetold, ShowsForetold, PlanForetold,
           \A r \in txn'.add : \/ r \in txn.add \/ r[3] \in Ids(Mirrored(episodes))
                               \/ \E e \in Mirrored(episodes) : e.show = r[3]
                               \/ ~OfEpisodes
    PROVE  EpisodesForetold' /\ ShowsForetold' /\ PlanForetold'
<1>1. EpisodesForetold' /\ ShowsForetold'
  <2>1. \A s \in shows : Planned(s)' <=> Planned(s)
    BY DEF Planned, InTransaction
  <2> QED BY <2>1, ListedSame
<1>2. (OfEpisodes' <=> OfEpisodes) /\ Mirrored(episodes)' = Mirrored(episodes)
  BY FrameKeeps
<1>3. pass'.at # "next"
  BY DEF InTransaction
<1>4. \A x : IngestedOf(x)' = IngestedOf(x) /\ PlannedPairs(x)' = PlannedPairs(x)
  BY TablesSame DEF IngestedOf
<1>5. PlanForetold'
  <2>1. SUFFICES ASSUME OfEpisodes PROVE PlanForetold'
    BY <1>2, <1>3 DEF PlanForetold
  <2>2. \A x \in DOMAIN pass'.cache : pass'.cache[x] = IngestedOf(x)'
    BY <1>4, <2>1 DEF PlanForetold
  <2>3. \A s \in shows' : s.id = pass'.show => pass'.pairs = PlannedPairs(s)'
    BY <1>4, <2>1 DEF PlanForetold
  <2>4. \A r \in txn'.add : \/ r[3] \in Ids(Mirrored(episodes))'
                            \/ \E e \in Mirrored(episodes)' : e.show = r[3]
    BY <1>2, <2>1 DEF PlanForetold
  <2> QED BY <2>1, <2>2, <2>3, <2>4 DEF PlanForetold
<1> QED BY <1>1, <1>5

LEMMA MoveSays ==
    ASSUME IInv, Foretold, NEW stage \in {"watch", "rating", "event"}, Move(stage)
    PROVE  Foretold'
<1>1. /\ txn'.lost = txn.lost /\ txn'.add = txn.add \cup {Landing(r) : r \in Movable(stage)}
      /\ UNCHANGED <<episodes, seasons, shows, rows, fresh, report>>
      /\ Step(stage) /\ stage \in DOMAIN After
      /\ \A r \in Movable(stage) :
            r \in AllRows /\ \E p \in pass.pairs : p[1] = r[3] /\ Landing(r) = Landed(r, p[2])
  BY MoveFacts
<1>2. /\ UNCHANGED <<pass.work, pass.links, pass.cache, pass.show, pass.pairs>>
      /\ InTransaction /\ InTransaction' /\ Moving
  BY <1>1, StepFacts DEF IInv, Moving
<1>3. SUFFICES ASSUME Foretelling PROVE Foretold'
  BY <1>1 DEF Foretold, Foretelling
<1>4. EpisodesForetold /\ ShowsForetold /\ PlanForetold /\ LossesForetold
  BY <1>3 DEF Foretold
<1>5. ASSUME OfEpisodes, NEW r \in Movable(stage) PROVE Landing(r)[3] \in Ids(Mirrored(episodes))
  <2>1. PICK p \in pass.pairs : Landing(r) = Landed(r, p[2])
    BY <1>1
  <2>2. p[2] \in Ids(Mirrored(episodes))
    BY <1>2, <1>5 DEF IInv, PairsFit
  <2>3. Landing(r) = <<r[1], r[2], p[2]>>
    BY <1>1, <2>1, LandedIs
  <2> QED BY <2>2, <2>3
<1>6. EpisodesForetold' /\ ShowsForetold' /\ PlanForetold'
  BY <1>1, <1>2, <1>4, <1>5, StageSays
<1>7. LossesForetold'
  BY <1>1, <1>2, <1>4 DEF LossesForetold, FactsOn, On
<1> QED BY <1>6, <1>7 DEF Foretold

\* Who is made to follow a show follows one that has ingested episodes.
LEMMA TrackSays ==
    ASSUME IInv, Foretold, Track
    PROVE  Foretold'
<1>1. /\ ~OfShows /\ Step("middle") /\ "middle" \in DOMAIN After
      /\ txn' = [txn EXCEPT !.add = @ \cup (Tracking \ View)]
      /\ UNCHANGED <<episodes, seasons, shows, rows, fresh, report>>
  BY StagesAre DEF Track, catalog
<1>2. /\ UNCHANGED <<pass.work, pass.links, pass.cache, pass.show, pass.pairs>>
      /\ InTransaction /\ InTransaction' /\ Moving /\ OfEpisodes
  BY <1>1, StepFacts DEF IInv, Moving, OfEpisodes
<1>3. SUFFICES ASSUME Foretelling PROVE Foretold'
  BY <1>1 DEF Foretold, Foretelling
<1>4. EpisodesForetold /\ ShowsForetold /\ PlanForetold /\ LossesForetold
  BY <1>3 DEF Foretold
<1> DEFINE tracked == Tracking \ View
<1>5. ASSUME NEW r \in Tracking PROVE \E e \in Mirrored(episodes) : e.show = r[3]
  <2>1. PICK q \in txn.add \X episodes : r = <<"watch", q[1][2], q[2].show>> /\ q[1][3] = q[2].id
    BY DEF Tracking
  <2>2. q[2].id \in Ids(episodes) /\ q[2].id \in Ids(Entries)
    BY <2>1, TypedTables DEF IInv, Ids
  <2>3. q[1][3] \in Ids(Mirrored(episodes)) \cup Ids(shows)
    BY <1>2, <2>1 DEF IInv, ChangesFit
  <2>4. q[2].id \in Ids(Mirrored(episodes))
    BY <2>1, <2>2, <2>3, IdsFit, TypedTables DEF IInv
  <2>5. q[2] \in Mirrored(episodes)
    BY <2>1, <2>4, TypedTables DEF IInv, Ids, Mirrored
  <2> QED BY <2>1, <2>5
<1>6. \A r \in tracked : \E e \in Mirrored(episodes) : e.show = r[3]
  BY <1>5
<1> HIDE DEF tracked
<1>7. txn'.add = txn.add \cup tracked /\ txn'.lost = txn.lost
  <2>1. txn' = [txn EXCEPT !.add = @ \cup tracked]
    BY <1>1 DEF tracked
  <2> QED BY <2>1, TypedTxn DEF IInv, TxnRows
<1>8. EpisodesForetold' /\ ShowsForetold' /\ PlanForetold'
  BY <1>1, <1>2, <1>4, <1>6, <1>7, StageSays
<1>9. LossesForetold'
  BY <1>2, <1>4, <1>7 DEF LossesForetold, FactsOn, On
<1> QED BY <1>8, <1>9 DEF Foretold

LEMMA LeaveBlockedSays ==
    ASSUME IInv, Foretold, LeaveBlocked
    PROVE  Foretold'
<1>1. /\ OfShows /\ pass.at = "middle"
      /\ pass' = [pass EXCEPT !.at = After["middle"], !.doomed = @ \ BlockedShows]
      /\ UNCHANGED <<episodes, seasons, shows, rows, txn, fresh, report>>
  BY DEF LeaveBlocked, catalog
<1>2. /\ UNCHANGED <<pass.work, pass.links, pass.cache, pass.show, pass.pairs>>
      /\ InTransaction /\ InTransaction' /\ Moving /\ ~OfEpisodes
  BY <1>1, StagesAre, TypedPass DEF IInv, Moving, OfEpisodes, InTransaction, PassRows
<1>3. SUFFICES ASSUME Foretelling PROVE Foretold'
  BY <1>1 DEF Foretold, Foretelling
<1>4. EpisodesForetold /\ ShowsForetold /\ PlanForetold /\ LossesForetold
  BY <1>3 DEF Foretold
<1>5. EpisodesForetold' /\ ShowsForetold' /\ PlanForetold'
  BY <1>1, <1>2, <1>4, StageSays
<1>6. LossesForetold'
  BY <1>1, <1>2, <1>4 DEF LossesForetold, FactsOn, On
<1> QED BY <1>5, <1>6 DEF Foretold

\* What is taken away in the end had no survivor, or is on it.
LEMMA ClearSays ==
    ASSUME IInv, Foretold, NEW stage \in {"clear_watch", "clear_rating", "clear_event"},
           Clear(stage)
    PROVE  Foretold'
<1>1. /\ txn'.add = txn.add /\ txn'.lost = txn.lost \cup LeftOf(stage)
      /\ txn'.del = txn.del \cup LeftOf(stage)
      /\ UNCHANGED <<episodes, seasons, shows, rows, fresh, report>>
      /\ Step(stage) /\ stage \in DOMAIN After
      /\ ~Moving /\ ~Moving' /\ InTransaction /\ InTransaction' /\ Done = FactKinds
      /\ LeftOf(stage) \subseteq View /\ \A r \in LeftOf(stage) : r[3] \in pass.doomed
  BY ClearFacts
<1>2. UNCHANGED <<pass.work, pass.links, pass.cache, pass.show, pass.pairs>>
  BY <1>1, StepFacts DEF IInv
<1>3. SUFFICES ASSUME Foretelling PROVE Foretold'
  BY <1>1 DEF Foretold, Foretelling
<1>4. EpisodesForetold /\ ShowsForetold /\ PlanForetold /\ LossesForetold
  BY <1>3 DEF Foretold
<1>5. EpisodesForetold' /\ ShowsForetold' /\ PlanForetold'
  BY <1>1, <1>2, <1>4, StageSays
<1>6. \A r \in View : r[3] \notin pass.doomed => r \in View'
  BY <1>1 DEF View
\* What is on a survivor, or further on, stays there.
<1>7. ASSUME NEW f \in AllRows, Rests(f, pass.pairs, View) PROVE Rests(f, pass.pairs, View')
  <2>1. PICK t \in Survivors(pass.pairs, f[3]) :
            Landed(f, t) \in View \/ \E u \in Survivors(pass.pairs, t) : Landed(f, u) \in View
    BY <1>7 DEF Rests
  <2>2. \A id : \A u \in Survivors(pass.pairs, id) : u \notin pass.doomed
    BY <1>1, PairsStay DEF Survivors
  <2>3. \A u : Landed(f, u)[3] = u
    BY LandedIs
  <2> QED BY <1>6, <2>1, <2>2, <2>3 DEF Rests
<1>8. ASSUME NEW f \in LeftOf(stage), f[1] \in FactKinds
      PROVE  f \in report.losses \/ Rests(f, pass.pairs, View)
  <2>1. f \in rows
    <3>1. f[3] \in Leaving
      BY <1>1, <1>8, DoomedLeave DEF IInv
    <3>2. f \notin txn.add
      <4>1. SUFFICES ASSUME f \in txn.add PROVE FALSE
        OBVIOUS
      <4>2. CASE OfEpisodes
        BY <3>1, <4>1, <4>2, LeavingFits DEF IInv, ChangesFit, OfEpisodes
      <4>3. CASE RetiringShows
        <5>1. Lasting(f[3])
          BY <4>1, <4>3 DEF IInv, ChangesFit, RetiringShows, OfEpisodes
        <5>2. \A e \in Mirrored(episodes) : e.show # f[3]
          BY <1>1, <1>8, <4>3 DEF IInv, Ahead, Mirrored
        <5> QED BY <3>1, <5>1, <5>2, LeavingFits DEF IInv, Lasting
      <4> QED BY <1>1, <4>2, <4>3 DEF OfEpisodes, RetiringShows
    <3> QED BY <1>1, <1>8, <3>2 DEF View
  <2>2. CASE Survivors(pass.pairs, f[3]) # {}
    <3>1. PICK p \in pass.pairs : p[1] = f[3]
      BY <2>2 DEF Survivors
    <3>2. Arrived(f, p)
      BY <1>1, <1>4, <1>8, <2>1, <3>1 DEF IInv, Carried, PlanForetold
    <3>3. p[2] \in Survivors(pass.pairs, f[3])
      BY <3>1 DEF Survivors
    <3>4. txn.add \subseteq View
      BY DEF View
    <3> QED BY <3>2, <3>3, <3>4 DEF Arrived, Rests
  <2>3. CASE Survivors(pass.pairs, f[3]) = {} /\ OfEpisodes
    <3>1. f[3] \in Ids(OrphansOf(pass.show))
      BY <1>1, <1>8, <2>3 DEF IInv, Ahead, Leaving, OfEpisodes
    <3>2. PICK s \in shows : s.id = pass.show
      BY <3>1 DEF IInv, Upstanding, OrphansOf, Ids
    <3>3. pass.pairs = PlannedPairs(s)
      BY <1>4, <2>3, <3>2 DEF PlanForetold
    <3>4. f \in FactsOn(Ids(OrphansOf(s.id)), rows)
      BY <1>8, <2>1, <3>1, <3>2 DEF FactsOn, On
    <3> QED BY <1>4, <2>3, <3>3, <3>4 DEF EpisodesForetold
  <2>4. CASE Survivors(pass.pairs, f[3]) = {} /\ RetiringShows
    <3>1. f[3] \in OrphanShows /\ f[3] \notin Staged /\ \A r \in episodes \cup seasons : r.show # f[3]
      BY <1>1, <1>8, <2>4 DEF IInv, Ahead
    <3>2. PICK s \in shows : s.id = f[3] /\ ~s.ingested
      BY <3>1 DEF OrphanShows, Orphaned, Ids
    <3>3. Loose(s)
      BY <3>1, <3>2 DEF Loose, Mirrored
    <3>4. Planned(s)
      BY <2>4 DEF IInv, Ahead, Planned, RetiringShows, InTransaction
    <3>5. Survivors(pass.links, s.id) = {}
      BY <2>4, <3>1, <3>2 DEF IInv, PairsFit, RetiringShows, Survivors
    <3>6. f \in FactsOn({s.id}, rows)
      BY <1>8, <2>1, <3>2 DEF FactsOn, On
    <3> QED BY <1>4, <3>3, <3>4, <3>5, <3>6 DEF ShowsForetold
  <2> QED BY <1>1, <2>2, <2>3, <2>4 DEF OfEpisodes, RetiringShows
<1>9. LossesForetold'
  <2>1. SUFFICES ASSUME NEW f \in FactsOn(AllIds, txn'.lost)
                 PROVE  f \in report.losses \/ Rests(f, pass.pairs, View')
    BY <1>1, <1>2 DEF LossesForetold, Rests, Survivors
  <2>2. f[1] \in FactKinds /\ (f \in LeftOf(stage) \/ f \in FactsOn(AllIds, txn.lost))
    BY <1>1 DEF FactsOn, On
  <2>3. f \in AllRows
    BY <1>1, <2>2, TypedTxn DEF IInv, FactsOn, On
  <2>4. f \in report.losses \/ Rests(f, pass.pairs, View)
    BY <1>1, <1>4, <1>8, <2>2 DEF LossesForetold
  <2> QED BY <1>7, <2>3, <2>4
<1> QED BY <1>5, <1>9 DEF Foretold

\* The next show's losses are foretold after a deletion as before: what has
\* been brought to a place is on nothing that goes.
LEMMA RetireSays ==
    ASSUME IInv, Foretold, Retire
    PROVE  Foretold'
<1>1. /\ InTransaction /\ ~InTransaction' /\ rows' = View /\ fresh' = {}
      /\ UNCHANGED <<seasons, report>>
  BY RetireFacts
<1>2. SUFFICES ASSUME Foretelling PROVE Foretold'
  BY <1>1 DEF Foretold, Foretelling
<1>3. EpisodesForetold /\ ShowsForetold /\ PlanForetold
  BY <1>2 DEF Foretold
<1>4. LossesForetold'
  BY <1>1 DEF LossesForetold
<1>5. CASE OfShows
  <2>1. /\ RetiringShows /\ shows' = shows \ Deleted(shows) /\ episodes' = episodes
        /\ pass' = NoPass
    BY <1>5, RetireFacts
  <2>2. Orphaned(episodes) = {} /\ Orphaned(seasons) = {}
    BY <2>1 DEF IInv, Ahead
  <2>3. EpisodesForetold'
    BY <2>1, <2>2 DEF EpisodesForetold, OrphansOf, Orphaned, FactsOn, On, Ids
  <2>4. ASSUME NEW s \in shows', Loose(s)' PROVE FALSE
    <3>1. s \in shows /\ ~s.ingested /\ s.id \notin pass.doomed
      BY <2>1, <2>4 DEF Deleted, Loose
    <3>2. s.id \in OrphanShows /\ s.id \notin Staged
      BY <2>4, <3>1 DEF OrphanShows, Orphaned, Ids, Loose
    <3>3. ~Moving
      BY RetireFacts
    <3>4. PICK r \in episodes \cup seasons : r.show = s.id
      BY <2>1, <3>1, <3>2, <3>3 DEF IInv, Ahead
    <3>5. r \in Mirrored(episodes \cup seasons)
      BY <2>2, <3>4 DEF Mirrored, Orphaned
    <3> QED BY <1>1, <2>1, <2>4, <3>4, <3>5 DEF Loose
  <2>5. ShowsForetold'
    BY <2>4 DEF ShowsForetold
  <2>6. PlanForetold'
    BY <1>1, <2>1, AtRest DEF PlanForetold, OfEpisodes
  <2> QED BY <1>4, <2>3, <2>5, <2>6 DEF Foretold
<1>6. CASE ~OfShows
  <2>1. /\ OfEpisodes /\ episodes' = episodes \ Deleted(episodes) /\ shows' = shows
        /\ pass'.at = "next"
        /\ UNCHANGED <<pass.work, pass.links, pass.cache, pass.show>>
    BY <1>6, RetireFacts
  <2>2. /\ \A x : IngestedOf(x)' = IngestedOf(x)
        /\ {e \in episodes : e.ingested}' = {e \in episodes : e.ingested}
        /\ Mirrored(episodes \cup seasons)' = Mirrored(episodes \cup seasons)
    BY <1>1, <2>1 DEF IngestedOf, Deleted, Mirrored
  <2>3. pass.doomed = Ids(OrphansOf(pass.show)) /\ pass.show \notin pass.work
    BY <1>3, <1>6, <2>1 DEF IInv, Ahead, Leaving, PlanForetold
  <2>4. \A x : x # pass.show => OrphansOf(x)' = OrphansOf(x)
    <3>1. SUFFICES ASSUME NEW x, x # pass.show, NEW e \in OrphansOf(x) PROVE e \notin Deleted(episodes)
      BY <2>1 DEF OrphansOf
    <3>2. e.id \notin pass.doomed
      BY <2>3, <3>1, TypedTables DEF IInv, OrphansOf, Ids
    <3> QED BY <3>2 DEF Deleted
  <2>5. \A x : x = pass.show => OrphansOf(x)' = {}
    <3>1. SUFFICES ASSUME NEW e \in episodes', e.show = pass.show, ~e.ingested PROVE FALSE
      BY <2>1 DEF OrphansOf
    <3>2. e \in OrphansOf(pass.show) /\ e \notin Deleted(episodes)
      BY <2>1, <3>1 DEF OrphansOf
    <3> QED BY <2>3, <3>1, <3>2 DEF Deleted, OrphansOf, Ids
  <2>6. \A r \in View : \/ r \in rows \/ r[3] \in Ids(Mirrored(episodes))
                        \/ \E e \in Mirrored(episodes) : e.show = r[3]
    BY <1>3, <2>1 DEF View, PlanForetold
  <2>7. \A s \in shows : s.id # pass.show =>
            PlanLink(s, <<>>)' = PlanLink(s, <<>>) /\ PlannedPairs(s)' = PlannedPairs(s)
    BY <2>1, <2>2, <2>4, PlanSame
  <2>8. EpisodesForetold'
    <3>1. SUFFICES ASSUME NEW s \in shows, NEW f \in FactsOn(Ids(OrphansOf(s.id)'), View),
                          Survivors(PlannedPairs(s)', f[3]) = {}
                   PROVE  f \in report.losses
      BY <1>1, <2>1 DEF EpisodesForetold, FactsOn, On, Ids, Survivors
    <3>2. f[3] \in Ids(OrphansOf(s.id)') /\ f \in View /\ f[1] \in FactKinds
      BY DEF FactsOn, On
    <3>3. s.id # pass.show
      BY <2>5, <3>2 DEF Ids
    <3>4. f[3] \in Ids(OrphansOf(s.id))
      BY <2>4, <3>2, <3>3
    <3>5. f \in rows
      <4>1. PICK o \in OrphansOf(s.id) : f[3] = o.id
        BY <3>4 DEF Ids
      <4>2. o \in episodes /\ ~o.ingested /\ o.id \in Ids(Entries)
        BY <4>1, TypedTables DEF IInv, OrphansOf, Ids
      <4>3. f[3] \notin Ids(Mirrored(episodes))
        BY <4>1, <4>2, TypedTables DEF IInv, Mirrored, Ids
      <4>4. \A e \in Mirrored(episodes) : e.show # f[3]
        <5> TAKE e \in Mirrored(episodes)
        <5>1. e.show \in Ids(Shows)
          BY TypedTables DEF IInv, Upstanding, Mirrored
        <5> QED BY <4>1, <4>2, <5>1, IdsFit
      <4> QED BY <2>6, <3>2, <4>3, <4>4
    <3>6. f \in FactsOn(Ids(OrphansOf(s.id)), rows)
      BY <3>2, <3>4, <3>5 DEF FactsOn, On
    <3> QED BY <1>3, <2>7, <3>1, <3>3, <3>6 DEF EpisodesForetold
  <2>9. ShowsForetold'
    <3>1. SUFFICES ASSUME NEW s \in shows, NEW f \in FactsOn({s.id}, View), Loose(s)',
                          IF Planned(s)' THEN Survivors(pass'.links, s.id) = {}
                          ELSE PlanLink(s, <<>>)' = NoLink
                   PROVE  f \in report.losses
      BY <1>1, <2>1 DEF ShowsForetold, FactsOn, On, Survivors
    <3>2. f[3] = s.id /\ f \in View /\ f[1] \in FactKinds
      BY DEF FactsOn, On
    <3>3. Loose(s)
      BY <2>2, <3>1 DEF Loose
    <3>4. Planned(s)' <=> Planned(s)
      BY <1>1, <2>1 DEF Planned, InTransaction
    <3>5. f \in rows
      <4>1. \A e \in Mirrored(episodes) : e.show # f[3]
        BY <3>2, <3>3 DEF Loose, Mirrored
      <4>2. f[3] \notin Ids(Mirrored(episodes))
        <5>1. s.id \in Ids(Shows) /\ Ids(Mirrored(episodes)) \subseteq Ids(Entries)
          BY TypedTables DEF IInv, Mirrored, Ids
        <5> QED BY <3>2, <5>1, IdsFit
      <4> QED BY <2>6, <3>2, <4>1, <4>2
    <3>6. f \in FactsOn({s.id}, rows)
      BY <3>2, <3>5 DEF FactsOn, On
    <3>7. ~Planned(s) => s.id # pass.show
      BY <1>1, <2>3 DEF Planned, InTransaction
    <3> QED BY <1>3, <2>1, <2>7, <3>1, <3>3, <3>4, <3>6, <3>7 DEF ShowsForetold
  <2>10. PlanForetold'
    BY <1>1, <1>3, <2>1, <2>2 DEF PlanForetold, OfEpisodes
  <2> QED BY <1>4, <2>8, <2>9, <2>10 DEF Foretold
<1> QED BY <1>5, <1>6

LEMMA StartSeasonsSays ==
    ASSUME IInv, Foretold, StartSeasons
    PROVE  Foretold'
<1>1. /\ pass.at = "next"
      /\ pass' = [pass EXCEPT !.at = "seasons", !.doomed = Ids(Orphaned(seasons))]
      /\ UNCHANGED <<episodes, seasons, shows, rows, txn, fresh, report>>
  BY DEF StartSeasons, catalog
<1>2. pass'.at = "seasons" /\ UNCHANGED <<pass.links, pass.work>>
  BY <1>1, TypedPass DEF IInv, PassRows
<1>3. ~InTransaction /\ ~InTransaction' /\ fresh = {}
  BY <1>1, <1>2, QuietTxn DEF InTransaction
<1>4. SUFFICES ASSUME Foretelling PROVE Foretold'
  BY <1>1 DEF Foretold, Foretelling
<1>5. \A s \in shows : Planned(s)' <=> Planned(s)
  BY <1>1, <1>2 DEF Planned
<1>6. EpisodesForetold' /\ ShowsForetold'
  BY <1>1, <1>2, <1>4, <1>5, ListedSame DEF Foretold
<1>7. PlanForetold' /\ LossesForetold'
  BY <1>1, <1>2, <1>3 DEF PlanForetold, LossesForetold, OfEpisodes
<1> QED BY <1>6, <1>7 DEF Foretold

\* Retiring seasons moves episodes to other seasons of their show.
LEMMA RetireSeasonsSays ==
    ASSUME IInv, Foretold, RetireSeasons
    PROVE  Foretold'
<1>1. TypeOK /\ Upstanding /\ Ahead
  BY DEF IInv
<1>2. PICK batch \in SUBSET pass.doomed :
           /\ episodes' = {Rehomed(e, batch) : e \in episodes}
           /\ UNCHANGED <<pass.at, pass.work, pass.links>>
           /\ UNCHANGED <<shows, rows, txn, fresh, report>>
           /\ pass.at = "seasons" /\ Mirrored(seasons) \subseteq seasons'
  BY <1>1, RetireSeasonsFacts
<1>3. ~InTransaction /\ ~InTransaction' /\ fresh = {} /\ pass.work = {} /\ Orphaned(episodes) = {}
  BY <1>2, QuietTxn DEF IInv, Ahead, InTransaction
<1>4. SUFFICES ASSUME Foretelling PROVE Foretold'
  BY <1>2 DEF Foretold, Foretelling
<1>5. \A e \in episodes : /\ Rehomed(e, batch) \in episodes' /\ Rehomed(e, batch).show = e.show
                          /\ Rehomed(e, batch).ingested
  BY <1>1, <1>2, <1>3, RehomedFits DEF Orphaned
<1>6. EpisodesForetold'
  <2>1. \A e \in episodes' : e.ingested
    BY <1>2, <1>5
  <2>2. \A x : OrphansOf(x)' = {}
    BY <2>1 DEF OrphansOf
  <2> QED BY <2>2 DEF EpisodesForetold, FactsOn, On, Ids
<1>7. ShowsForetold'
  <2>1. SUFFICES ASSUME NEW s \in shows, NEW f \in FactsOn({s.id}, rows), Loose(s)',
                        Planned(s)' => Survivors(pass.links, s.id) = {}
                 PROVE  f \in report.losses
    BY <1>2 DEF ShowsForetold, FactsOn, On, Survivors
  <2>2. Planned(s)' /\ Planned(s)
    BY <1>2, <1>3 DEF Planned
  <2>3. Loose(s)
    <3>1. SUFFICES ASSUME NEW r \in episodes \cup seasons, r.ingested, r.show = s.id PROVE FALSE
      BY <2>1 DEF Loose, Mirrored
    <3>2. CASE r \in episodes
      BY <1>5, <2>1, <3>1, <3>2 DEF Loose, Mirrored
    <3>3. CASE r \in seasons
      BY <1>2, <2>1, <3>1, <3>3 DEF Loose, Mirrored
    <3> QED BY <3>2, <3>3
  <2> QED BY <1>4, <2>1, <2>2, <2>3 DEF Foretold, ShowsForetold
<1>8. PlanForetold' /\ LossesForetold'
  BY <1>2, <1>3 DEF PlanForetold, LossesForetold, OfEpisodes
<1> QED BY <1>6, <1>7, <1>8 DEF Foretold

LEMMA StartShowsSays ==
    ASSUME IInv, Foretold, StartShows
    PROVE  Foretold'
<1>1. /\ pass.at = "seasons"
      /\ pass' = IF OrphanShows = {} THEN NoPass
                 ELSE [pass EXCEPT !.at = "watch", !.show = 0, !.doomed = OrphanShows,
                                   !.pairs = {p \in pass.links : p[1] \in OrphanShows}]
      /\ UNCHANGED <<episodes, seasons, shows, rows, txn, fresh, report>>
  BY DEF StartShows, catalog
<1>2. ~InTransaction /\ txn = NoTxn /\ fresh = {}
  BY <1>1, QuietTxn DEF InTransaction
<1>3. SUFFICES ASSUME Foretelling PROVE Foretold'
  BY <1>1 DEF Foretold, Foretelling
<1>4. EpisodesForetold'
  BY <1>1, <1>3, ListedSame DEF Foretold
<1>5. pass'.at # "next" /\ ~OfEpisodes'
  BY <1>1, AtRest, TypedPass DEF IInv, PassRows, OfEpisodes, OfShows, InTransaction
<1>6. ShowsForetold'
  <2>1. CASE OrphanShows = {}
    <3>1. \A s \in shows : s.ingested
      BY <2>1 DEF OrphanShows, Orphaned, Ids
    <3> QED BY <1>1, <3>1 DEF ShowsForetold, Loose
  <2>2. CASE OrphanShows # {}
    <3>1. pass'.at = "watch" /\ UNCHANGED <<pass.links, pass.work>>
      BY <1>1, <2>2, TypedPass DEF IInv, PassRows
    <3>2. \A s \in shows : Planned(s)' <=> Planned(s)
      BY <1>1, <3>1 DEF Planned
    <3> QED BY <1>1, <1>3, <3>1, <3>2, ListedSame DEF Foretold
  <2> QED BY <2>1, <2>2
<1>7. PlanForetold' /\ LossesForetold'
  <2>1. txn'.lost = {}
    BY <1>1, <1>2, AtRest
  <2> QED BY <1>1, <1>2, <1>5, <2>1 DEF PlanForetold, LossesForetold, FactsOn, On
<1> QED BY <1>4, <1>6, <1>7 DEF Foretold

\* A change of anything else ends what the report foretells, and so does the end
\* of a run before its time.
LEMMA OthersSay ==
    ASSUME \/ StopAtLimit \/ Abort
           \/ \E f \in Facts : Put(f) \/ Drop(f)
           \/ \E e \in Late : Ingest(e)
    PROVE  ~Foretelling'
<1>1. CASE StopAtLimit \/ Abort
  <2>1. report' = [report EXCEPT !.resumed = report.made]
    BY <1>1 DEF StopAtLimit, Abort
  <2> QED BY <2>1 DEF Foretelling
<1>2. CASE \E f \in Facts : Put(f) \/ Drop(f)
  BY <1>2, AtRest DEF Put, Drop, Changed, Foretelling
<1>3. CASE \E e \in Late : Ingest(e)
  BY <1>3, AtRest DEF Ingest, Foretelling
<1> QED BY <1>1, <1>2, <1>3

LEMMA StepsSay ==
    ASSUME IInv, Foretold, [Next]_vars
    PROVE  Foretold'
<1>1. CASE Report
  BY <1>1, ReportSays
<1>2. CASE Start \/ Plan
  BY <1>2, StartSays, PlanSays
<1>3. CASE \E stage \in {"watch", "rating", "event"} : Move(stage)
  BY <1>3, MoveSays
<1>4. CASE Track \/ LeaveBlocked
  BY <1>4, TrackSays, LeaveBlockedSays
<1>5. CASE \E stage \in {"clear_watch", "clear_rating", "clear_event"} : Clear(stage)
  BY <1>5, ClearSays
<1>6. CASE Retire \/ StartSeasons \/ RetireSeasons \/ StartShows
  BY <1>6, RetireSays, StartSeasonsSays, RetireSeasonsSays, StartShowsSays
<1>7. CASE \/ StopAtLimit \/ Abort
           \/ \E f \in Facts : Put(f) \/ Drop(f)
           \/ \E e \in Late : Ingest(e)
  BY <1>7, OthersSay DEF Foretold
<1>8. CASE UNCHANGED vars
  <2>1. UNCHANGED <<episodes, seasons, shows, rows, txn, pass, fresh, report>>
    BY <1>8 DEF vars
  <2>2. SUFFICES ASSUME Foretelling PROVE Foretold'
    BY <2>1 DEF Foretold, Foretelling
  <2>3. EpisodesForetold' /\ ShowsForetold'
    BY <2>1, <2>2, ListedSame DEF Foretold, Planned
  <2>4. \A x : IngestedOf(x)' = IngestedOf(x) /\ PlannedPairs(x)' = PlannedPairs(x)
    BY <2>1, TablesSame DEF IngestedOf
  <2>5. PlanForetold'
    BY <2>1, <2>2, <2>4 DEF Foretold, PlanForetold, OfEpisodes, InTransaction, OfShows, Mirrored
  <2>6. LossesForetold'
    BY <2>1, <2>2 DEF Foretold, LossesForetold, InTransaction, Moving, Rests, View, FactsOn, On
  <2> QED BY <2>3, <2>5, <2>6 DEF Foretold
<1> QED BY <1>1, <1>2, <1>3, <1>4, <1>5, <1>6, <1>7, <1>8 DEF Next, PassNext

\* What a pass deletes, of a show or of the orphan shows, is where its survivor is
\* or was listed by the report (build_report, would_lose), as long as nothing
\* else has changed anything since and no run has ended early: what the plan of
\* each show comes to does not depend on the shows that the pass has done.
THEOREM ReportComplete == Spec => ReportForetells
<1>1. Init => Foretold
  BY AtRest DEF Init, Foretold, Foretelling
<1>2. Spec => [](IInv /\ Foretold)
  <2>1. Init => IInv /\ Foretold
    BY <1>1, BeginsSound
  <2>2. IInv /\ Foretold /\ [Next]_vars => (IInv /\ Foretold)'
    BY StepsKeep, StepsSay
  <2> QED BY <2>1, <2>2, PTL DEF Spec
<1>3. IInv /\ Foretold /\ [Next]_vars =>
          [Retire /\ report.made /\ ~report.resumed => ForetoldLosses]_vars
  <2>1. SUFFICES ASSUME IInv, Foretold, Retire, Foretelling PROVE ForetoldLosses
    BY DEF Foretelling
  <2>2. InTransaction /\ rows' = View
    BY <2>1, RetireFacts
  <2> QED BY <2>1, <2>2 DEF Foretold, LossesForetold, ForetoldLosses, Rests
<1> QED BY <1>2, <1>3, PTL DEF Spec, ReportForetells

=============================================================================
