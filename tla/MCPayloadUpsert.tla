--------------------------- MODULE MCPayloadUpsert ---------------------------
(* A show in four versions: one season; a second season that TMDB has twice  *)
(* for a while; then only the younger twin, and lists that cannot be read    *)
(* or say that there is nothing.                                             *)
EXTENDS PayloadUpsert, TLC

C(p, c) == [person |-> p, character |-> c]
W(p, r) == [person |-> p, role |-> r]
Ep(id, n, t, guests, crew) == [id |-> id, number |-> n, runtime |-> t, guests |-> guests, crew |-> crew]
Block(n, eps, regulars, networks) ==
    [number |-> n, episodes |-> eps, regulars |-> regulars, networks |-> networks]
S(id, n) == [id |-> id, number |-> n]
E(k, v) == [key |-> k, value |-> v]
Say(kw, videos) == [n \in Namespaces |->
    CASE n = "keywords" -> kw [] n = "videos" -> videos [] OTHER -> <<>>]

One == [body |-> "one", joins |-> {"x"}, seasons |-> <<S("s11", 1)>>,
    creators |-> <<[credit |-> "k1", person |-> "ann"], [credit |-> "k1", person |-> "bea"]>>,
    countries |-> [us |-> "x"], spaces |-> Say(<<E("x", "x")>>, <<E("x", "x"), E("x", "y")>>),
    cast |-> <<[person |-> "ann", characters |-> <<"c", Null>>], [person |-> "bea", characters |-> <<"c">>]>>,
    crew |-> <<[person |-> "bea", roles |-> <<"r", Null>>]>>,
    recommendations |-> <<"t", Self, "u">>, screened |-> {"e101"}, last |-> "e101", next |-> "e102",
    blocks |-> (1 :> Block(1, <<Ep("e101", 1, 20, <<C("ann", "c"), C(Null, "d")>>, <<W("bea", "r")>>),
                                Ep("e102", 1, 25, Absent, <<>>)>>, <<C("ann", "c")>>, {"x"})),
    credited |-> {1}]
Twin == [One EXCEPT !.body = "twin", !.joins = {"y"}, !.seasons = <<S("s11", 1), S("s12", 2), S("s13", 2)>>,
    !.cast = <<[person |-> "ann", characters |-> <<"d">>]>>, !.crew = <<>>,
    !.spaces = Say(Absent, <<>>), !.recommendations = <<"u", "t", "u">>, !.screened = Absent,
    !.blocks = (1 :> Block(1, <<Ep("e101", 1, 20, <<C(Null, "c")>>, <<W("bea", Null)>>),
                                Ep("e102", 1, 26, <<C("bea", "d")>>, <<W("ann", "r")>>)>>, <<C(Null, "c")>>, {}))
            @@ (2 :> Block(2, <<Ep("e103", 2, 40, <<>>, Absent)>>, <<C("bea", "c")>>, {"y"})),
    !.credited = {1, 2}]
Pruned == [Twin EXCEPT !.body = "pruned", !.seasons = <<S("s12", 2), S("s11", 1)>>,
    !.countries = [us |-> Null], !.last = "e103", !.next = Null, !.screened = {},
    !.blocks = (1 :> Block(1, <<Ep("e101", 1, 20, <<>>, <<>>)>>, <<>>, {"y"}))
            @@ (2 :> Block(2, <<Ep("e103", 2, 40, <<C("ann", "c")>>, <<>>), Ep("e102", 2, 26, Absent, Absent)>>,
                           <<C("bea", "c")>>, {"x"})),
    !.credited = {1, 2}, !.recommendations = <<>>]
\* A season whose regulars did not come with it.
Short == [Pruned EXCEPT !.body = "short", !.credited = {2}, !.last = Absent]
MCContent == [one |-> One, twin |-> Twin, pruned |-> Pruned, short |-> Short]
MCVersions == {"one", "twin", "pruned", "short"}

Bare(season, n, t) ==
    [season |-> season, number |-> n, runtime |-> t, screened |-> FALSE, guests |-> {}, crew |-> {}]
\* One of its seasons was matched to TMDB's; TMDB drops it in time.
Local == [Blank EXCEPT
    !.creators = <<[credit |-> Null, person |-> "bea"]>>, !.people = {},
    !.spaces = [n \in Namespaces |-> IF n \in UpstreamKeyed THEN {[key |-> Null, value |-> "y"]} ELSE {}],
    !.seasons = [legacy |-> [id |-> 1, number |-> 1, networks |-> {}, regulars |-> {}],
                 s13 |-> [id |-> 2, number |-> 2, networks |-> {}, regulars |-> {}]],
    !.episodes = [e |-> Bare("legacy", 1, 23), f |-> Bare("s13", 2, Null)]]
MCLocalRows == {Local}
MCPersons == {"ann", "bea"}
MCCharacters == {"c", "d"}
MCRoles == {"r"}
MCCreditIds == {"k1"}
MCKeys == {"x", "y"}
MCCountries == {"us"}
MCSeasonIds == {"s11", "s12", "s13"}
MCEpisodeIds == {"e101", "e102", "e103"}
MCTargets == {"t", "u"}
=============================================================================
