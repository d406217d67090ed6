----------------------------- MODULE MCAirdates -----------------------------
(* A show of two seasons, the first of two episodes and one that was         *)
(* authored: TMDB may be a day early with the first season, TV Maze may have *)
(* it under one of two ids.                                                  *)
EXTENDS Airdates, TLC

MCEpisodes == {"s1e1", "s1e2", "s2e1"}
MCSeasonRows == {"s1"}
MCAuthored == {"local"}
MCAuthoredDate == [e \in MCAuthored |-> 25]
MCSeason == [d \in OurEpisodes \cup MCSeasonRows \cup {LastToAir} |->
                IF d \in {"s2e1", LastToAir} THEN 2 ELSE 1]
MCNumber == [e \in OurEpisodes |->
                CASE e = "s1e2" -> 2 [] e = "local" -> 3 [] OTHER -> 1]

\* TMDB with the first season on day a, its second, if only in the pointer, on
\* day b: by the second plan's episodes, of the first season still.
Plan(a, b, dated) == [d \in Given |->
    CASE d \in {"s1e1", "s1", Premiere} -> a
      [] d = "s1e2" -> a + 7
      [] d = "s2e1" -> IF dated THEN b ELSE NoDate
      [] OTHER -> b]
MCSchedules == {Plan(10, 40, TRUE), Plan(11, 20, FALSE)}

\* TV Maze a day later than the first plan, the authored episode too, or as that
\* plan and without that episode, or in two minds.
Lists(first, second, authored) == [e \in OurEpisodes |->
    CASE e = "s1e1" -> first [] e = "s1e2" -> second [] e = "local" -> authored [] OTHER -> 41]
Later == Lists(11, 18, 26)
Same == Lists(10, 17, NoDate)
Split == Lists(11, 23, NoDate)
MCOracles ==
    {[lookup |-> "a", serves |-> [a |-> Later, b |-> Gone]],
     [lookup |-> "b", serves |-> [a |-> Gone, b |-> Same]],
     [lookup |-> "a", serves |-> [a |-> Split, b |-> Gone]],
     [lookup |-> "b", serves |-> [a |-> Gone, b |-> Gone]],
     [lookup |-> None, serves |-> [a |-> Gone, b |-> Gone]]}
MCIds == {"a", "b"}
MCDefaults == {<<>>, Wide :> 1}
=============================================================================
