----------------------------- MODULE MCWidgets -----------------------------
(* Small instances of Widgets for TLC. *)
EXTENDS Widgets, TLC

CONSTANTS red, blue, NaN

\* A confirmation whose result is shown by an alert, as in elements.js, a
\* prompt, and an alert on its own.
MCType == [a |-> "confirm", b |-> "alert", c |-> "prompt", d |-> "alert"]
MCFollowUp == [a |-> "b", b |-> "none", c |-> "a", d |-> "none"]
MCDialogs == DOMAIN MCType
MCOffset == -75

\* The ends of the scale, its middle and what is next to them.
MCSamples == {0, 1, 31, 64, 100, 127, 128, 200, 254, 255}

\* No series, one, equal ones, small ones to combine, zeros and a text.
MCCharts == {<<>>, <<3>>, <<2, 2>>, <<8, 1, 1>>, <<1, 6, 0>>, <<0, NaN>>, <<5, NaN, 1>>}

\* The pie of the charts page: a legend, small values combined. A tilted pie
\* moved aside: labels and no legend, nothing combined.
MCOptions ==
    {[threshold |-> 10, labelThreshold |-> 20, labelShow |-> "yes", legendShow |-> TRUE,
      west |-> FALSE, offsetLeft |-> NaN, tilt |-> <<1, 1>>, hoverable |-> TRUE],
     [threshold |-> -1, labelThreshold |-> 20, labelShow |-> "auto", legendShow |-> FALSE,
      west |-> TRUE, offsetLeft |-> 2, tilt |-> <<1, 2>>, hoverable |-> FALSE]}

Exp(of, rel, value, unit) == [of |-> of, rel |-> rel, value |-> value, unit |-> unit]
Wide(rel, value) == Exp("width", rel, value, "length")

\* Sheets for narrow windows, for all but narrow ones on a color screen, for
\* one width or any screen of 24 colors, and for wide windows or narrow ones.
MCQuery ==
    [link1 |-> {[exps |-> {Wide("max", 3)}, not |-> FALSE]},
     link2 |-> {[exps |-> {Wide("max", 3), Exp("color", "is", NaN, "number")}, not |-> TRUE]},
     inpage |-> {[exps |-> {Wide("is", 3)}, not |-> FALSE],
                 [exps |-> {Exp("color", "is", 24, "number")}, not |-> FALSE]},
     script |-> {[exps |-> {Wide("min", 4), Exp("device-width", "min", 5, "length")},
                  not |-> FALSE],
                 [exps |-> {}, not |-> FALSE],
                 [exps |-> {Exp("color", "min", 1, "length")}, not |-> FALSE]}]
MCDevice == [color |-> 24] @@ ("device-width" :> 5)
MCUnitOf == [width |-> "length", color |-> "number"] @@ ("device-width" :> "length")

Symmetric == Permutations({red, blue})
=============================================================================
