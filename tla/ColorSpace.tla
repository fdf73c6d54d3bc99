------------------------------ MODULE ColorSpace ------------------------------
(***************************************************************************)
(* colorpicker.js: the conversions between the three groups of fields of a *)
(* picker, computed with exact fractions but where floating point shows,   *)
(* and what becomes of a color when its fields are read again and again    *)
(* without being changed (a click on an arrow of a field does that).       *)
(***************************************************************************)
EXTENDS Integers, Sequences, FiniteSetsExt

CONSTANTS
    Samples,   \* the values of red, green and blue to start from
    NearRGB,   \* how far reading red, green and blue takes a channel
    NearHSB    \* how far reading hue, saturation and brightness does

ColorSpaceAssumption ==
    Samples \subseteq 0 .. 255 /\ NearRGB \in Nat /\ NearHSB \in Nat

VARIABLES
    rgb,    \* what the fields for red, green and blue show
    hsb     \* the color of the picker, which the other fields show

vars == <<rgb, hsb>>

RGB == [r : 0 .. 255, g : 0 .. 255, b : 0 .. 255]

\* A fraction: numerator and denominator, which is positive.
Fraction(n, d) == [n |-> n, d |-> d]

\* Math.round of n / d, with ties up or down.
Round(n, d, tiesUp) ==
    IF ~tiesUp /\ (2 * n) % d = 0 /\ ((2 * n) \div d) % 2 = 1
    THEN n \div d
    ELSE (2 * n + d) \div (2 * d)

\* parseInt of what a field shows; a quotient that is a whole number may have
\* come out a little below it.
Truncated(f, below) ==
    IF below /\ f.d > 1 /\ f.n > 0 /\ f.n % f.d = 0
    THEN Fraction(f.n \div f.d - 1, 1)
    ELSE Fraction(f.n \div f.d, 1)

Abs(n) == IF n < 0 THEN -n ELSE n

\* The largest channel and the spread of the channels.
Largest(c) == Max({c.r, c.g, c.b})
Spread(c) == Largest(c) - Min({c.r, c.g, c.b})

\* The hue of RGBToHSB, in degrees: a grey has -1 times 60 plus 360.
Hue(c) ==
    LET d == Spread(c)
        n == CASE c.r = Largest(c) -> c.g - c.b
               [] c.r # Largest(c) /\ c.g = Largest(c) -> 2 * d + c.b - c.r
               [] OTHER -> 4 * d + c.r - c.g
    IN  IF d = 0 THEN Fraction(300, 1)
        ELSE Fraction(60 * n + (IF n < 0 THEN 360 * d ELSE 0), d)

\* RGBToHSB: saturation and brightness in percent.
RGBToHSB(c) ==
    [h |-> Hue(c),
     s |-> IF Largest(c) = 0 THEN Fraction(0, 1)
           ELSE Fraction(100 * Spread(c), Largest(c)),
     b |-> Fraction(100 * Largest(c), 255)]

\* Mutant: the second sector is like the first.
ChannelsOfFirst(h, most, least, rise, fall) ==
    CASE h < 120 \/ h = 360   -> [r |-> most, g |-> rise, b |-> least]
      [] h >= 120 /\ h < 180  -> [r |-> least, g |-> most, b |-> rise]
      [] h >= 180 /\ h < 240  -> [r |-> least, g |-> fall, b |-> most]
      [] h >= 240 /\ h < 300  -> [r |-> rise, g |-> least, b |-> most]
      [] h >= 300 /\ h < 360  -> [r |-> most, g |-> least, b |-> fall]

\* Which channel is which in each sixth of the circle.
Channels(h, most, least, rise, fall) ==
    CASE h < 60 \/ h = 360    -> [r |-> most, g |-> rise, b |-> least]
      [] h >= 60 /\ h < 120   -> [r |-> fall, g |-> most, b |-> least]
      [] h >= 120 /\ h < 180  -> [r |-> least, g |-> most, b |-> rise]
      [] h >= 180 /\ h < 240  -> [r |-> least, g |-> fall, b |-> most]
      [] h >= 240 /\ h < 300  -> [r |-> rise, g |-> least, b |-> most]
      [] h >= 300 /\ h < 360  -> [r |-> most, g |-> least, b |-> fall]

\* Where floating point shows: at the ties of the hue, of the saturation, and of
\* the channel that is neither the largest nor the least.
Ties == {"h", "s", "channel"}

\* HSBToRGB: t1, t2, t2 + t3 and t1 - t3, computed in 15300ths. A tie goes where
\* floating point leaves it: up are those it rounds up. A field that was read as
\* a whole number is computed exactly, and a tie is then rounded up.
HSBToRGB(x, up) ==
    LET h == Round(x.h.n, x.h.d, "h" \in up)
        s == Round(x.s.n * 255, x.s.d * 100, "s" \in up \/ x.s.d = 1)
        v == Round(x.b.n * 255, x.b.d * 100, TRUE)
        t2 == 60 * (255 - s) * v
        t3 == s * v * (h % 60)
        channel(n) == Round(n, 15300, "channel" \in up)
    IN  IF s = 0 THEN [r |-> v, g |-> v, b |-> v]
        ELSE Channels(h, v, channel(t2), channel(t2 + t3), channel(15300 * v - t3))

TypeOK ==
    /\ rgb \in RGB
    /\ hsb.h.n \in 0 .. 360 * hsb.h.d
    /\ hsb.s.n \in 0 .. 100 * hsb.s.d /\ hsb.b.n \in 0 .. 100 * hsb.b.d

Init ==
    /\ rgb \in [r : Samples, g : Samples, b : Samples]
    /\ hsb = RGBToHSB(rgb)

\* change in a field for red, green or blue, whose values are whole numbers.
ReadRGB ==
    /\ hsb' = RGBToHSB(rgb)
    /\ \E up \in SUBSET Ties : rgb' = HSBToRGB(hsb', up)

\* change in a field for hue, saturation or brightness, which show fractions and
\* are read as whole numbers.
ReadHSB ==
    /\ \E below \in SUBSET {"h", "s"} :
          hsb' = [h |-> Truncated(hsb.h, "h" \in below), s |-> Truncated(hsb.s, "s" \in below),
                  b |-> Truncated(hsb.b, FALSE)]
    /\ \E up \in SUBSET Ties : rgb' = HSBToRGB(hsb', up)

Next == ReadRGB \/ ReadHSB

Spec == Init /\ [][Next]_vars
-----------------------------------------------------------------------------
Within(c, d, n) ==
    Abs(c.r - d.r) <= n /\ Abs(c.g - d.g) <= n /\ Abs(c.b - d.b) <= n

\* A color whose fields are read although nobody changed them stays what it is,
\* up to the rounding of the conversions: also one that got there by readings,
\* in any sixth of the circle, at its borders and for greys.
OneReadIsNear ==
    [][/\ ReadRGB => Within(rgb', rgb, NearRGB)
       /\ ReadHSB => Within(rgb', rgb, NearHSB)]_vars

\* Read again and again in any order, a color never gets brighter, and a grey
\* stays a grey.
NeverBrighter ==
    [][/\ Largest(rgb') <= Largest(rgb)
       /\ Spread(rgb) = 0 => Spread(rgb') = 0]_vars
=============================================================================
