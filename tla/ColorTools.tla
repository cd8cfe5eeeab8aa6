----------------------------- MODULE ColorTools -----------------------------
(***************************************************************************)
(* color_tools.py: a colour is read in one of its notations, given in all  *)
(* of them, and compared with a background.  A colour is a triple of       *)
(* numbers in 0..Depth; hues are counted in units of which a sextant has   *)
(* Sextant, the other parts in units of which the whole has Unit.  The     *)
(* floating-point numbers of the code are fractions here, which are        *)
(* rounded where the code rounds.                                          *)
(***************************************************************************)
EXTENDS ToolCall

CONSTANTS
  Depth,      \* 255
  Sextant,    \* 6000, hundredths of a degree
  Unit,       \* 10000, hundredths of a percent
  Named,      \* _NAMED_COLORS, as a sequence of colours
  Near,       \* 144, the square of the distance that is still near
  Channel,    \* the luminance of a channel, from 0..Depth to natural numbers
  Offset,     \* the 0.05 of the contrast ratio, in the same unit
  Colors,     \* the colours that clients send
  Texts       \* and how they are written

Largest(c) == CHOOSE m \in {c[1], c[2], c[3]} : m >= c[1] /\ m >= c[2] /\ m >= c[3]
Smallest(c) == CHOOSE m \in {c[1], c[2], c[3]} : m <= c[1] /\ m <= c[2] /\ m <= c[3]
Abs(n) == IF n < 0 THEN -n ELSE n

\* A fraction to the nearest number.
Rounded(n, d) == (2 * n + d) \div (2 * d)

Hue(c) ==
  LET delta == Largest(c) - Smallest(c)
      hue == IF Largest(c) = c[1] THEN (Sextant * (c[2] - c[3])) % (6 * Sextant * delta)
             ELSE IF Largest(c) = c[2] THEN Sextant * (c[3] - c[1] + 2 * delta)
             ELSE Sextant * (c[1] - c[2] + 4 * delta)
  IN IF delta = 0 THEN 0 ELSE Rounded(hue, delta)

Hsl(c) ==
  LET sum == Largest(c) + Smallest(c)
      delta == Largest(c) - Smallest(c)
  IN <<Hue(c), IF delta = 0 THEN 0 ELSE Rounded(Unit * delta, Depth - Abs(sum - Depth)), Rounded(Unit * sum, 2 * Depth)>>

Hsv(c) ==
  LET delta == Largest(c) - Smallest(c)
  IN <<Hue(c), IF delta = 0 THEN 0 ELSE Rounded(Unit * delta, Largest(c)), Rounded(Unit * Largest(c), Depth)>>

\* The colour of a hue: chroma and base are fractions with the denominator
\* 2 * Unit * Unit; the second part of a sextant rises or falls along it.
Shade(hue, chroma, base) ==
  LET part == chroma * (Sextant - Abs((hue % (2 * Sextant)) - Sextant))
      c == Sextant * chroma
      rgb == CASE hue < Sextant     -> <<c, part, 0>>
               [] hue \in Sextant..2 * Sextant - 1     -> <<part, c, 0>>
               [] hue \in 2 * Sextant..3 * Sextant - 1 -> <<0, c, part>>
               [] hue \in 3 * Sextant..4 * Sextant - 1 -> <<0, part, c>>
               [] hue \in 4 * Sextant..5 * Sextant - 1 -> <<part, 0, c>>
               [] OTHER -> <<c, 0, part>>
  IN [i \in 1..3 |-> Rounded(Depth * (rgb[i] + Sextant * base), 2 * Unit * Unit * Sextant)]

FromHsl(p) ==
  LET chroma == (Unit - Abs(2 * p[3] - Unit)) * p[2]
  IN Shade(p[1], 2 * chroma, 2 * Unit * p[3] - chroma)

FromHsv(p) ==
  LET chroma == p[3] * p[2]
  IN Shade(p[1], 2 * chroma, 2 * (Unit * p[3] - chroma))

-----------------------------------------------------------------------------
\* _parse_color: a text is [form, parts, hint]; form is "hex", "name", the
\* name of a function or "other", parts the numbers, the last of four an alpha.
Accepted(t) ==
  LET n == Len(t.parts)
      within(limits) == \A i \in 1..3 : t.parts[i] \in 0..limits[i]
  IN \/ t.form = "hex" /\ n \in {3, 4}
     \/ t.form = "name"
     \/ /\ t.hint \in {"auto", t.form}
        /\ \/ t.form \in {"rgb", "rgba"} /\ n \in {3, 4} /\ within(<<Depth, Depth, Depth>>)
           \/ t.form \in {"hsl", "hsla", "hsv", "hsva"} /\ n >= 3 /\ within(<<6 * Sextant, Unit, Unit>>)

Opaque == "opaque"

\* The alpha of HSV is read by nobody, nor that of hsl().
Alpha(t) ==
  IF Len(t.parts) = 4 /\ t.form \in {"hex", "rgb", "rgba", "hsla"} THEN t.parts[4] ELSE Opaque

Read(t) ==
  CASE t.form \in {"hex", "rgb", "rgba"} -> SubSeq(t.parts, 1, 3)
    [] t.form = "name" -> Named[t.parts[1]]
    [] t.form \in {"hsl", "hsla"} -> FromHsl(t.parts)
    [] t.form \in {"hsv", "hsva"} -> FromHsv(t.parts)

TextReply(t) ==
  IF Accepted(t) THEN [valid |-> TRUE, rgb |-> Read(t), alpha |-> Alpha(t)] ELSE [valid |-> FALSE]

\* _nearest_name: the first of the nearest ones, if it is near.
Square(n) == n * n
Distance(c, d) == Square(c[1] - d[1]) + Square(c[2] - d[2]) + Square(c[3] - d[3])

NearestName(c) ==
  LET best == CHOOSE i \in DOMAIN Named :
                \A j \in DOMAIN Named : Distance(c, Named[i]) < Distance(c, Named[j])
                                          \/ (Distance(c, Named[i]) = Distance(c, Named[j]) /\ i <= j)
  IN IF Distance(c, Named[best]) < Near THEN best ELSE 0

\* The weights of the channels, in hundredths.
Luminance(c) == 21 * Channel[c[1]] + 72 * Channel[c[2]] + 7 * Channel[c[3]]

\* In hundredths (the code has ten-thousandths), rounded before it is judged.
Contrast(c, d) ==
  LET light == Luminance(c) + 100 * Offset
      dark == Luminance(d) + 100 * Offset
  IN IF light >= dark THEN Rounded(100 * light, dark) ELSE Rounded(100 * dark, light)

Verdict(ratio) == IF ratio >= 450 THEN "passes" ELSE IF ratio >= 300 THEN "large text only" ELSE "fails"

ColorReply(pair) ==
  [hsl |-> Hsl(pair[1]), hsv |-> Hsv(pair[1]), name |-> NearestName(pair[1]),
   verdict |-> Verdict(Contrast(pair[1], pair[2]))]

-----------------------------------------------------------------------------
ColorCalled == Called("color", Colors) \/ Called("text", Texts)

ColorAnswers == Answers("color", ColorReply) \/ Answers("text", TextReply)

-----------------------------------------------------------------------------
\* A colour given as HSL or HSV is the same colour when that is read again,
\* and the parts given are ones that can be read; the name given is that of no
\* other colour that is nearer, and the verdict is that of the pair whichever
\* of the two is the background.
ColorsExact ==
  Answered("color") =>
    LET c == call[2][1]
        d == call[2][2]
        reply == result[1]
        text(form, parts) == [form |-> form, parts |-> parts, hint |-> "auto"]
    IN /\ Accepted(text("hsl", reply.hsl)) /\ FromHsl(reply.hsl) = c
       /\ Accepted(text("hsv", reply.hsv)) /\ FromHsv(reply.hsv) = c
       /\ reply.name # 0 => \A n \in DOMAIN Named : Distance(c, Named[n]) >= Distance(c, Named[reply.name])
       /\ reply.name = 0 => \A n \in DOMAIN Named : Named[n] # c
       /\ reply.verdict = Verdict(Contrast(d, c))

\* What is read is a colour, whatever numbers a client writes.
TextsExact ==
  Answered("text") /\ result[1].valid => \A i \in 1..3 : result[1].rgb[i] \in 0..Depth
=============================================================================
