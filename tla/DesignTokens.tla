---------------------------- MODULE DesignTokens ----------------------------
(***************************************************************************)
(* DesignSystemService._normalize: what the snapshots of a page, one per   *)
(* viewport, show of its colours, custom properties, lengths, fonts and    *)
(* components is counted and turned into tokens.                           *)
(*                                                                         *)
(* A snapshot is [variables, inline, rules, elements]: CSS variables, with *)
(* the colour they have (or None) and the role their name says; custom     *)
(* properties in the source; the colours of rules, with their source; and  *)
(* elements.  Lengths are counted in tenths of a pixel.                    *)
(***************************************************************************)
EXTENDS ToolCall, SequencesExt

CONSTANTS
  Pages,     \* what is normalised: sequences of snapshots
  MaxTokens, \* 40 colours
  MaxKinds  \* design_system_max_components

-----------------------------------------------------------------------------
\* A Counter is the sequence of what was added to it.
Times(counter, x) == Cardinality({i \in DOMAIN counter : counter[i] = x})
First(counter, x) == CHOOSE i \in DOMAIN counter : counter[i] = x /\ \A j \in 1..(i - 1) : counter[j] # x

\* Counter.most_common: equal counts in the order of their first occurrence.
Ranked(counter) ==
  SetToSortSeq(ToSet(counter),
    LAMBDA x, y : \/ Times(counter, x) > Times(counter, y)
                  \/ Times(counter, x) = Times(counter, y) /\ First(counter, x) < First(counter, y))

Shown(counter, limit) == LET all == Ranked(counter) IN SubSeq(all, 1, IF Len(all) < limit THEN Len(all) ELSE limit)

\* _confidence, in thousandths.
Confidence(n, direct) ==
  IF direct THEN 820 + 8 * (IF n < 20 THEN n ELSE 20) ELSE 580 + 12 * (IF n < 30 THEN n ELSE 30)

\* What is drawn out of each part of each snapshot, in order.
Gathered(page, Draw(_)) == FlattenSeq([i \in DOMAIN page |-> Draw(page[i])])
Over(parts, Draw(_)) == FlattenSeq([i \in DOMAIN parts |-> Draw(parts[i])])

-----------------------------------------------------------------------------
\* The roles of colours, in alphabetical order.
RoleOrder == <<"accent", "background", "border", "danger", "link", "muted", "primary", "secondary", "success",
               "surface", "text", "warning">>

Emphasis == <<"primary", "secondary", "accent", "success", "warning", "danger">>

\* The first word of a list that is the tag or a class of an element.
FirstWord(words, el) ==
  LET found == SelectSeq(words, LAMBDA w : w = el.tag \/ w \in ToSet(el.cls))
  IN IF found = << >> THEN None ELSE found[1]

\* _role_for_element.
RoleFor(el, property) ==
  LET emphasis == FirstWord(Emphasis, el)
      muted == FirstWord(<<"muted", "secondary", "caption">>, el)
  IN Reason(<<<<property = "background-color" /\ emphasis # None, emphasis>>,
              <<property = "background-color" /\ el.tag \in {"body", "main"}, "background">>,
              <<property = "background-color", "surface">>,
              <<property = "border-color" \/ FirstWord(<<"border">>, el) # None, "border">>,
              <<el.tag = "a", "link">>, <<muted # None, "muted">>, <<TRUE, "text">>>>)

\* A sighting of a colour: [color, source, role].
Sighting(color, source, role) == <<[color |-> color, source |-> source, role |-> role]>>

SeenIn(snap) ==
  Over(snap.variables, LAMBDA v : IF v.color = None THEN << >>
                                  ELSE LET s == Sighting(v.color, "css_variable", v.role) IN s \o s \o s)
  \o Over(snap.rules, LAMBDA r : Sighting(r.color, r.source, None))
  \o Over(snap.elements, LAMBDA el :
       Over(<<"color", "background-color", "border-color">>,
            LAMBDA p : IF p \notin DOMAIN el.colors THEN << >>
                       ELSE Sighting(el.colors[p], "runtime_computed_style", RoleFor(el, p))))

ColorToken(sightings, c) ==
  LET own == SelectSeq(sightings, LAMBDA s : s.color = c)
      sources == {own[i].source : i \in DOMAIN own}
  IN [value |-> c, usage_count |-> Len(own), sources |-> sources,
      roles |-> SelectSeq(RoleOrder, LAMBDA r : \E i \in DOMAIN own : own[i].role = r),
      confidence |-> Confidence(Len(own), sources \cap {"runtime_computed_style", "css_variable"} # {})]

\* _color_key: a name, or a name with a number.
Numbered == {"text", "border", "surface"}

ColorKey(token, index) ==
  LET name == IF token.roles = << >> THEN "color" ELSE token.roles[1]
  IN IF name \in Numbered \cup {"color"} THEN <<name, index + 1>> ELSE <<name>>

\* A later colour replaces an earlier one whose key it has.
ColorTokens(page) ==
  LET sightings == Gathered(page, SeenIn)
      shown == Shown([i \in DOMAIN sightings |-> sightings[i].color], MaxTokens)
      upTo[n \in 0..Len(shown)] ==
        IF n = 0 THEN << >>
        ELSE LET token == ColorToken(sightings, shown[n])
                 key == ColorKey(token, Cardinality(DOMAIN upTo[n - 1]))
             IN [k \in DOMAIN upTo[n - 1] \cup {key} |-> IF k = key THEN token ELSE upTo[n - 1][k]]
  IN upTo[Len(shown)]

-----------------------------------------------------------------------------
\* Custom properties: those of the root, of the source and of the elements.
Declared(snap) ==
  Over(snap.variables, LAMBDA v : <<[name |-> v.name, value |-> v.value, confidence |-> 990]>>)
  \o Over(snap.inline, LAMBDA v : <<[name |-> v.name, value |-> v.value, confidence |-> 970]>>)
  \o Over(snap.elements, LAMBDA el : Over(el.custom, LAMBDA v : <<[name |-> v.name, value |-> v.value, confidence |-> 940]>>))

\* Mutant: a variable of a later viewport does not replace an earlier one.
KeepsFirst(known, new) == new.name \in DOMAIN known

\* What a variable says replaces what is known, what the source and the elements
\* say is taken if nothing is known.
Keeps(known, new) == new.confidence < 990 /\ new.name \in DOMAIN known

Custom(page) ==
  LET all == Gathered(page, Declared)
      upTo[n \in 0..Len(all)] ==
        IF n = 0 THEN << >>
        ELSE IF Keeps(upTo[n - 1], all[n]) THEN upTo[n - 1]
        ELSE [x \in DOMAIN upTo[n - 1] \cup {all[n].name} |-> IF x = all[n].name THEN all[n] ELSE upTo[n - 1][x]]
  IN upTo[Len(all)]

-----------------------------------------------------------------------------
\* _infer_base_unit, of the distinct lengths: the first candidate that leaves
\* the smallest error.
Candidates == <<1, 2, 4, 5, 6, 8, 10>>

Size(x) == IF x < 0 THEN -x ELSE x

Off(u, x) ==
  LET rest == Size(x) % (10 * u) IN IF rest < 10 * u - rest THEN rest ELSE 10 * u - rest

ErrorOf(u, lengths) ==
  LET s == SetToSeq(lengths)
      sum[n \in 0..Len(s)] == IF n = 0 THEN 0 ELSE sum[n - 1] + Off(u, s[n])
  IN sum[Len(s)]

BaseUnit(values) ==
  LET lengths == {x \in values : Size(x) \in 1..2000}
      e == [i \in DOMAIN Candidates |-> ErrorOf(Candidates[i], lengths)]
      best == CHOOSE i \in DOMAIN e : \A j \in DOMAIN e : e[i] <= e[j] /\ (e[i] = e[j] => i <= j)
  IN IF Cardinality(lengths) < 3 \/ 2 * e[best] > 15 * Cardinality(lengths) THEN None ELSE Candidates[best]

Spacing(page) ==
  LET values == Gathered(page, LAMBDA snap : Over(snap.elements, LAMBDA el : SelectSeq(el.space, LAMBDA x : Size(x) <= 20000)))
      unit == BaseUnit(ToSet(values))
  IN [values |-> Shown(values, 20), base |-> unit,
      confidence |-> IF unit # None THEN 800 ELSE IF values # << >> THEN 600 ELSE 0]

-----------------------------------------------------------------------------
\* _typography_role.
TypographyRole(el) ==
  Reason(<<<<el.tag \in {"h1", "h2", "h3", "h4", "button"}, el.tag>>, <<el.tag \in {"label", "input"}, "label">>,
           <<el.tag = "small" \/ "caption" \in ToSet(el.cls), "caption">>, <<el.tag = "p", "body">>,
           <<"display" \in ToSet(el.cls), "display">>>>)

\* The commonest signature of every role, of all if no element has a role.
Typography(page) ==
  LET written == Gathered(page, LAMBDA snap : SelectSeq(snap.elements, LAMBDA el : el.font # None))
      fonts(role) == Over(written, LAMBDA el : IF role \in {TypographyRole(el), "any"} THEN <<el.font>> ELSE << >>)
      roles == {TypographyRole(written[i]) : i \in DOMAIN written} \ {"none"}
  IN IF roles = {} /\ written # << >> THEN [role \in {"body"} |-> Ranked(fonts("any"))[1]]
     ELSE [role \in roles |-> Ranked(fonts(role))[1]]

-----------------------------------------------------------------------------
\* _component_name and _variant_name; "tab" is found in "table" as well.
Patterns == <<"card", "badge", "alert", "tab", "modal", "pagination", "breadcrumb", "avatar", "tooltip", "dropdown", "table">>

ComponentName(el) ==
  Reason(<<<<"button" \in {el.tag, el.role}, "button">>,
           <<el.tag \in {"input", "textarea", "select"}, "form_control">>,
           <<el.tag = "nav" \/ el.role = "navigation", "navigation">>, <<el.tag = "form", "form">>>>
         \o [i \in DOMAIN Patterns |->
               <<\/ Patterns[i] \in ToSet(el.cls) \cup {el.role}
                 \/ Patterns[i] = "tab" /\ "table" \in ToSet(el.cls), Patterns[i]>>]
         \o <<<<el.tag = "table", "table">>>>)

Variants == {"primary", "secondary", "success", "warning", "danger", "error", "outline", "ghost", "link", "small", "medium", "large"}

VariantName(el) ==
  LET found == SelectSeq(el.cls, LAMBDA w : w \in Variants) IN IF found = << >> THEN "default" ELSE found[1]

\* The components in the order of their first occurrence, as many as are shown.
Components(page) ==
  LET found == Gathered(page, LAMBDA snap : SelectSeq(snap.elements, LAMBDA el : ComponentName(el) # "none"))
      names == [i \in DOMAIN found |-> ComponentName(found[i])]
      variants(name) == Over(found, LAMBDA el : IF ComponentName(el) = name THEN <<VariantName(el)>> ELSE << >>)
      earlier(name) == {n \in ToSet(names) : First(names, n) < First(names, name)}
  IN [name \in {n \in ToSet(names) : Cardinality(earlier(n)) < MaxKinds} |->
        [occurrences |-> Times(names, name),
         variants |-> LET shown == Shown(variants(name), 8)
                      IN [i \in DOMAIN shown |-> <<shown[i], Times(variants(name), shown[i])>>]]]

PageReply(page) ==
  [colors |-> ColorTokens(page), custom |-> Custom(page), spacing |-> Spacing(page),
   typography |-> Typography(page), components |-> Components(page)]

TokensCalled == Called("page", Pages)
TokensAnswers == Answers("page", PageReply)

-----------------------------------------------------------------------------
\* A colour that is common enough has exactly one token, unless a colour after
\* it has the same role and the role names one token only: then the last one
\* has it.  Every token counts its own sightings.
ColorsKept ==
  Answered("page") =>
    LET tokens == result[1].colors
        sightings == Gathered(call[2], SeenIn)
        seen == {sightings[i].color : i \in DOMAIN sightings}
        uses(c) == Cardinality({i \in DOMAIN sightings : sightings[i].color = c})
        ofRole(c) == {tokens[k].value : k \in {x \in DOMAIN tokens : x[1] = ColorToken(sightings, c).roles[1]}}
    IN /\ \A k \in DOMAIN tokens : tokens[k].usage_count = uses(tokens[k].value)
       /\ \A k, l \in DOMAIN tokens : tokens[k].value = tokens[l].value => k = l
       /\ \A c \in seen : c \notin {tokens[k].value : k \in DOMAIN tokens} =>
            \/ Cardinality({d \in seen : uses(d) >= uses(c)}) > MaxTokens
            \/ /\ ColorToken(sightings, c).roles # << >>
               /\ ColorToken(sightings, c).roles[1] \notin Numbered
               /\ \A d \in ofRole(c) : uses(d) <= uses(c)

\* A custom property has the value that the last viewport computed for the root,
\* else the first that was found, whatever other viewports had found before.
CustomExact ==
  Answered("page") =>
    LET all == Gathered(call[2], Declared)
        about(name) == SelectSeq(all, LAMBDA d : d.name = name)
        computed(name) == SelectSeq(about(name), LAMBDA d : d.confidence = 990)
    IN /\ DOMAIN result[1].custom = {all[i].name : i \in DOMAIN all}
       /\ \A name \in DOMAIN result[1].custom :
            result[1].custom[name] = IF computed(name) # << >> THEN Last(computed(name)) ELSE about(name)[1]

\* The base unit leaves no greater error than any other, three lengths always
\* have one, and of three whole lengths it is 1.  What is said about type and
\* components accounts for every element that has a part in it.
PageExact ==
  Answered("page") =>
    LET reply == result[1]
        elements == Gathered(call[2], LAMBDA snap : snap.elements)
        lengths == {x \in ToSet(reply.spacing.values) : Size(x) \in 1..2000}
    IN /\ reply.spacing.base # None <=> Cardinality(lengths) >= 3
       /\ reply.spacing.base # None =>
            /\ \A u \in ToSet(Candidates) : ErrorOf(reply.spacing.base, lengths) <= ErrorOf(u, lengths)
            /\ (\A x \in lengths : x % 10 = 0) => reply.spacing.base = 1
       /\ \A role \in DOMAIN reply.typography :
            \E i \in DOMAIN elements : elements[i].font = reply.typography[role] /\ TypographyRole(elements[i]) \in {role, "none"}
       /\ \A name \in DOMAIN reply.components :
            LET variants == reply.components[name].variants
                sum[n \in 0..Len(variants)] == IF n = 0 THEN 0 ELSE sum[n - 1] + variants[n][2]
            IN sum[Len(variants)] = Cardinality({i \in DOMAIN elements : ComponentName(elements[i]) = name})
=============================================================================
