---------------------------- MODULE CronSchedule ----------------------------
(***************************************************************************)
(* The cron tools (cron_service.py): a phrase is turned into an expression,*)
(* an expression into the sets of values of its five fields, and these,    *)
(* day by day, into the next times.  A field is a sequence of items; an    *)
(* item is a form with its bounds and its step (NoStep if it has none).    *)
(* The calendar is a constant, so that a year can be short.                *)
(***************************************************************************)
EXTENDS Lists, Integers, SequencesExt

CONSTANTS
  Low, High,     \* per field: the range of its values
  Calendar,      \* the days of a year: a sequence of pairs of a month and a day
  MaxLoopDays,   \* _MAX_LOOP_DAYS
  Expressions, Phrases,   \* what clients ask for
  Dates, Minutes, Counts,  \* of references: days from the first one, minutes; numbers of times
  LastDate,      \* the last day a date can be (of the year 9999)
  NoStep

FieldNames == {"minute", "hour", "day", "month", "weekday"}

ASSUME RangeAssumption ==
  /\ \A f \in FieldNames : Low[f] \in Nat /\ High[f] \in Nat /\ Low[f] <= High[f]
  /\ Low["minute"] = 0 /\ Low["hour"] = 0 /\ Low["weekday"] = 0 /\ High["weekday"] = 6

ASSUME CalendarAssumption ==
  Calendar \in Seq((Low["month"]..High["month"]) \X (Low["day"]..High["day"])) /\ Calendar # << >>

\* A reference is a date that there is.
ASSUME ReferenceAssumption ==
  /\ LastDate \in Nat /\ Dates \subseteq 0..LastDate /\ Minutes \subseteq Low["minute"]..High["minute"]
  /\ MaxLoopDays \in Nat /\ Counts \subseteq Nat

Items == [form : {"*", "value", "range"}, from : Nat, to : Nat, step : Int \cup {NoStep}]

TimedPhrases == {"every_day", "every_weekday", "every_weekend", "every_named_day", "every_month_on_day"}

ASSUME RequestAssumption ==
  /\ NoStep \notin Int
  /\ Expressions \subseteq [FieldNames -> Seq(Items)]
  /\ Phrases \subseteq ({"every_n_minutes", "every_n_hours"} \X Nat)
                      \cup (TimedPhrases \X Nat \X Nat \X Nat)
                      \cup ({"on"} \X Nat \X Nat \X Nat \X Nat)

VARIABLES
  asked,   \* [phrase, expression, date, hour, minute, count]
  answer   \* [status, fields, times]

cronVars == <<asked, answer>>

NoAnswer == [status |-> "none", fields |-> << >>, times |-> << >>]

NoPhrase == <<"none">>

CronInit ==
  /\ asked \in [phrase : {NoPhrase}, expression : Expressions, date : Dates,
                hour : Low["hour"]..High["hour"], minute : Minutes, count : Counts]
              \cup [phrase : Phrases, expression : {<< >>}, date : Dates,
                    hour : Low["hour"]..High["hour"], minute : Minutes, count : {3}]
  /\ answer = NoAnswer

-----------------------------------------------------------------------------
\* _match_schedule.

All == <<[form |-> "*", from |-> 0, to |-> 0, step |-> NoStep]>>
Every(n) == <<[form |-> "*", from |-> 0, to |-> 0, step |-> n]>>
One(n) == <<[form |-> "value", from |-> n, to |-> n, step |-> NoStep]>>
Span(m, n) == <<[form |-> "range", from |-> m, to |-> n, step |-> NoStep]>>

Fields(minute, hour, day, month, weekday) ==
  [minute |-> minute, hour |-> hour, day |-> day, month |-> month, weekday |-> weekday]

DayOf(date) == Calendar[(date % Len(Calendar)) + 1]

\* The second member of a phrase is a number, a weekday or a day, the next two
\* are an hour and a minute, the last one is a month.  The phrases with a fixed
\* time ("every morning") are those of "every_day", "every minute" is all of
\* them.
Understood(phrase) ==
  CASE phrase[1] = "every_n_minutes" -> phrase[2] \in 1..High["minute"]
    [] phrase[1] = "every_n_hours" -> phrase[2] \in 1..High["hour"]
    [] OTHER -> /\ phrase[3] \in 0..High["hour"] /\ phrase[4] \in 0..High["minute"]
                /\ phrase[1] \in {"every_month_on_day", "on"} => phrase[2] \in 1..High["day"]

Generated(phrase) ==
  LET time(day, month, weekday) == Fields(One(phrase[4]), One(phrase[3]), day, month, weekday) IN
  CASE phrase[1] = "every_n_minutes" -> Fields(Every(phrase[2]), All, All, All, All)
    [] phrase[1] = "every_n_hours" -> Fields(One(0), Every(phrase[2]), All, All, All)
    [] phrase[1] = "every_day" -> time(All, All, All)
    [] phrase[1] = "every_weekday" -> time(All, All, Span(1, 5))
    [] phrase[1] = "every_weekend" -> time(All, All, One(0) \o One(6))
    [] phrase[1] = "every_named_day" -> time(All, All, One(phrase[2]))
    [] phrase[1] = "every_month_on_day" -> time(One(phrase[2]), All, All)
    [] phrase[1] = "on" -> time(One(phrase[2]), One(phrase[5]), All)

\* _expand_field: the bounds of an item.
From(f, item) == IF item.form = "*" THEN Low[f] ELSE item.from
To(f, item) == IF item.form = "*" THEN High[f] ELSE item.to

Accepted(f, item) ==
  /\ item.step # NoStep => item.step > 0
  /\ From(f, item) >= Low[f] /\ To(f, item) <= High[f]
  /\ From(f, item) <= To(f, item)

\* range(start, end + 1, step), which begins at the start of the item.
Values(f, item) ==
  LET step == IF item.step = NoStep THEN 1 ELSE item.step
      span == To(f, item) - From(f, item)
  IN {From(f, item) + k * step : k \in 0..span \div step}

Expanded(f, items) == UNION {Values(f, items[n]) : n \in DOMAIN items}

\* Mutant: both must match, also where both restrict the day.
DaysMatchBoth(fields, date) ==
  LET day == DayOf(date) IN
  day[1] \in fields["month"] /\ day[2] \in fields["day"] /\ date % 7 \in fields["weekday"]

\* _days_match: if both the day and the weekday are restricted, one of them is
\* enough.  Restricted is what does not contain every value, however written.
DaysMatch(fields, date) ==
  LET day == DayOf(date)
      inMonth == day[2] \in fields["day"]
      inWeek == date % 7 \in fields["weekday"]
      Restricted(f) == fields[f] # Low[f]..High[f]
  IN /\ day[1] \in fields["month"]
     /\ IF Restricted("day") /\ Restricted("weekday") THEN inMonth \/ inWeek ELSE inMonth /\ inWeek

Before(s, t) ==
  \/ s[1] < t[1]
  \/ s[1] = t[1] /\ s[2] < t[2]
  \/ s[1] = t[1] /\ s[2] = t[2] /\ s[3] < t[3]

\* The candidates of an hour, those before the reference left out.
Row(minutes, start, date, hour) ==
  LET left == Ascending({m \in minutes : ~Before(<<date, hour, m>>, start)})
  IN [m \in DOMAIN left |-> <<date, hour, left[m]>>]

\* Those of a day, in the order of the two loops.
TimesOf(fields, start, date) ==
  LET hours == Ascending(fields["hour"])
  IN FlattenSeq([h \in DOMAIN hours |-> Row(fields["minute"], start, date, hours[h])])

\* _next_times: what the days up to the n-th give; no day is entered once
\* there are enough.
TimesUpTo(fields, start, count, days) ==
  LET upTo[n \in 0..days] ==
        IF n = 0 THEN << >>
        ELSE LET got == upTo[n - 1]
                 date == start[1] + n - 1
                 day == IF DaysMatch(fields, date) THEN TimesOf(fields, start, date) ELSE << >>
             IN got \o SubSeq(day, 1, Min({Len(day), count - Len(got)}))
  IN upTo[days]

\* Entering the last date there is, the loop fails when it adds a day to it.
EntersLast(fields, start, count) ==
  /\ LastDate - start[1] <= MaxLoopDays
  /\ Len(TimesUpTo(fields, start, count, LastDate - start[1])) < count

\* The generator, which has its expression parsed (with count 3) and answers
\* without the times, and the parser; the seconds of the reference are dropped.
Answer ==
  LET spoken == asked.phrase # NoPhrase
      expression == IF spoken THEN Generated(asked.phrase) ELSE asked.expression
      start == <<asked.date, asked.hour, asked.minute>>
      fields == [f \in FieldNames |-> Expanded(f, expression[f])]
      refused == \/ spoken /\ ~Understood(asked.phrase)
                 \/ \E f \in FieldNames : \E item \in ToSet(expression[f]) : ~Accepted(f, item)
  IN /\ answer.status = "none"
     /\ answer' = IF refused THEN [NoAnswer EXCEPT !.status = "invalid"]
                  ELSE IF EntersLast(fields, start, asked.count) THEN [NoAnswer EXCEPT !.status = "failed"]
                  ELSE [status |-> "valid", fields |-> fields,
                        times |-> TimesUpTo(fields, start, asked.count, MaxLoopDays + 1)]
     /\ UNCHANGED asked

CronNext == Answer

CronSpec == CronInit /\ [][CronNext]_cronVars

-----------------------------------------------------------------------------
\* What an expression and a phrase mean, by themselves.
ItemMeans(f, item, v) ==
  /\ item.form = "*" \/ v \in item.from..item.to
  /\ item.step # NoStep => (v - From(f, item)) % item.step = 0

FieldMeans(expression, f, v) == \E item \in ToSet(expression[f]) : ItemMeans(f, item, v)

Whole(expression, f) == \A v \in Low[f]..High[f] : FieldMeans(expression, f, v)

ExpressionMeans(expression, t) ==
  LET day == DayOf(t[1])
      inMonth == FieldMeans(expression, "day", day[2])
      inWeek == FieldMeans(expression, "weekday", t[1] % 7)
  IN /\ FieldMeans(expression, "minute", t[3])
     /\ FieldMeans(expression, "hour", t[2])
     /\ FieldMeans(expression, "month", day[1])
     /\ inMonth \/ (~Whole(expression, "weekday") /\ inWeek)
     /\ inWeek \/ (~Whole(expression, "day") /\ inMonth)

PhraseMeans(p, t) ==
  CASE p[1] = "every_n_minutes" -> t[3] % p[2] = 0
    [] p[1] = "every_n_hours" -> t[2] % p[2] = 0 /\ t[3] = 0
    [] OTHER -> /\ t[2] = p[3] /\ t[3] = p[4]
                /\ CASE p[1] = "every_day" -> TRUE
                     [] p[1] = "every_weekday" -> t[1] % 7 \notin {0, 6}
                     [] p[1] = "every_weekend" -> t[1] % 7 \in {0, 6}
                     [] p[1] = "every_named_day" -> t[1] % 7 = p[2]
                     [] p[1] = "every_month_on_day" -> DayOf(t[1])[2] = p[2]
                     [] p[1] = "on" -> DayOf(t[1]) = <<p[5], p[2]>>

\* The next times are the first ones, from the minute of the reference on, that
\* the phrase or the expression means, in order, without a gap and without one
\* twice; fewer only if the horizon has no more.  The answer fails only within a
\* horizon of the last date.
UpcomingExact ==
  LET start == <<asked.date, asked.hour, asked.minute>>
      Meant(t) == IF asked.phrase = NoPhrase THEN ExpressionMeans(asked.expression, t) ELSE PhraseMeans(asked.phrase, t)
      meant == {t \in (asked.date..asked.date + MaxLoopDays)
                      \X (Low["hour"]..High["hour"]) \X (Low["minute"]..High["minute"]) :
                  ~Before(t, start) /\ Meant(t)}
      times == answer.times
  IN /\ answer.status = "valid" =>
          /\ \A f \in FieldNames : answer.fields[f] \subseteq Low[f]..High[f]
          /\ Len(times) = Min({asked.count, Cardinality(meant)})
          /\ ToSet(times) \subseteq meant
          /\ \A n \in 2..Len(times) : Before(times[n - 1], times[n])
          /\ \A t \in meant \ ToSet(times) : \A u \in ToSet(times) : Before(u, t)
     /\ answer.status = "failed" => LastDate \in asked.date..asked.date + MaxLoopDays
=============================================================================
