------------------------------ MODULE DevTools ------------------------------
(***************************************************************************)
(* DevToolsService: semantic versions and version ranges, changelogs, and  *)
(* the structural checks of SQL.  A version is what _parse_semver makes of *)
(* its text, or NoVersion; an identifier of a prerelease is <<0, n>> if it *)
(* is a number and <<1, n>> if it is the n-th word in dictionary order.    *)
(* The build part is left out: nothing but the reply has it.               *)
(***************************************************************************)
EXTENDS ToolCall, Lists

CONSTANTS
  Versions,     \* versions that clients ask about
  Ranges,       \* sequences of alternatives, each a sequence of <<operator, version>>
  Changelogs,   \* sequences of [type, text, breaking]
  Scripts,      \* SQL: sequences of [code, open, close, quotes]
  NoVersion,    \* a text that is no version, or none
  AnyVersion    \* a star

Semver(major, minor, patch, pre) == [major |-> major, minor |-> minor, patch |-> patch, pre |-> pre]

Core(v) == <<v.major, v.minor, v.patch>>

\* Tuples of numbers in dictionary order.
Below(s, t) ==
  \E i \in 1..3 : s[i] < t[i] /\ \A j \in 1..(i - 1) : s[j] = t[j]

\* The first place where two prereleases differ or one of them ends.
Fork(p, q) ==
  CHOOSE i \in 1..(Len(p) + 1) :
    /\ i > Len(p) \/ i > Len(q) \/ p[i] # q[i]
    /\ \A j \in 1..(i - 1) : j <= Len(q) /\ p[j] = q[j]

Sign(less) == IF less THEN -1 ELSE 1

Forked(p, q) ==
  LET i == Fork(p, q) IN
  IF p = q THEN 0
  ELSE IF i > Len(p) THEN -1
  ELSE IF i > Len(q) THEN 1
  ELSE IF p[i][1] # q[i][1] THEN Sign(p[i][1] < q[i][1])
  ELSE Sign(p[i][2] < q[i][2])

\* _semver_compare: of two equal cores, the one with a prerelease is greater.
Compare(a, b) ==
  IF Core(a) # Core(b) THEN Sign(Below(Core(a), Core(b)))
  ELSE IF a.pre # << >> /\ b.pre = << >> THEN 1
  ELSE IF a.pre = << >> /\ b.pre # << >> THEN -1
  ELSE Forked(a.pre, b.pre)

Breaking(a, b) ==
  IF a.major > 0 \/ b.major > 0 THEN a.major # b.major ELSE a.minor # b.minor

\* Mutant: a caret always stays within the major version.
CaretEndMajor(v) == Semver(v.major + 1, 0, 0, << >>)

CaretEnd(v) ==
  IF v.major # 0 THEN Semver(v.major + 1, 0, 0, << >>)
  ELSE IF v.minor # 0 THEN Semver(0, v.minor + 1, 0, << >>)
  ELSE Semver(0, 0, v.patch + 1, << >>)

TildeEnd(v) == Semver(v.major, v.minor + 1, 0, << >>)

Within(v, low, high) == Compare(v, low) >= 0 /\ Compare(v, high) < 0

Matched(v, op, w) ==
  CASE op = "="  -> Compare(v, w) = 0
    [] op = "!=" -> Compare(v, w) # 0
    [] op = ">"  -> Compare(v, w) > 0
    [] op = ">=" -> Compare(v, w) >= 0
    [] op = "<"  -> Compare(v, w) < 0
    [] op = "<=" -> Compare(v, w) <= 0
    [] op = "^"  -> Within(v, w, CaretEnd(w))
    [] op = "~"  -> Within(v, w, TildeEnd(w))

\* One comparator: a star, no version at all, or a match.
Tried(v, comparator) ==
  CASE comparator[2] = AnyVersion -> "holds"
    [] comparator[2] = NoVersion -> "invalid"
    [] OTHER -> IF Matched(v, comparator[1], comparator[2]) THEN "holds" ELSE "fails"

FirstOf(s, what) ==
  CHOOSE i \in 1..(Len(s) + 1) :
    /\ i <= Len(s) => s[i] \in what
    /\ \A j \in 1..(i - 1) : s[j] \notin what

\* An alternative ends at its first comparator that does not hold.
Alternative(v, comparators) ==
  LET tries == [i \in DOMAIN comparators |-> Tried(v, comparators[i])]
      i == FirstOf(tries, {"fails", "invalid"})
  IN IF i > Len(tries) THEN "holds" ELSE tries[i]

\* A range ends at its first alternative that holds or is invalid; an empty
\* one holds.
Satisfies(v, range) ==
  LET tries == [i \in DOMAIN range |-> Alternative(v, range[i])]
      i == FirstOf(tries, {"holds", "invalid"})
  IN IF range = << >> THEN "holds" ELSE IF i > Len(tries) THEN "fails" ELSE tries[i]

SemverReply(r) ==
  IF r.version = NoVersion THEN [valid |-> FALSE, value |-> 2, breaking |-> FALSE, range |-> "none"]
  ELSE [valid    |-> TRUE,
        value    |-> IF r.other = NoVersion THEN 2 ELSE Compare(r.version, r.other),
        breaking |-> r.other # NoVersion /\ Breaking(r.version, r.other),
        range    |-> Satisfies(r.version, r.range)]

SemverRequests == [version : Versions \cup {NoVersion}, other : Versions \cup {NoVersion}, range : Ranges]

-----------------------------------------------------------------------------
\* changelog: a commit without a text is counted as excluded, a breaking one
\* is listed apart and still counts for its type.
Sections == {"feat", "fix", "other"}

Described(commits) == {i \in DOMAIN commits : commits[i].text}

Typed(commits, type) == {i \in Described(commits) : commits[i].type = type}

SectionOf(commits, type) == Ascending({i \in Typed(commits, type) : ~commits[i].breaking})

ChangelogReply(commits) ==
  [sections |-> [t \in Sections |-> SectionOf(commits, t)],
   breaking |-> Ascending({i \in Described(commits) : commits[i].breaking}),
   counts   |-> [t \in Sections |-> Cardinality(Typed(commits, t))],
   excluded |-> Len(commits) - Cardinality(Described(commits))]

-----------------------------------------------------------------------------
\* sql_validate balances the parentheses of every statement that has more than
\* comments; sql_format those of the whole text, and its quotes.
Total(statements, part) ==
  LET sum[i \in 0..Len(statements)] == IF i = 0 THEN 0 ELSE sum[i - 1] + statements[i][part]
  IN sum[Len(statements)]

Unbalanced(statements) ==
  {i \in DOMAIN statements : statements[i].code /\ statements[i].open # statements[i].close}

SqlReply(statements) ==
  [validates |-> statements # << >> /\ Unbalanced(statements) = {},
   errors    |-> Unbalanced(statements),
   formats   |-> /\ Total(statements, "open") = Total(statements, "close")
                 /\ Total(statements, "quotes") % 2 = 0]

-----------------------------------------------------------------------------
DevCalled ==
  \/ Called("semver", SemverRequests)
  \/ Called("changelog", Changelogs)
  \/ Called("sql", Scripts)

DevAnswers ==
  \/ Answers("semver", SemverReply)
  \/ Answers("changelog", ChangelogReply)
  \/ Answers("sql", SqlReply)

\* What is asked: versions with a prerelease of identifiers, ranges and commits.
VersionForms == [major : Nat, minor : Nat, patch : Nat, pre : Seq({0, 1} \X Nat)]

Operators == {"=", "!=", ">", ">=", "<", "<=", "^", "~"}

DevIsTyped ==
  /\ Versions \subseteq VersionForms
  /\ NoVersion \notin VersionForms /\ AnyVersion \notin VersionForms /\ NoVersion # AnyVersion
  /\ Ranges \subseteq Seq(Seq(Operators \X (VersionForms \cup {NoVersion, AnyVersion})))
  /\ Changelogs \subseteq Seq([type : Sections, text : BOOLEAN, breaking : BOOLEAN])

DevSpec == DevCalled /\ [][DevAnswers]_callVars

-----------------------------------------------------------------------------
\* What an operator of a range means, said without an upper bound: a caret
\* keeps everything up to the first part that is not zero, a tilde the first
\* two parts.
Keeps(v, w, n) == \A i \in 1..n : Core(v)[i] = Core(w)[i]

Kept(w) == IF w.major # 0 THEN 1 ELSE IF w.minor # 0 THEN 2 ELSE 3

Means(v, op, w) ==
  CASE op = "^" -> Compare(v, w) >= 0 /\ Keeps(v, w, Kept(w))
    [] op = "~" -> Compare(v, w) >= 0 /\ Keeps(v, w, 2)
    [] OTHER    -> Matched(v, op, w)

AllMean(v, comparators) ==
  \A i \in DOMAIN comparators :
    comparators[i][2] = AnyVersion \/ (comparators[i][2] # NoVersion /\ Means(v, comparators[i][1], comparators[i][2]))

\* The comparison orders the versions, and a version is in a range exactly if
\* it has all an alternative asks for, unless something that is no version
\* was met before: bounds, prereleases and wildcards never let in more.
RangesExact ==
  Answered("semver") /\ result[1].valid =>
    LET v == call[2].version
        w == call[2].other
        range == call[2].range
    IN /\ w # NoVersion =>
            /\ result[1].value = -Compare(w, v)
            /\ (result[1].value = 0) = (v = w)
            /\ \A u \in Versions : result[1].value >= 0 /\ Compare(w, u) >= 0 => Compare(v, u) >= 0
       /\ result[1].range = "holds" => range = << >> \/ \E i \in DOMAIN range : AllMean(v, range[i])
       /\ result[1].range = "fails" => \A i \in DOMAIN range : ~AllMean(v, range[i])
       /\ result[1].range = "invalid" => \E i \in DOMAIN range : \E j \in DOMAIN range[i] : range[i][j][2] = NoVersion

\* Every commit that says something is in the changelog once, breaking or
\* not, in the order of the request, and the counts add up to the request.
ChangelogComplete ==
  Answered("changelog") =>
    LET entries(i) == {t \in Sections \cup {"breaking"} :
                         LET s == IF t = "breaking" THEN result[1].breaking ELSE result[1].sections[t]
                         IN \E n \in DOMAIN s : s[n] = i}
    IN /\ \A i \in DOMAIN call[2] : Cardinality(entries(i)) = (IF call[2][i].text THEN 1 ELSE 0)
       /\ result[1].counts["feat"] + result[1].counts["fix"] + result[1].counts["other"] + result[1].excluded = Len(call[2])

\* Versions are ordered, ranges mean what they say, and a changelog has every
\* commit in its place.
DevExact == RangesExact /\ ChangelogComplete

\* SemVer 2.0.0, clause 11.3: a prerelease precedes its release.
PrereleaseBeforeRelease ==
  Answered("semver") /\ result[1].valid /\ call[2].other # NoVersion =>
    (Core(call[2].version) = Core(call[2].other) /\ call[2].version.pre # << >> /\ call[2].other.pre = << >>
       => result[1].value = -1)
=============================================================================
