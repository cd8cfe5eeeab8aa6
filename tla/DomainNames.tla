---------------------------- MODULE DomainNames ----------------------------
(***************************************************************************)
(* utils/domain.py and utils/email.py: names and e-mail addresses are      *)
(* brought into one form.  A text is a sequence of characters that stand   *)
(* for classes of them: "a" and "A" for letters, "u" for one that is not   *)
(* ASCII, "_" for what a local part may have and a name may not, "(" for   *)
(* what neither may, "o" for another full stop (U+3002), "x" at the start  *)
(* of a label for the prefix "xn--".                                       *)
(***************************************************************************)
EXTENDS ToolCall, Lists, SequencesExt

CONSTANTS
  Characters,                   \* what texts are made of
  Names, Mails, HostLists,      \* the texts and labels that are looked at
  Listings,                     \* [lines: of a list of hosts, host: a normalised name]
  PublicSuffixes,               \* _PUBLIC_SUFFIXES, as sequences of labels
  BadALabels,                   \* labels with the prefix that stand for nothing IDNA allows
  MaxLabel, MaxName, MaxLocal   \* 63, 253 and 64

\* Whatever else there is, names can be written in them.
ASSUME CharactersAssumption == {"a", "x", "-", "."} \subseteq Characters

-----------------------------------------------------------------------------
Count(text, c) == Cardinality({i \in DOMAIN text : text[i] = c})

\* str.strip.
Strip(text) ==
  LET solid == {i \in DOMAIN text : text[i] # " "}
  IN IF solid = {} THEN << >> ELSE SubSeq(text, Min(solid), Max(solid))

\* str.split.
Pieces(text, c) ==
  LET cuts == Ascending({i \in DOMAIN text : text[i] = c} \cup {0, Len(text) + 1})
  IN [k \in 1..(Len(cuts) - 1) |-> SubSeq(text, cuts[k] + 1, cuts[k + 1] - 1)]

Joined(parts, c) ==
  FlattenSeq([k \in DOMAIN parts |-> IF k = 1 THEN parts[k] ELSE <<c>> \o parts[k]])

Lowered(text) == [i \in DOMAIN text |-> IF text[i] = "A" THEN "a" ELSE text[i]]

\* The characters a text starts and ends with.
Ends(text) == {text[i] : i \in {1, Len(text)} \cap DOMAIN text}

-----------------------------------------------------------------------------
\* idna.encode (UTS 46): any full stop separates labels; a label that is not
\* ASCII gets a prefix; one empty label may end the name.
Labelled(text) == Pieces([i \in DOMAIN text |-> IF text[i] = "o" THEN "." ELSE text[i]], ".")

AsciiLabel(label) ==
  IF "u" \in ToSet(label) THEN <<"x">> \o [i \in DOMAIN label |-> IF label[i] = "u" THEN "a" ELSE label[i]] ELSE label

\* Hyphens in the third and fourth place are those of the prefix, which stands
\* before ASCII only; and there must be a label that the A-label stands for.
Allowed(label) ==
  /\ label[1] = "x" => "u" \notin ToSet(label)
  /\ Len(label) >= 4 /\ label[3] = "-" /\ label[4] = "-" => label[1] = "x"
  /\ AsciiLabel(label) \notin BadALabels

Encodable(text) ==
  LET labels == Labelled(text) IN
  \A k \in DOMAIN labels :
    LET label == labels[k] IN
    /\ label = << >> => k = Len(labels) /\ k > 1
    /\ label # << >> => /\ ToSet(label) \subseteq {"a", "u", "x", "-"}
                        /\ "-" \notin Ends(label)
                        /\ Allowed(label)
                        /\ Len(AsciiLabel(label)) <= MaxLabel

\* _validate_ascii_domain.
AsciiFault(text) ==
  LET labels == Pieces(text, ".") IN
  Reason(<<
    <<text = << >>, "empty">>,
    <<Len(text) > MaxName, "too long">>,
    <<Len(labels) < 2, "no TLD">>,
    <<\E k \in DOMAIN labels : labels[k] = << >>, "empty label">>,
    <<\E k \in DOMAIN labels : Len(labels[k]) > MaxLabel, "label too long">>,
    <<\E k \in DOMAIN labels : "-" \in Ends(labels[k]) \/ ~(ToSet(labels[k]) \subseteq {"a", "x", "-"}), "characters">>>>)

\* to_ascii, as normalize_domain calls it: a fault, or "none" and the name.
Normalized(text) ==
  LET bare == Lowered(Strip(text))
      candidate == IF bare # << >> /\ Last(bare) = "." THEN Front(bare) ELSE bare
      encoded == [k \in DOMAIN Labelled(candidate) |-> AsciiLabel(Labelled(candidate)[k])]
      name == Joined(encoded, ".")
      fault == Reason(<<
                 <<candidate = << >>, "empty">>,
                 <<" " \in ToSet(candidate), "whitespace">>,
                 <<~Encodable(candidate), "IDN">>,
                 <<TRUE, AsciiFault(name)>>>>)
  IN <<fault, IF fault = "none" THEN name ELSE << >>>>

-----------------------------------------------------------------------------
\* split_email: a fault, the local part and the name of the domain.
Split(text) ==
  LET raw == Strip(text)
      at == CHOOSE i \in DOMAIN raw : raw[i] = "@"
      local == Strip(SubSeq(raw, 1, at - 1))
      domain == Strip(SubSeq(raw, at + 1, Len(raw)))
      fault == IF raw = << >> THEN "empty" ELSE IF Count(raw, "@") # 1 THEN "no single @" ELSE Reason(<<
                 <<local = << >>, "no local part">>,
                 <<domain = << >>, "no domain">>,
                 <<Len(local) > MaxLocal, "local part too long">>,
                 <<" " \in ToSet(local), "whitespace">>,
                 <<~(ToSet(local) \subseteq {"a", "A", "_", "-", "."}), "characters">>,
                 <<"." \in Ends(local), "dot at an end">>,
                 <<\E i \in 2..Len(local) : local[i] = "." /\ local[i - 1] = ".", "two dots">>,
                 <<" " \in ToSet(domain), "whitespace">>,
                 <<Normalized(domain)[1] # "none", "domain">>>>)
  IN IF fault = "none" THEN <<"none", local, Normalized(domain)[2]>> ELSE <<fault, << >>, << >>>>

\* validate_email.
Address(split) == split[2] \o <<"@">> \o split[3]

MailReply(text) == Split(text)

-----------------------------------------------------------------------------
LastLabels(labels, n) == SubSeq(labels, Len(labels) - n + 1, Len(labels))

\* Mutant: a public suffix is taken for the name that somebody registers.
LastTwo(labels) == LastLabels(labels, 2)

\* get_registrable_domain, of a normalised name.
Registrable(labels) ==
  IF LastLabels(labels, 2) \in PublicSuffixes
  THEN IF Len(labels) < 3 THEN labels ELSE LastLabels(labels, 3)
  ELSE LastLabels(labels, 2)

\* get_tld.
Tld(labels) == Last(labels)

HostReply(labels) == [registrable |-> Registrable(labels), tld |-> Tld(labels)]

-----------------------------------------------------------------------------
\* _normalize_host: a line of a file of hosts, << >> if it has none.
HostOf(line) ==
  LET bare == Strip(line)
  IN IF bare = << >> \/ bare[1] = "#" THEN << >>
     ELSE Lowered(IF Last(bare) = "." THEN Front(bare) ELSE bare)

\* from_path.
HostsOf(lines) == {HostOf(lines[i]) : i \in DOMAIN lines} \ {<< >>}

\* SuffixHostRepository.matches: the name, or what is after one of its dots.
Listed(lines, host) ==
  LET labels == Pieces(host, ".")
  IN \E n \in DOMAIN labels : Joined(LastLabels(labels, n), ".") \in HostsOf(lines)

\* Lists of free providers and of TLDs hold what they name only.
ListReply(q) == [listed |-> Listed(q.lines, q.host), named |-> q.host \in HostsOf(q.lines)]

NamesCalled == Called("name", Names) \/ Called("mail", Mails) \/ Called("host", HostLists) \/ Called("list", Listings)

NamesAnswers ==
  \/ Answers("name", Normalized) \/ Answers("mail", MailReply) \/ Answers("host", HostReply) \/ Answers("list", ListReply)

NamesSpec == NamesCalled /\ [][NamesAnswers]_callVars

\* Texts are sequences of characters and names of labels; a host of a list is
\* in its ASCII form, and a public suffix has two labels.
NamesIsTyped ==
  /\ {MaxLabel, MaxName, MaxLocal} \subseteq Nat
  /\ \A text \in Names \cup Mails : text \in Seq(Characters)
  /\ \A labels \in HostLists : labels \in Seq(STRING) /\ Len(labels) >= 2
  /\ \A suffix \in PublicSuffixes : suffix \in Seq(STRING) /\ Len(suffix) = 2
  /\ \A q \in Listings : q.lines \in Seq(Seq(Characters)) /\ q.host \in Seq({"a", "x", "-", "."})

-----------------------------------------------------------------------------
\* A name is what RFC 1123 calls one: hyphens stand inside, dots between, and
\* no label or name is too long.
WellFormed(name) ==
  /\ ToSet(name) \subseteq {"a", "x", "-", "."}
  /\ Len(name) <= MaxName
  /\ "." \in ToSet(name)
  /\ \A i \in DOMAIN name :
       name[i] \in {".", "-"} => /\ 1 < i /\ i < Len(name)
                                 /\ name[i] = "." => name[i - 1] \notin {".", "-"} /\ name[i + 1] \notin {".", "-"}
  /\ \A i, j \in DOMAIN name : j - i >= MaxLabel => \E k \in i..j : name[k] = "."

\* What IDNA has against a label of such a name: hyphens in the third and
\* fourth place that are not those of the prefix, or a prefix before nothing.
Barred(label) ==
  \/ label \in BadALabels
  \/ label[1] # "x" /\ Len(label) >= 4 /\ label[3] = "-" /\ label[4] = "-"

\* A normalised name is a name, stays what it is when it is normalised again,
\* with and without the dot of the root, and a name is normalised exactly if
\* IDNA has nothing against its labels (normalize_domain; keys of caches and
\* lists rely on it).
FormsExact ==
  Answered("name") =>
    LET fault == result[1][1]
        name == result[1][2]
    IN /\ fault = "none" =>
            WellFormed(name) /\ Normalized(name) = <<"none", name>> /\ Normalized(Append(name, ".")) = <<"none", name>>
       /\ WellFormed(call[2]) => (fault = "none" <=> ~\E label \in ToSet(Pieces(call[2], ".")) : Barred(label))

\* What is accepted as an address is a local part of atoms between dots, one @
\* and a name; it is accepted again, unchanged; and the case of the local part
\* is the client's (split_email).
MailsExact ==
  Answered("mail") =>
    LET split == result[1] IN
      split[1] = "none" =>
        /\ \A atom \in ToSet(Pieces(split[2], ".")) : atom # << >> /\ ToSet(atom) \subseteq {"a", "A", "_", "-"}
        /\ Len(split[2]) <= MaxLocal
        /\ WellFormed(split[3])
        /\ Split(Address(split)) = split
        /\ Count(split[2], "A") = Count(SubSeq(call[2], 1, Min({i \in DOMAIN call[2] : call[2][i] = "@"})), "A")

\* Somebody can register the registrable domain: it is the end of the name, one
\* label longer than a suffix unless the name is a suffix itself, and the same
\* for every name below it (get_registrable_domain; RDAP asks for it).
HostsExact ==
  Answered("host") =>
    LET registrable == result[1].registrable IN
    /\ IsSuffix(registrable, call[2])
    /\ registrable \in PublicSuffixes => registrable = call[2]
    /\ Tail(registrable) \in PublicSuffixes \/ Len(registrable) = 2
    /\ Registrable(<<"a">> \o registrable) = IF registrable \in PublicSuffixes THEN <<"a">> \o registrable ELSE registrable
    /\ result[1].tld = Last(registrable)

\* A name is listed exactly if a line of the file, however it is written, names
\* it or a domain above it; but a line that is not ASCII names nothing, since
\* hosts are looked up in their ASCII form (_normalize_host, matches).
ListsExact ==
  Answered("list") =>
    LET lines == ToSet(call[2].lines)
        below(name) == call[2].host = name \/ IsSuffix(<<".">> \o name, call[2].host)
        means(line) == Normalized(line)[2]
        plain == {line \in lines : Normalized(line)[1] = "none" /\ ~(ToSet(line) \cap {"u", "o"} # {})}
    IN /\ \A line \in plain : below(means(line)) => result[1].listed
       /\ result[1].named => result[1].listed
       /\ result[1].listed => \E line \in lines : ToSet(line) \cap {"u", "o", "#"} = {} /\ below(HostOf(line))

\* Names, addresses and registrable domains have one form, and lists of hosts
\* hold whatever they name in it.
NamesExact == FormsExact /\ MailsExact /\ HostsExact /\ ListsExact
=============================================================================
