----------------------------- MODULE MailTools -----------------------------
(***************************************************************************)
(* What is read out of DNS answers in one request: the records themselves  *)
(* (DNSPythonProvider.lookup), DNSSEC and the mail of a domain             *)
(* (DNSToolsService), the class of an address (EmailValidationService).    *)
(*                                                                         *)
(* The answer for a name and a type is <<status, records>>; a status other *)
(* than "answer" is what dnspython raises.  A record is <<rank, value>>,   *)
(* rank the preference of an MX and 0 elsewhere; hosts are numbers, 0 the  *)
(* root of the record "MX 0 .", and in alphabetic order.                   *)
(***************************************************************************)
EXTENDS ToolCall, Lists, SequencesExt

CONSTANTS
  RecordQueries, Signatures, MailDomains, MailChecks,   \* what is asked
  RowOf,        \* the first row of _MAIL_PROVIDER_MAP within a host, 0 for none
  ProviderOf   \* the provider a host belongs to for detect_mx_provider, or None

\* What dnspython answers or raises.
Statuses == {"answer", "NXDOMAIN", "NoAnswer", "NoNameservers", "LifetimeTimeout", "Timeout", "other"}

-----------------------------------------------------------------------------
\* _query: dnspython's exceptions become the application's.
Translated(status) ==
  Reason(<<
    <<status \in {"answer", "NXDOMAIN"}, status>>,
    <<status = "NoAnswer", "nodata">>,
    <<status \in {"LifetimeTimeout", "Timeout"}, "timeout">>,
    <<TRUE, "failed">>>>)

Preferred(x, y) == x[1] < y[1] \/ (x[1] = y[1] /\ x[2] < y[2])

\* Records in the order in which they are to be tried.
InOrder(S) == [n \in 1..Cardinality(S) |-> CHOOSE r \in S : Cardinality({s \in S : s = r \/ Preferred(s, r)}) = n]

\* _resolve_a_records and the others: what one type contributes.
Resolved(type, records) ==
  CASE type \in {"MX", "NS"} -> InOrder(ToSet(records))
    [] type = "SOA" -> <<records[1]>>
    [] OTHER -> records

\* normalize_record_types, of types that are supported: each is asked once.
Distinct(types) ==
  LET firsts == Ascending({i \in DOMAIN types : \A j \in DOMAIN types : j < i => types[j] # types[i]})
  IN [n \in DOMAIN firsts |-> types[firsts[n]]]

\* lookup: the first type that fails otherwise than by having no data ends it.
RecordsReply(q) ==
  LET types == Distinct(q.types)
      status(k) == Translated(q.answers[types[k]][1])
      failing == {k \in DOMAIN types : status(k) \notin {"answer", "nodata"}}
      parts == [k \in DOMAIN types |->
                  IF status(k) = "nodata" THEN << >>
                  ELSE LET found == Resolved(types[k], q.answers[types[k]][2])
                       IN [i \in DOMAIN found |-> <<types[k], found[i]>>]]
  IN IF failing = {} THEN [status |-> "answer", records |-> FlattenSeq(parts)]
     ELSE [status |-> status(Min(failing)), records |-> << >>]

-----------------------------------------------------------------------------
\* _query_raw, which asks dnspython itself.
Raw(status) ==
  Reason(<<
    <<status \in {"answer", "NXDOMAIN"}, status>>,
    <<status \in {"NoAnswer", "Timeout", "other"}, "nothing">>,
    <<status = "LifetimeTimeout", "timeout">>,
    <<TRUE, "failed">>>>)

\* A key or a DS record is <<tag, digest>>; key_id fails for the tag 0.
RawRecords(answer) == IF Raw(answer[1]) = "answer" THEN ToSet(answer[2]) ELSE {}

Chained(keys, ds) == \E d \in ds, k \in keys : k[1] # 0 /\ d[1] = k[1]

ChainValid(keys, ds) == IF keys = {} \/ ds = {} THEN None ELSE Chained(keys, ds)

\* dnssec_validate.
SignedReply(q) ==
  LET keys == RawRecords(q.keys)
      ds == RawRecords(q.ds)
      status == Reason(<<<<Raw(q.keys[1]) \notin {"answer", "nothing"}, Raw(q.keys[1])>>,
                         <<Raw(q.ds[1]) \notin {"answer", "nothing"}, Raw(q.ds[1])>>>>)
  IN [status |-> status, enabled |-> keys # {} \/ ds # {}, chain |-> ChainValid(keys, ds)]

-----------------------------------------------------------------------------
\* A TXT record is [starts, tags]: its first word, which says what it is, and
\* what is between its semicolons: names, whether the value is a number, values.
\* _get_txt_first: any failure of DNS is as if there were no such record.
FirstText(answer, prefixes) ==
  LET matching == {i \in DOMAIN answer[2] : answer[2][i].starts \in prefixes}
  IN IF answer[1] # "answer" \/ matching = {} THEN None ELSE answer[2][Min(matching)]

\* _extract_dmarc_policy takes the first tag that is called so,
\* _extract_dmarc_pct the first whose value is a number.
TagValue(text, name, number) ==
  IF text = None THEN None
  ELSE LET found == {i \in DOMAIN text.tags : text.tags[i][1] = name /\ (number => text.tags[i][2])}
       IN IF found = {} THEN None ELSE text.tags[Min(found)][3]

\* Mutant: every server that is known is looked at, in the order of the rows.
AnyRow(mx) ==
  LET rows == {RowOf[mx[i][2]] : i \in DOMAIN mx} \ {0} IN IF rows = {} THEN 0 ELSE Min(rows)

\* _detect_mail_provider: of the most preferred server that is known.
MailProvider(mx) ==
  LET known == {i \in DOMAIN mx : RowOf[mx[i][2]] # 0}
  IN IF known = {} THEN 0 ELSE RowOf[mx[Min(known)][2]]

\* email_domain_analyze.  A record that starts with "spf" is looked for, with
\* or without capitals; one that says SPF starts with "v=spf1".
AnalysisReply(q) ==
  LET mx == IF Translated(q.mx[1]) = "answer" THEN Resolved("MX", q.mx[2]) ELSE << >>
      spf == FirstText(q.txt, {"spf"})
      dmarc == FirstText(q.dmarc, {"v=dmarc1"})
  IN [mx |-> mx,
      spf |-> spf,
      spf_valid |-> IF spf = None THEN None ELSE spf.starts = "v=spf1",
      dmarc |-> dmarc,
      policy |-> TagValue(dmarc, "p", FALSE),
      pct |-> TagValue(dmarc, "pct", TRUE),
      provider |-> MailProvider(mx)]

-----------------------------------------------------------------------------
\* get_mx_hosts; then what EmailValidationService makes of it.
Usable(answer) == IF answer[1] = "answer" THEN {r \in ToSet(answer[2]) : r[2] # 0} ELSE {}

Checked(q) == q.check /\ Translated(q.mx[1]) \in {"answer", "nodata"}

\* detect_mx_provider: only one that all known servers share.
SingleProvider(answer) ==
  LET known == {ProviderOf[r[2]] : r \in Usable(answer)} \ {None}
  IN IF Cardinality(known) = 1 THEN CHOOSE p \in known : TRUE ELSE None

Class(main, sub, reason) == [main |-> main, sub |-> sub, reason |-> reason]

\* Mutant: any server makes a domain a business's.
MainByServer(q) ==
  Reason(<<
    <<q.disposable, "disposable">>,
    <<q.free, "public_email">>,
    <<Checked(q) /\ Usable(q.mx) # {}, "business">>>>)

\* classify_email_detailed, and _classify_after_mx_failure where DNS failed.
Main(q) ==
  Reason(<<
    <<q.disposable, "disposable">>,
    <<q.free, "public_email">>,
    <<Checked(q) /\ SingleProvider(q.mx) # None, "business">>>>)

Classified(q) ==
  CASE Main(q) = "disposable" -> Class("disposable", None, "disposable_domain")
    [] Main(q) = "public_email" /\ ~Checked(q) -> Class("public_email", None, "mx_check_disabled")
    [] Main(q) = "public_email" /\ Checked(q) ->
         Class("public_email", SingleProvider(q.mx),
               IF SingleProvider(q.mx) = None THEN "public_email_provider_mx_unknown" ELSE "public_email_provider")
    [] Main(q) = "business" -> Class("business", SingleProvider(q.mx), "business_mx_provider")
    [] Main(q) = "none" ->
         Class(None, None, Reason(<<<<~q.check, "mx_check_disabled">>,
                                    <<~Checked(q), "mx_lookup_failed">>,
                                    <<Usable(q.mx) = {}, "mx_not_found">>,
                                    <<TRUE, "unknown_email_provider">>>>))

\* validate, of an address that split_email (DomainNames) takes.
CheckReply(q) ==
  [mx_exists |-> IF Checked(q) THEN Usable(q.mx) # {} ELSE None, class |-> Classified(q)]

MailCalled ==
  \/ Called("records", RecordQueries)
  \/ Called("dnssec", Signatures)
  \/ Called("analyze", MailDomains)
  \/ Called("email", MailChecks)

MailAnswers ==
  \/ Answers("records", RecordsReply)
  \/ Answers("dnssec", SignedReply)
  \/ Answers("analyze", AnalysisReply)
  \/ Answers("email", CheckReply)

\* What is asked, and what DNS says: a set of records for each type, none
\* empty; None is nothing that a reply says.
RecordAnswers == Statuses \X Seq(Nat \X Nat)

MailIsTyped ==
  /\ \A q \in RecordQueries :
       /\ q.types = [i \in 1..Len(q.types) |-> q.types[i]] /\ Len(q.types) \in Nat
       /\ \A t \in ToSet(q.types) :
            /\ q.answers[t] \in RecordAnswers
            /\ q.answers[t][1] = "answer" => q.answers[t][2] # << >>
            /\ \A i, j \in DOMAIN q.answers[t][2] : q.answers[t][2][i] = q.answers[t][2][j] => i = j
            /\ t = "NS" => \A i \in DOMAIN q.answers[t][2] : q.answers[t][2][i][1] = 0
  /\ Signatures \subseteq [keys : RecordAnswers, ds : RecordAnswers]
  /\ \A q \in MailDomains :
       /\ q.mx \in RecordAnswers
       /\ q.dmarc[2] = [i \in 1..Len(q.dmarc[2]) |-> q.dmarc[2][i]] /\ Len(q.dmarc[2]) \in Nat
       /\ \A text \in ToSet(q.dmarc[2]) : text.tags \in Seq(STRING \X BOOLEAN \X Nat)
  /\ MailChecks \subseteq [check : BOOLEAN, mx : RecordAnswers, disposable : BOOLEAN, free : BOOLEAN]
  /\ None \notin BOOLEAN /\ None \notin {"disposable", "public_email", "business"}

MailSpec == MailCalled /\ [][MailAnswers]_callVars

-----------------------------------------------------------------------------
\* The records are those DNS has for the types that were asked for, each once,
\* the servers of a type in the order in which they are to be tried; the outage
\* of one type is never shown as the absence of its records (DNSPythonProvider
\* .lookup, "Other DNS failures propagate"), and types without data are no
\* error.  Whether a name that does not exist is one is left open: the code
\* says so, api/v1/dns.py the opposite.
RecordsExact ==
  Answered("records") =>
    LET reply == result[1]
        asked == ToSet(call[2].types)
        answered == {t \in asked : call[2].answers[t][1] = "answer"}
    IN /\ (\A t \in asked : call[2].answers[t][1] \in {"answer", "NoAnswer"}) => reply.status = "answer"
       /\ reply.status = "answer" => \A t \in asked : call[2].answers[t][1] \in {"answer", "NoAnswer", "NXDOMAIN"}
       /\ reply.status = "answer" =>
            /\ ToSet(reply.records) \subseteq
                 UNION {{<<t, r>> : r \in ToSet(call[2].answers[t][2])} : t \in answered}
            /\ \A t \in answered :
                 Cardinality({i \in DOMAIN reply.records : reply.records[i][1] = t})
                   = IF t = "SOA" THEN 1 ELSE Len(call[2].answers[t][2])
            /\ \A i, j \in DOMAIN reply.records :
                 i < j /\ reply.records[i][1] = reply.records[j][1] =>
                   /\ reply.records[i][1] = "MX" => reply.records[i][2][1] <= reply.records[j][2][1]
                   /\ reply.records[i][1] = "NS" => reply.records[i][2][2] < reply.records[j][2][2]

\* A chain is only judged when both of its ends are there, and broken only if
\* no DS record points to any key (_check_chain).
ChainExact ==
  Answered("dnssec") /\ result[1].status = "none" =>
    LET published(answer) == IF answer[1] = "answer" THEN ToSet(answer[2]) ELSE {}
        keys == published(call[2].keys)
        ds == published(call[2].ds)
    IN /\ result[1].chain # None => keys # {} /\ ds # {}
       /\ result[1].chain = FALSE => {d[1] : d \in ds} \cap {k[1] : k \in keys} \subseteq {0}
       /\ result[1].chain = TRUE => \E k \in keys, d \in ds : k[1] = d[1]
       /\ ~result[1].enabled => keys = {} /\ ds = {}

\* What the analysis of a domain reports has been published: the provider is
\* that of a server, and no known server is preferred to it; policy and
\* percentage come from one record about DMARC, at the name for it.
AnalysisExact ==
  Answered("analyze") =>
    LET reply == result[1] IN
    /\ reply.provider # 0 =>
         \E r \in ToSet(call[2].mx[2]) :
           /\ RowOf[r[2]] = reply.provider
           /\ \A s \in ToSet(call[2].mx[2]) : s[1] < r[1] => RowOf[s[2]] = 0
    /\ reply.policy # None \/ reply.pct # None =>
         /\ reply.dmarc # None
         /\ reply.policy # None => \E tag \in ToSet(reply.dmarc.tags) : tag[1] = "p" /\ tag[3] = reply.policy
         /\ reply.pct # None => <<"pct", TRUE, reply.pct>> \in ToSet(reply.dmarc.tags)
    /\ reply.mx # << >> => call[2].mx[1] = "answer"

\* Lists have the last word on disposable and free domains; nobody is called a
\* business for a server that is unknown, or for several that disagree; and an
\* outage of DNS takes detail away but never changes a class
\* (classify_email_detailed, "An arbitrary MX host does NOT imply a business email").
ClassesExact ==
  Answered("email") =>
    LET class == result[1].class
        known == {ProviderOf[r[2]] : r \in {x \in ToSet(call[2].mx[2]) : x[2] # 0}} \ {None}
        outage == Classified([call[2] EXCEPT !.mx = <<"LifetimeTimeout", << >>>>])
    IN /\ class.main = "business" =>
            ~call[2].disposable /\ ~call[2].free /\ result[1].mx_exists = TRUE /\ known = {class.sub}
       /\ outage.main \in {class.main, None}
       /\ call[2].disposable => class = outage
       /\ class.sub # None => class.sub \in known
       /\ result[1].mx_exists = FALSE => call[2].mx[1] = "NoAnswer" \/ \A r \in ToSet(call[2].mx[2]) : r[2] = 0

\* What is read out of DNS has been published.
MailExact == RecordsExact /\ ChainExact /\ AnalysisExact

-----------------------------------------------------------------------------
\* The analysis sees a valid SPF record where there is one (docs/api.md,
\* "spf_record": "v=spf1 redirect=_spf.google.com", "spf_valid": true).
SpfFound ==
  Answered("analyze") /\ call[2].txt[1] = "answer"
    /\ (\E t \in ToSet(call[2].txt[2]) : t.starts = "v=spf1")
  => result[1].spf # None /\ result[1].spf_valid = TRUE

\* A null MX never makes has_mx true (DNSPythonProvider.get_mx_hosts, "must
\* never make has_mx=True").
NullMxNoMail ==
  Answered("analyze") /\ (\A r \in ToSet(call[2].mx[2]) : r[2] = 0) => result[1].mx = << >>
=============================================================================
