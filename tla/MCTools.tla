------------------------------- MODULE MCTools -------------------------------
(***************************************************************************)
(* TLC instance of the tools and of the cache they share.  A behaviour     *)
(* belongs to one service: the cache, with three callers, coalesced keys   *)
(* with different TTLs, one of them negative, so that every fill of it     *)
(* fails, a plain key that competes with them and fewer slots than keys;   *)
(* JSON diff and patch of documents of depth two with an empty key among   *)
(* their keys; cron phrases and expressions over a year of two months and  *)
(* a day of two hours of three minutes; the image workers, with more       *)
(* operations than permits, a WHOIS lookup, and a pool in which left-      *)
(* behind threads can take every worker; or one call of one of the         *)
(* stateless services.                                                     *)
(***************************************************************************)
EXTENDS MemoryCache, JsonPatch, CronSchedule, ImageWorkers, DevTools, HttpBuilder, MailTools, WebSources, ImageTools, DomainNames

CONSTANT NoNumber  \* of Toolbox

VARIABLE service

toolsVars == <<service, vars, jsonVars, cronVars, workerVars, callVars>>

-----------------------------------------------------------------------------
MCTtl == [k \in Keys |-> CASE k = "whois" -> 3 [] k = "mx" -> 1 [] k = "dns" -> 2 [] OTHER -> -1]

MCKeys == <<"", "x">>

Leaves == {<<"scalar", "1">>, <<"scalar", "true">>, <<"scalar", "2">>}

Objects(D) ==
  UNION {{<<"object", f>> : f \in [K -> D]} : K \in SUBSET {"", "x"}}

Flat ==
  Leaves \cup Objects({<<"scalar", "1">>, <<"scalar", "2">>})
  \cup {<<"array", s>> : s \in BoundedSeq({<<"scalar", "1">>, <<"scalar", "2">>}, 3)}

MCDocuments ==
  Flat \cup {<<"object", [k \in {"x"} |-> d]>> : d \in Flat}
       \cup {<<"array", <<d, <<"scalar", "1">>>>>> : d \in Flat}

-----------------------------------------------------------------------------
MCLow == [f \in FieldNames |-> IF f \in {"day", "month"} THEN 1 ELSE 0]
MCHigh == [minute |-> 2, hour |-> 1, day |-> 5, month |-> 2, weekday |-> 6]
MCCalendar == <<<<1, 1>>, <<1, 2>>, <<1, 3>>, <<1, 4>>, <<2, 1>>, <<2, 2>>, <<2, 3>>, <<2, 4>>, <<2, 5>>>>

Stepped(m, n, s) == <<[form |-> "range", from |-> m, to |-> n, step |-> s]>>

MCExpressions ==
  {Fields(minute, hour, day, month, weekday) :
     minute \in {Every(2), One(1)},
     hour \in {All, One(1)},
     day \in {All, Every(1), Span(2, 3), One(5), Stepped(2, 5, 2) \o One(1)},
     month \in {All, One(2)},
     weekday \in {All, Span(1, 5), One(0)}}
  \cup {Fields(Every(0), All, All, All, All), Fields(All, One(2), All, All, All),
        Fields(All, All, Span(3, 2), All, All), Fields(<< >>, All, All, All, All)}

MCPhrases ==
  {<<"every_n_minutes", 2>>, <<"every_n_hours", 1>>, <<"every_day", 0, 1, 2>>, <<"every_weekday", 0, 0, 1>>,
   <<"every_weekend", 0, 1, 0>>, <<"every_named_day", 3, 0, 2>>, <<"every_month_on_day", 5, 1, 1>>,
   <<"on", 3, 0, 2, 2>>, <<"every_n_minutes", 3>>, <<"every_day", 0, 2, 0>>, <<"every_month_on_day", 6, 1, 1>>}

-----------------------------------------------------------------------------
\* DevTools: versions around every zero of a caret, with words and numbers of
\* one and two parts as prereleases.
Version(major, minor, patch, pre) == [major |-> major, minor |-> minor, patch |-> patch, pre |-> pre]

Prereleases == {<< >>, <<<<0, 1>>>>, <<<<0, 1>>, <<0, 2>>>>, <<<<1, 1>>>>, <<<<1, 1>>, <<0, 1>>>>}

MCVersions == {Version(1, 0, 0, pre) : pre \in Prereleases}
            \cup {Version(0, 0, 1, << >>), Version(0, 0, 2, << >>), Version(0, 1, 0, << >>), Version(0, 1, 1, << >>),
                  Version(1, 1, 0, << >>), Version(1, 1, 1, <<<<1, 2>>>>), Version(2, 0, 0, << >>)}

Comparators ==
  {<<op, v>> : op \in {"=", "!=", ">", ">=", "<", "<=", "^", "~"},
               v \in {Version(0, 0, 1, << >>), Version(0, 1, 0, << >>), Version(1, 0, 0, <<<<0, 1>>>>), Version(1, 0, 0, << >>)}}

MCRanges == {<< >>, <<<<<<"=", AnyVersion>>>>>>, <<<<<<">", NoVersion>>>>, <<<<"=", AnyVersion>>>>>>,
           <<<<<<"<", Version(1, 0, 0, << >>)>>, <<"^", NoVersion>>>>, <<<<"=", AnyVersion>>>>>>}
          \cup {<<<<c>>>> : c \in Comparators}
          \cup {<<<<<<">=", Version(0, 0, 2, << >>)>>, c>>, <<<<"=", Version(2, 0, 0, << >>)>>>>>> : c \in Comparators}

MCChangelogs == BoundedSeq([type : {"feat", "fix", "other"}, text : BOOLEAN, breaking : BOOLEAN], 2)

MCScripts == BoundedSeq([code : BOOLEAN, open : 0..1, close : 0..1, quotes : {1, 2}], 2)

-----------------------------------------------------------------------------
\* HttpBuilder: two headers at most, of eighteen characters, so that a client
\* fills both limits with and without credentials.
MCUrls == [scheme : {"none", "http", "ftp"}, user : BOOLEAN, host : {"", "ip", "name", "bad"},
         port : {"none", "good", "bad"}, query : BOOLEAN]

Web(query) == [scheme |-> "http", user |-> FALSE, host |-> "name", port |-> "none", query |-> query]

ClientHeaders ==
  UNION {[names -> {[from |-> "client", length |-> n] : n \in {1, 18, 19}}] :
           names \in {{}, {"x"}, {"Authorization"}, {"x", "authorization"}, {"x", "y"}, {"User-Agent", "x"}}}

MCRequests ==
  [method : {"GET", "POST"}, url : {Web(TRUE), Web(FALSE), [Web(FALSE) EXCEPT !.port = "bad"]}, headers : ClientHeaders,
   extra : BOOLEAN, body : {"none", "canonical", "loose", "invalid", "large"}, type : {"text", "json", "form"},
   auth : {"none"}, secret : {0}]
  \cup
  [method : {"GET", "POST"}, url : {Web(FALSE)}, headers : ClientHeaders,
   extra : BOOLEAN, body : {"none", "loose"}, type : {"text", "json"},
   auth : {"basic", "bearer"}, secret : {3, 9, 10, 11, 12}]

MCOutcomes == [error : {"none", "timeout"}, status : {0, 200}, size : 0..3, typed : BOOLEAN, parses : BOOLEAN, cookies : 0..2]

MCHeaderLists == BoundedSeq([name : {"blank", "x", "y"}, upper : BOOLEAN, length : 1..2], 3)


-----------------------------------------------------------------------------
\* ColorTools: colours of four bits, every one against two backgrounds.
Depth == 15
Sextant == 60
Unit == 200
Named == <<<<0, 0, 0>>, <<15, 15, 15>>, <<15, 0, 0>>, <<0, 15, 15>>, <<0, 15, 15>>, <<8, 8, 8>>>>
Near == 3
Channel == [n \in 0..15 |-> (n * n) \div 2]
Offset == 6
Colors == ((0..15) \X (0..15) \X (0..15)) \X {<<0, 0, 0>>, <<9, 2, 13>>}
Texts ==
  [form : {"rgb", "rgba", "hsl", "hsla", "hsv", "hsva", "other"},
   parts : BoundedSeq({0, 15, 16}, 2) \cup ({0, 15, 359, 360, 361} \X {0, 15, 200} \X {0, 15, 16, 200, 201})
           \cup ({0, 15} \X {16} \X {7} \X {"half"}),
   hint : {"auto", "rgb", "hsla"}]
  \cup [form : {"hex"}, parts : {<<1, 2, 3>>, <<1, 2, 3, "half">>, <<1, 2>>}, hint : {"auto", "hex", "rgb"}]
  \cup [form : {"name"}, parts : {<<3>>}, hint : {"auto", "rgb"}]

Color == INSTANCE ColorTools

-----------------------------------------------------------------------------
\* DesignTokens: one viewport with two elements at most, or two viewports with
\* one each, of three colours, of which two are shown.
Element(tag, cls, colors, space, font, custom) ==
  [tag |-> tag, role |-> "none", cls |-> cls, colors |-> colors, space |-> space, font |-> font, custom |-> custom]

Elements ==
  {Element("button", <<"primary">>, [p \in {"color", "background-color"} |-> IF p = "color" THEN "red" ELSE "green"],
           <<80, 160>>, "sans", << >>),
   Element("a", << >>, [p \in {"color"} |-> "green"], <<40>>, "serif", << >>),
   Element("article", <<"card", "outline">>, [p \in {"border-color"} |-> "green"], <<-40, 75>>, None,
           <<[name |-> "x", value |-> 3]>>),
   Element("table", <<"table">>, [p \in {"background-color"} |-> "blue"], << >>, None, << >>),
   Element("p", << >>, [p \in {"color"} |-> "blue"], <<160, 15>>, "sans", << >>),
   Element("section", <<"muted", "display">>, [p \in {"color"} |-> "red"], << >>, "serif", << >>),
   [Element("section", << >>, [p \in {} |-> "red"], <<20>>, "serif", << >>) EXCEPT !.role = "navigation"]}

Variables ==
  {<< >>, <<[name |-> "x", value |-> 1, color |-> None, role |-> None]>>,
   <<[name |-> "x", value |-> 2, color |-> "red", role |-> "primary"]>>,
   <<[name |-> "x", value |-> 1, color |-> "blue", role |-> "primary"], [name |-> "y", value |-> 1, color |-> "red", role |-> None]>>}

Snapshots(elements, rules) ==
  [variables : Variables, inline : {<< >>, <<[name |-> "x", value |-> 4]>>}, rules : rules, elements : elements]

Pages ==
  {<<s>> : s \in Snapshots(BoundedSeq(Elements, 2), {<< >>, <<[color |-> "blue", source |-> "stylesheet"]>>})}
  \cup {<<s, t>> : s, t \in Snapshots(BoundedSeq(Elements, 1), {<< >>})}

Design == INSTANCE DesignTokens WITH MaxTokens <- 2, MaxKinds <- 2

-----------------------------------------------------------------------------
\* Toolbox: UUIDs of three and two random bits, ULIDs of three digits with
\* five bits of time, documents around five nodes and a depth of two.
Tokens ==
  [claims : UNION {[names -> {0, 2, NoNumber}] : names \in SUBSET {"exp", "iss", "own"}}, expiry : 1..2, issuer : 0..1,
   extra : SUBSET {"alg", "kid"}, wait : 0..3]
TailBits == 3
HeadBits == 2
RandomBits == 8
Digits == 3
Moments == [ms : 0..7, random : 0..255]
Digests == [algorithm : {"md5", "sha1", "sha224", "sha256", "sha384", "sha512", "blake2b", "blake2s"},
            form : {"hex", "base64"}, alike : BOOLEAN]
Twigs == BoundedSeq({<< >>}, 2)
Branches == BoundedSeq(Twigs, 2)
Trees == BoundedSeq(Branches, 3)
MaxDepth == 2
MaxNodes == 7
MaxMatches == 3
Matches == [flags : BOOLEAN, pattern : BOOLEAN, slow : 0..5, count : 0..4]
Log == [size \in 0..195 |-> IF size <= 10 THEN 3 ELSE IF size <= 33 THEN 5 ELSE IF size <= 62 THEN 6 ELSE 7]
Passwords ==
  {p \in [length : 1..13, classes : SUBSET {"lower", "upper", "digit", "special", "unicode"}, prefix : BOOLEAN, same : BOOLEAN] :
     /\ Cardinality(p.classes) <= 2 * p.length
     /\ p.same => Cardinality(p.classes) <= 2 /\ Cardinality(p.classes \ {"unicode"}) <= 1
     /\ p.prefix => p.length >= 3 /\ {"lower", "digit", "upper"} \cap p.classes # {}}

Kit == INSTANCE Toolbox

-----------------------------------------------------------------------------
\* MockData: schemas of depth two with bounds on both sides of every limit.
Schema(form, low, high, parts) ==
  [form |-> form, typed |-> TRUE, nullable |-> FALSE, low |-> low, high |-> high, parts |-> parts]

Scalars ==
  {Schema(form, low, high, << >>) : form \in {"integer", "number", "string"}, low \in {None, 0, 2, 4}, high \in {None, 0, 3, 5}}
  \cup {Schema("integer", None, 0 - 1, << >>), Schema("integer", 0 - 1, None, << >>), Schema("number", 2, 1, << >>)}

Odd == {[Schema("const", 1, None, << >>) EXCEPT !.typed = FALSE], [Schema("any", None, None, << >>) EXCEPT !.typed = FALSE],
        Schema("const", 1, None, << >>), [Schema("integer", 0, 0, << >>) EXCEPT !.nullable = TRUE]}

Options == {[Schema("anyOf", None, None, <<Schema("integer", 0, 1, << >>), Schema("const", 3, None, << >>)>>) EXCEPT !.typed = typed] : typed \in BOOLEAN}

Small == Odd \cup Options \cup {Schema("string", 0, 1, << >>), Schema("number", 0, None, << >>)}

Arrays == {Schema("array", low, high, <<s>>) : low \in {None, 0, 1, 3}, high \in {None, 0, 1, 3}, s \in Small}

Schemas ==
  Scalars \cup Odd \cup Options \cup Arrays
  \cup {Schema("object", None, None, <<s, t>>) : s \in Small, t \in Small}
  \cup {Schema("object", None, None, <<s>>) : s \in Arrays}
  \cup {Schema("array", 1, 2, <<s>>) : s \in {t \in Arrays : t.parts[1].form \in {"const", "any"}}}

FieldList == [type : {"integer", "number"}, low : {None, 0 - 2, 0, 2}, high : {None, 0 - 1, 3}, least : {0}, most : {5}]
           \cup [type : {"string", "array"}, low : {None}, high : {None}, least : 0..4, most : 1..5]

Documented ==
  [methods : SUBSET {"get", "post"}, method : {None, "get"},
   responses : UNION {[codes -> {"json", "other", "none"}] : codes \in SUBSET {"200", "2XX", "400", "default"}}]

Mock == INSTANCE MockData WITH FieldLists <- FieldList, Operations <- Documented, MaxArray <- 2, MaxInt <- 6,
                               Spread <- 3, MaxLength <- 4, DefaultLength <- 3

-----------------------------------------------------------------------------
\* ImageTools: pictures around thirty pixels, canvases and pages of less than
\* ten, and all encoders of five qualities.
Picture(w, h, turned, kind, large) == [w |-> w, h |-> h, turned |-> turned, kind |-> kind, large |-> large]
Pictures == {Picture(w, h, turned, "image", FALSE) : w \in {1, 3, 4, 7, 10}, h \in {1, 3, 5, 10}, turned \in BOOLEAN}
BadPictures == {Picture(3, 4, FALSE, kind, large) : kind \in {"psd", "pdf", "broken"}, large \in BOOLEAN}
MCResizings ==
  [picture : Pictures, width : {0, 4}, box : {<<0, 0>>, <<5, 3>>, <<3, 8>>, <<1, 2>>}, mode : {"fit", "fill"},
   margin : 0..2, rotate : BOOLEAN, format : {"png"}]
  \cup [picture : BadPictures, width : {0, 9}, box : {<<0, 0>>, <<5, 3>>, <<9, 2>>}, mode : {"fit", "unknown"},
        margin : {0}, rotate : {FALSE}, format : {"png", "unknown"}]
MCConversions ==
  [picture : Pictures \cup BadPictures, width : {0, 4, 9}, format : {"jpeg", "png", "unknown"}]
  \cup [picture : Pictures, width : {0}, format : {"pdf"}, page : {<<0, 0>>, <<6, 8>>, <<9, 6>>}, rotate : BOOLEAN,
        margin : {0, 1, 2, 3}, scale : {"fit", "fill"}, paginate : BOOLEAN, dpi : {36, 144}, most : {5}]
MCTargets == [sizes : [1..5 -> 0..4], target : 0..4]
MCScans == [large : BOOLEAN, pdf : BOOLEAN, format : {"png", "unknown"}, readable : BOOLEAN, pages : BoundedSeq(1..4, 3)]
MCCutouts == [format : {"png", "unknown"}, enabled : BOOLEAN, installed : BOOLEAN, picture : BadPictures, size : 3..4]

-----------------------------------------------------------------------------
\* DomainNames: labels of five characters and names of seven, so that hyphens
\* reach the fourth place, with a character more than each limit; WebTools:
\* four URLs of two sites.
MCNames == BoundedSeq({"a", "u", "-", ".", "o", " "}, 4) \cup BoundedSeq({"a", "A", ".", "_"}, 4)
         \cup BoundedSeq({"a", "x", "u", "."}, 5) \cup BoundedSeq({"a", "."}, 8)
         \cup {start \o <<y, z>> \o end : start \in {<<"a", "a">>, <<"u", "a">>, <<"x", "a">>, <<"x", "u">>, <<"a", ".", "a", "a">>},
                                     y, z \in {"a", "-"}, end \in {<<"a", ".", "a">>, <<".", "a">>, <<"u", ".", "a">>, <<"a">>}}
MCBadALabels == {<<"x">>, <<"x", "a", "a">>}
MCMails == {local \o <<"@">> \o domain : local \in BoundedSeq({"a", "A", ".", " ", "u"}, 4),
                                     domain \in {<<"A", ".", "a">>, << >>, <<"a">>, <<" ", "u", ".", "a", ".">>, <<"a", ".", "@", "a">>}}
         \cup {<< >>, <<" ">>, <<"a", ".", "a">>, <<"a", "_", "@", "a", ".", "a">>}
MCHostLists == UNION {[1..n -> {"a", "co", "uk"}] : n \in 2..4}

ListLines == BoundedSeq({"a", "A", "."}, 3) \cup {<<"#", "a", ".", "a">>, <<" ", "A", ".", "a", ".", " ">>, <<"u", ".", "a">>, <<"a", ".", "a", ".", ".">>}
MCListings == [lines : {<<x>> : x \in ListLines} \cup {<<x, <<"x", "a", ".", "a">>>> : x \in ListLines},
             host : {<<"a", ".", "a">>, <<"a", "a", ".", "a">>, <<"x", "a", ".", "a", ".", "a">>, <<"x", "a", ".", "a">>, <<"a", ".", "x", "a">>}]

MCPublicSuffixes == {<<"co", "uk">>}

Url(scheme, www, name) == [scheme |-> scheme, www |-> www, name |-> name]
Site == {Url("http", FALSE, 1), Url("https", FALSE, 1), Url("https", TRUE, 1), Url("http", FALSE, 2)}
MCChains == [site : [Site -> {<<"page">>, <<"gone">>} \cup ({"redirect"} \X Site)], url : {Url("http", FALSE, 1)}, max : 1..3]
MCRobotsTexts == BoundedSeq({<<"user-agent", 1>>, <<"user-agent", 2>>, <<"allow", 1>>, <<"allow", 2>>, <<"disallow", 1>>, <<"other", 1>>}, 4)
MCSites == [server : SUBSET {"nginx", "apache"}, powered : SUBSET {"php"}, markers : SUBSET {"gtag", "googletagmanager"}]
MCMarkersOf == [t \in {"Google Analytics", "Google Tag Manager"} |->
                IF t = "Google Analytics" THEN {"gtag", "googletagmanager"} ELSE {"googletagmanager"}]
MCTypings == [declared : SUBSET {"html", "xml", "text"}, check : BOOLEAN, body : {"empty", "png", "unknown"}]
Located == [scheme : {"https"}, host : {1}, path : 1..2, query : 1..2]
MCCanonicals == [tag : Located \cup {None}, links : BoundedSeq(Located, 1), final : Located]

MCServers == <<"nginx", "apache">>
MCLanguages == <<"php">>

-----------------------------------------------------------------------------
\* IpSources: addresses of three bits, sources with a field of every kind.
Saying(fields) == UNION {[said -> {"no", "yes"}] : said \in SUBSET fields}
Networks == {None} \cup [cidrs : {<< >>}, first : {None} \cup 0..7, last : {None} \cup 0..7]
                      \cup [cidrs : {<<None, [first |-> 4, last |-> 5]>>, <<None, [first |-> 4, last |-> None], [first |-> 4, last |-> 5]>>,
                                   <<[first |-> 4, last |-> 5], [first |-> 4, last |-> None]>>}, first : {1}, last : {6}]
MCInquiries ==
  [geo : Saying({"country", "code", "tor", "hosting"}), security : Saying({"code", "datacenter", "tor"}) \cup {[said \in {"else"} |-> "yes"]},
   signals : Saying({"tor"}), rdap : {None, [cidrs |-> << >>, first |-> 2, last |-> 3]}]
  \cup [geo : {[said \in {} |-> "no"], [said \in {"lat"} |-> "odd"], [said \in {"else"} |-> "yes"],
               [said \in {"country", "blocks"} |-> IF said = "blocks" THEN "odd" ELSE "yes"]},
        security : Saying({"asn"}), signals : Saying({"datacenter"}), rdap : Networks]

-----------------------------------------------------------------------------
\* MailTools: up to three servers, one of them unknown, and the null MX.
Failures == {<<s, << >>>> : s \in {"NXDOMAIN", "NoAnswer", "NoNameservers", "LifetimeTimeout", "Timeout", "other"}}
MailServers == {<<"answer", s>> : s \in {<<<<2, 1>>>>, <<<<1, 3>>, <<0, 2>>, <<0, 1>>>>, <<<<0, 0>>>>, <<<<1, 2>>, <<2, 3>>>>,
                                       <<<<2, 3>>, <<1, 1>>, <<3, 2>>>>}} \cup Failures
PlainRecords == {<<"answer", <<<<0, 2>>, <<0, 1>>>>>>, <<"NoAnswer", << >>>>, <<"Timeout", << >>>>}
MCRecordQueries ==
  {[types |-> types, answers |-> [t \in {"A", "NS", "SOA", "MX"} |-> IF t = "MX" THEN mx ELSE others[t]]] :
     types \in {<<"MX">>, <<"NS", "MX", "NS">>, <<"SOA", "A", "MX">>, <<"A", "NS">>},
     others \in [{"A", "NS", "SOA"} -> PlainRecords], mx \in MailServers}
Tagged == {<<"answer", <<d>>>> : d \in (0..2) \X {0}} \cup {<<"answer", <<<<1, 0>>, <<2, 0>>>>>>} \cup Failures
MCSignatures == [keys : Tagged, ds : Tagged]
DmarcTags == {<< >>, <<<<"p", FALSE, 1>>>>, <<<<"pct", FALSE, 1>>, <<"p", FALSE, 2>>, <<"pct", TRUE, 10>>, <<"pct", TRUE, 200>>>>}
TextLists == {<<"answer", s>> : s \in BoundedSeq([starts : {"v=spf1", "spf", "v=dmarc1"}, tags : DmarcTags], 2)} \cup Failures
MCMailDomains == [mx : MailServers, txt : {<<"NoAnswer", << >>>>} \cup {<<"answer", <<[starts |-> w, tags |-> << >>]>>>> : w \in {"v=spf1", "spf"}},
                dmarc : TextLists]
MCMailChecks == [check : BOOLEAN, mx : MailServers, disposable : BOOLEAN, free : BOOLEAN]

MCRowOf == [h \in 0..3 |-> CASE h = 2 -> 2 [] h = 3 -> 1 [] OTHER -> 0]
MCProviderOf == [h \in 0..3 |-> CASE h = 1 -> "p" [] h = 3 -> "q" [] OTHER -> None]

\* What the proofs about these services take for granted of their constants.
ASSUME ToolsAreTyped == DevIsTyped /\ HttpIsTyped /\ MailIsTyped /\ WebIsTyped /\ IpIsTyped /\ ImageIsTyped /\ NamesIsTyped

-----------------------------------------------------------------------------
\* Only the service that is asked has a request; the others stay as they are.
IdleJson == tool = "none" /\ a = Nothing /\ b = Nothing /\ entries = << >> /\ verdict = "none"
IdleCron == asked = << >> /\ answer = NoAnswer
IdleCall == call = <<"none", 0>> /\ result = << >>

ToolsInit ==
  /\ WorkersInit /\ Init
  /\ \/ service = "json" /\ JsonInit /\ IdleCron /\ IdleCall
     \/ service = "cron" /\ CronInit /\ IdleJson /\ IdleCall
     \/ service \in {"workers", "cache"} /\ IdleJson /\ IdleCron /\ IdleCall
     \/ /\ service = "call" /\ IdleJson /\ IdleCron
        /\ \/ DevCalled \/ HttpCalled \/ Color!ColorCalled \/ Design!TokensCalled \/ Kit!ToolboxCalled \/ Mock!MockCalled
           \/ ImageCalled \/ NamesCalled \/ MailCalled \/ WebCalled \/ IpCalled

Answering ==
  \/ DevAnswers \/ HttpAnswers \/ Color!ColorAnswers \/ Design!TokensAnswers \/ Kit!ToolboxAnswers \/ Mock!MockAnswers
  \/ ImageAnswers \/ NamesAnswers \/ MailAnswers \/ WebAnswers \/ IpAnswers

ToolsNext ==
  /\ UNCHANGED service
  /\ \/ service = "cache" /\ Next /\ UNCHANGED <<jsonVars, cronVars, workerVars, callVars>>
     \/ service = "json" /\ JsonNext /\ UNCHANGED <<vars, cronVars, workerVars, callVars>>
     \/ service = "cron" /\ CronNext /\ UNCHANGED <<vars, jsonVars, workerVars, callVars>>
     \/ service = "workers" /\ WorkersNext /\ UNCHANGED <<vars, jsonVars, cronVars, callVars>>
     \/ service = "call" /\ Answering /\ UNCHANGED <<vars, jsonVars, cronVars, workerVars>>

\* Fairness asks for nothing of a service at rest.
ToolsSpec ==
  /\ ToolsInit /\ [][ToolsNext]_toolsVars
  /\ WorkersFairness /\ CallersProgress

-----------------------------------------------------------------------------
\* ColorTools: a colour survives every notation, and a text is a colour;
\* DesignTokens: what a page shows is kept, counted and shown once.
DesignExact ==
  Color!ColorsExact /\ Color!TextsExact /\ Design!ColorsKept /\ Design!CustomExact /\ Design!PageExact

\* Toolbox: tokens, identifiers, digests and limits are what they say, and a
\* character more never makes a password weaker.
ToolboxExact ==
  Kit!TokensExact /\ Kit!IdentifiersExact /\ Kit!DigestsExact /\ Kit!LimitsExact /\ Kit!PasswordsExact

\* MockData: what is generated conforms, what is mocked is a success.
MockExact == Mock!MockExact /\ Mock!ResponseExact

=============================================================================
