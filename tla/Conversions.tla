----------------------------- MODULE Conversions -----------------------------
(***************************************************************************)
(* The parsers of the proxies, each checked on every input up to a bound   *)
(* against a statement of what it is to find there.                        *)
(*                                                                         *)
(* Text is a sequence of characters, separators by name; a letter stands   *)
(* for all that the parser treats alike.  A JSON document or a protocol    *)
(* buffer (rapidjson and protobuf are external) is what the parser asks of *)
(* it: which members are there, with which types.  A value that is copied  *)
(* goes by the number of the element it came from; 0 is a value that was   *)
(* not set.  Positions count from 1 and std::string::npos is 0.  A loop    *)
(* over a text is a function of the cursor: what the rounds from there on  *)
(* find; a loop that fills one object is one of the rounds so far.         *)
(***************************************************************************)
EXTENDS Integers, Sequences, FiniteSets, SequencesExt, FiniteSetsExt

CONSTANTS
  MaxTags,     \* bound: length of a ddtags text
  MaxLabels,   \* bound: labels of a line
  MaxValue,    \* bound: length of a label's value
  MaxText,     \* bound: length of a text in line format
  MaxSeries,   \* bound: series of a request
  MaxPoints,   \* bound: points or samples of a series
  MaxDocs      \* bound: documents of a splunk body, checks of a check run

ASSUME BoundsAssumption ==
  {MaxTags, MaxLabels, MaxValue, MaxText, MaxSeries, MaxPoints, MaxDocs} \subseteq Nat

VARIABLES
  input,       \* [of |-> the parser, arg |-> its argument]
  output       \* what it returned: a sequence, a bag of labels, or none yet

parserVars == <<input, output>>

\* s.find_first_of(C, from) and s.find_first_not_of(C, from).
Find(s, C, from) ==
  LET at == {i \in DOMAIN s : i >= from /\ s[i] \in C} IN IF at = {} THEN 0 ELSE Min(at)
FindNot(s, C, from) ==
  LET at == {i \in DOMAIN s : i >= from /\ s[i] \notin C} IN IF at = {} THEN 0 ELSE Min(at)
From(s, i) == SubSeq(s, i, Len(s))

-----------------------------------------------------------------------------
(* kv_filter, with the separators of the log proxy: quote, comma, colon *)

KvText == SeqOf({"a", ":", "COMMA", "QUOTE"}, MaxTags)
Separators == {"QUOTE", "COMMA", ":"}

\* Mutant: the search goes on at the separator that ended the value.
matchAgain(s) ==
  LET found[cursor \in 1..(Len(s) + 1)] ==
        LET first == Find(s, Separators, cursor)
            second == Find(s, Separators, first + 1)
            key == SubSeq(s, cursor, first - 1)
        IN IF first = 0 THEN << >>
           ELSE IF s[first] # ":" THEN found[first + 1]
           ELSE IF second = 0 THEN <<[key |-> key, val |-> From(s, first + 1)]>>
           ELSE <<[key |-> key, val |-> SubSeq(s, first + 1, second - 1)]>> \o found[second]
  IN found[1]

match(s) ==
  LET found[cursor \in 1..(Len(s) + 1)] ==
        LET first == Find(s, Separators, cursor)
            second == Find(s, Separators, first + 1)
            key == SubSeq(s, cursor, first - 1)
        IN IF first = 0 THEN << >>
           ELSE IF s[first] # ":" THEN found[first + 1]
           ELSE IF second = 0 THEN <<[key |-> key, val |-> From(s, first + 1)]>>
           ELSE <<[key |-> key, val |-> SubSeq(s, first + 1, second - 1)]>> \o found[second + 1]
  IN found[1]

-----------------------------------------------------------------------------
(* Prometheus line format: the labels *)

\* A label list is given by its labels; Render is the text the client sends.  The
\* path of the request names a job and, usually, an instance.
LabelValues == SeqOf({"a", "SP", "COMMA", "="}, MaxValue)
LabelLists == SeqOf([key : {<<"k">>, <<"l">>}, val : LabelValues], MaxLabels)
LabelTexts == [labels : LabelLists, instance : BOOLEAN]
RenderLabel(l) == l.key \o <<"=", "QUOTE">> \o l.val \o <<"QUOTE">>
Render(ls) ==
  FlattenSeq([i \in DOMAIN ls |-> RenderLabel(ls[i]) \o (IF i < Len(ls) THEN <<"COMMA">> ELSE << >>)])

parse_bb_metrics_label(s) ==
  LET sep == Find(s, {"="}, 1)
      begin == FindNot(s, {"QUOTE", "SP"}, sep + 1)
      end == Find(s, {"QUOTE"}, begin + 1)
  IN [key |-> IF sep = 0 THEN s ELSE SubSeq(s, 1, sep - 1),
      val |-> IF sep = 0 \/ begin = 0 \/ end = 0 THEN << >> ELSE SubSeq(s, begin, end - 1)]

\* s.substr(cursor, tag_separator_pos): the second argument is a length, so from
\* the second label on the piece goes past its comma.
piece(s, cursor, comma) ==
  IF comma = 0 THEN From(s, cursor) ELSE SubSeq(s, cursor, Min({cursor + comma - 2, Len(s)}))

split_labels(s) ==
  LET labels[cursor \in 1..(Len(s) + 1)] ==
        LET comma == Find(s, {"COMMA"}, cursor)
            label == parse_bb_metrics_label(piece(s, cursor, comma))
        IN IF cursor = Len(s) + 1 THEN << >>
           ELSE (IF label.key # << >> THEN <<label>> ELSE << >>)
                \o (IF comma = 0 THEN << >> ELSE labels[comma + 1])
  IN labels[1]

Identity(instance) ==
  <<[key |-> <<"job">>, val |-> <<"j">>]>>
    \o (IF instance THEN <<[key |-> <<"instance">>, val |-> <<"i">>]>> ELSE << >>)

AsBag(s) == [x \in ToSet(s) |-> Cardinality({i \in DOMAIN s : s[i] = x})]

\* The labels, the job's and the instance's included, as a bag: they are sorted by
\* key, and how std::sort leaves labels with the same key is open.
parse_bb_metrics_labels(s, instance) == AsBag(split_labels(s) \o Identity(instance))

-----------------------------------------------------------------------------
(* Prometheus line format: the lines *)

LineTexts == SeqOf({"LF", "#", "n", "LBRACE", "RBRACE", "SP"}, MaxText)

parse_line(l) ==
  LET open == Find(l, {"LBRACE"}, 1)
      close == IF open = 0 THEN 0 ELSE Find(l, {"RBRACE"}, open + 1)
      space == Find(l, {"SP"}, 1)
      value_begin == IF open # 0 THEN FindNot(l, {"SP"}, close + 1)
                     ELSE IF space # 0 THEN FindNot(l, {"SP"}, space + 1) ELSE 0
      value_end == Find(l, {"SP"}, value_begin)
      ts_begin == IF value_end = 0 THEN 0 ELSE FindNot(l, {"SP"}, value_end + 1)
  IN IF (open # 0 /\ close = 0) \/ value_begin = 0 THEN << >>
     ELSE <<[name  |-> SubSeq(l, 1, (IF open # 0 THEN open ELSE space) - 1),
             tags  |-> IF open = 0 THEN << >> ELSE SubSeq(l, open, close),
             value |-> IF value_end = 0 THEN From(l, value_begin)
                       ELSE SubSeq(l, value_begin, value_end - 1),
             ts    |-> IF ts_begin = 0 THEN << >> ELSE From(l, ts_begin)]>>

\* parse_prometheus_line_format_2_bb_metrics: empty lines and comments are
\* skipped; what follows the last line end is not looked at.
parse_lines(s) ==
  LET metrics[cursor \in 1..(Len(s) + 1)] ==
        LET lf == Find(s, {"LF"}, cursor)
        IN IF cursor > Len(s) \/ lf = 0 THEN << >>
           ELSE (IF lf = cursor \/ s[cursor] = "#" THEN << >>
                 ELSE parse_line(SubSeq(s, cursor, lf - 1))) \o metrics[lf + 1]
  IN metrics[1]

-----------------------------------------------------------------------------
(* Datadog series and check runs *)

\* A point is a pair or not; its time may be an integer, its value a number.
Points == [pair : {TRUE}, ts : BOOLEAN, num : BOOLEAN] \cup [pair : {FALSE}, ts : {TRUE}, num : {TRUE}]
SeriesBodies == SeqOf([named : BOOLEAN, points : SeqOf(Points, MaxPoints)], MaxSeries)

\* The metric of series i after k points: a point that has no integer time or no
\* number keeps what the point before it set.
metric_after(i, points, k) ==
  LET metric[n \in 0..Len(points)] ==
        IF n = 0 THEN [series |-> i, ts |-> 0, val |-> 0]
        ELSE IF ~points[n].pair THEN metric[n - 1]
        ELSE [series |-> i, ts  |-> IF points[n].ts THEN n ELSE metric[n - 1].ts,
              val |-> IF points[n].num THEN n ELSE metric[n - 1].val]
  IN metric[k]

\* One metric per series, copied for each of its points that is a pair.
series_metrics(i, series) ==
  IF ~series.named THEN << >>
  ELSE FlattenSeq([k \in DOMAIN series.points |->
         IF series.points[k].pair THEN <<metric_after(i, series.points, k)>> ELSE << >>])

parse_datadog_series(body) == FlattenSeq([i \in DOMAIN body |-> series_metrics(i, body[i])])

\* A check has a name or is skipped; it may have a tag, its status may be an
\* integer, its timestamp an integer or something else.
Checks == [named : BOOLEAN, tag : BOOLEAN, status : BOOLEAN, ts : BOOLEAN]
CheckRuns == SeqOf(Checks, MaxDocs - 1)

\* A new metric per check.  The timestamp is IsInt() * 1000 where there is one.
check_metric(check, i) ==
  [check |-> i, labels |-> IF check.tag THEN {i} ELSE {}, val |-> IF check.status THEN i ELSE 0,
   ts |-> IF check.ts THEN "1000" ELSE "now"]

parse_datadog_check_run(checks) ==
  FlattenSeq([i \in DOMAIN checks |->
    IF checks[i].named THEN <<check_metric(checks[i], i)>> ELSE << >>])

-----------------------------------------------------------------------------
(* Splunk events and Prometheus remote writes *)

\* A document: an event whose time is a number in a string, something else,
\* absent, or a string that is no number; a document that is no event; one that
\* does not parse.
Docs == SeqOf({"string", "typed", "absent", "nonumber", "noevent", "broken"}, MaxDocs)

Throws == <<[doc |-> 0, time |-> "throws"]>>

\* Documents are parsed until one fails, at the end of the body at the latest.
\* stod may throw; else an event's time is now, or 0 where the document has none.
parse_splunk_event(docs) ==
  LET after[i \in 0..Len(docs)] ==
        IF i = 0 THEN [open |-> TRUE, result |-> << >>]
        ELSE LET before == after[i - 1]
                 line == [doc |-> i, time |-> IF docs[i] = "absent" THEN "0" ELSE "now"]
             IN IF ~before.open \/ docs[i] = "noevent" THEN before
                ELSE IF docs[i] = "broken" THEN [open |-> FALSE, result |-> before.result]
                ELSE IF docs[i] = "nonumber" THEN [open |-> FALSE, result |-> Throws]
                ELSE [open |-> TRUE, result |-> Append(before.result, line)]
  IN after[Len(docs)].result

\* A remote write: the labels of a series, with its name or not, and the number
\* of its samples.
Labels == {"prometheus_replica", "x", "y"}
Writes == SeqOf([named : BOOLEAN, labels : SUBSET Labels, samples : 0..MaxPoints], MaxSeries)

NoLabels == [l \in Labels |-> 0]

\* The loop over the labels: it adds them to what the metric has.
add_labels(series, copies) ==
  [l \in Labels |-> copies[l] + IF l \in series.labels /\ l # "prometheus_replica" THEN 1 ELSE 0]

\* The metric of a series is reused, and the loop over the labels is run again for
\* every sample: after j samples it has the labels j times.
labels_after(series, start, j) ==
  LET copies[n \in 0..series.samples] ==
        IF n = 0 THEN start ELSE add_labels(series, copies[n - 1])
  IN copies[j]

\* The loop over the samples; without a name nothing is inserted.
write_samples(i, series, start) ==
  IF ~series.named THEN << >>
  ELSE [j \in 1..series.samples |->
         [series |-> i, sample |-> j, copies |-> labels_after(series, start, j)]]

\* Mutant: the metric is declared outside the loop over the series.
write_metricsOneMetric(w) ==
  LET metric[i \in 0..Len(w)] ==
        IF i = 0 THEN NoLabels ELSE labels_after(w[i], metric[i - 1], w[i].samples)
  IN FlattenSeq([i \in DOMAIN w |-> write_samples(i, w[i], metric[i - 1])])

write_metrics(w) == FlattenSeq([i \in DOMAIN w |-> write_samples(i, w[i], NoLabels)])

-----------------------------------------------------------------------------
None == [done |-> FALSE, value |-> << >>]
Returns(v) == output' = [done |-> TRUE, value |-> v] /\ UNCHANGED input
Asked(parser) == ~output.done /\ input.of = parser

Inputs ==
  [of : {"tags"}, arg : KvText] \cup [of : {"labels"}, arg : LabelTexts]
    \cup [of : {"lines"}, arg : LineTexts] \cup [of : {"series"}, arg : SeriesBodies]
    \cup [of : {"checks"}, arg : CheckRuns] \cup [of : {"splunk"}, arg : Docs]
    \cup [of : {"write"}, arg : Writes]

ParserInit == input \in Inputs /\ output = None

ParserNext ==
  \/ Asked("tags") /\ Returns(match(input.arg))
  \/ Asked("labels") /\ Returns(parse_bb_metrics_labels(Render(input.arg.labels), input.arg.instance))
  \/ Asked("lines") /\ Returns(parse_lines(input.arg))
  \/ Asked("series") /\ Returns(parse_datadog_series(input.arg))
  \/ Asked("checks") /\ Returns(parse_datadog_check_run(input.arg))
  \/ Asked("splunk") /\ Returns(parse_splunk_event(input.arg))
  \/ Asked("write") /\ Returns(write_metrics(input.arg))

ParserSpec == ParserInit /\ [][ParserNext]_parserVars

-----------------------------------------------------------------------------
(* Properties *)

Done(parser) == output.done /\ input.of = parser

\* The members of P, all in 1..n, in order.
InOrder(P, n) == FlattenSeq([i \in 1..n |-> IF i \in P THEN <<i>> ELSE << >>])
\* The last member of P up to k; 0 if there is none.
LastUpTo(P, k) == LET upto == {i \in P : i <= k} IN IF upto = {} THEN 0 ELSE Max(upto)
At(s, C) == {i \in DOMAIN s : s[i] \in C}

\* The colons that end a key: in a field between commas or quotes, the first, the
\* third and so on.
FieldColons(s, c) == {i \in At(s, {":"}) : LastUpTo(At(s, {"QUOTE", "COMMA"}), c - 1) < i /\ i < c}
KeyColons(s) == {c \in At(s, {":"}) : Cardinality(FieldColons(s, c)) % 2 = 0}
Before(s, c) == SubSeq(s, LastUpTo(At(s, Separators), c - 1) + 1, c - 1)
After(s, c) ==
  LET sep == Find(s, Separators, c + 1) IN SubSeq(s, c + 1, IF sep = 0 THEN Len(s) ELSE sep - 1)

\* kv_filter::match finds every tag of a ddtags text once and in order, with empty
\* keys and values, quotes and commas in any place; a value ends at a colon, and
\* what follows that colon counts as a tag if it has a colon itself.
TagsAreFound ==
  Done("tags") =>
    LET cs == InOrder(KeyColons(input.arg), Len(input.arg))
    IN output.value = [i \in DOMAIN cs |-> [key |-> Before(input.arg, cs[i]),
                                            val |-> After(input.arg, cs[i])]]

\* What parse_bb_metrics_label can read of a value.
Readable(ls, i) ==
  /\ "COMMA" \notin ToSet(ls[i].val)
  /\ IF ls[i].val = << >> THEN i \in {1, Len(ls)} ELSE ls[i].val[1] # "SP"

\* If no value holds a comma or begins with a space, and none but the first and
\* the last is empty, the labels parsed are the labels sent, each as often as it
\* was sent, with the job and, where there is one, the instance: that the pieces
\* reach into the next label does no harm then.  (An empty value in between takes
\* the text up to the next quote; a value with a comma is cut.)
LabelsAreRead ==
  LET sent == input.arg.labels IN
  Done("labels") /\ (\A i \in DOMAIN sent : Readable(sent, i)) =>
    output.value = AsBag(sent \o Identity(input.arg.instance))

\* The line that a line end at position e ends.
LineTo(s, e) == SubSeq(s, LastUpTo(At(s, {"LF"}), e - 1) + 1, e - 1)
\* A line that begins with a name, a comment, or an empty line.
Plain(l) == l = << >> \/ l[1] \in {"n", "#"}
\* A line has a metric if something follows the labels or, where there is no
\* brace, the first space.
AfterHead(l) ==
  IF "LBRACE" \in ToSet(l)
  THEN LET close == {i \in At(l, {"RBRACE"}) : \E j \in At(l, {"LBRACE"}) : j < i}
       IN IF close = {} THEN << >> ELSE From(l, Min(close) + 1)
  ELSE IF "SP" \in ToSet(l) THEN From(l, Min(At(l, {"SP"})) + 1) ELSE << >>
HasMetric(l) == l # << >> /\ l[1] # "#" /\ ~ (ToSet(AfterHead(l)) \subseteq {"SP"})

Spaces(n) == [i \in 1..n |-> "SP"]
\* The parts of a metric are the line, in order, with nothing but spaces between.
ReadAs(m, l) ==
  /\ \E a, b \in 0..Len(l) : l = m.name \o m.tags \o Spaces(a) \o m.value \o Spaces(b) \o m.ts
  /\ m.value # << >> /\ "SP" \notin ToSet(m.value)
  /\ "LBRACE" \notin ToSet(m.name) /\ (m.tags # << >> <=> "LBRACE" \in ToSet(l))

\* In a text whose lines are not indented and do not lack the name: every line
\* that ends with a line end, is no comment and has a value after its name or
\* labels gives one metric, in order; no other line does; each metric has a name,
\* and nothing of the line is lost or read twice but spaces.  (Of an indented line
\* nothing is said: the code takes it for a metric without a name, a comment too.
\* Nor is it said which labels a line without braces gets.)
LinesAreRead ==
  Done("lines") /\ (\A e \in At(input.arg, {"LF"}) : Plain(LineTo(input.arg, e))) =>
    LET es == InOrder({e \in At(input.arg, {"LF"}) : HasMetric(LineTo(input.arg, e))},
                      Len(input.arg))
    IN /\ Len(output.value) = Len(es)
       /\ \A i \in DOMAIN es : /\ ReadAs(output.value[i], LineTo(input.arg, es[i]))
                               /\ output.value[i].name # << >>

\* The points of a series that are pairs, and those that set a field.
Pairs(ps) == {k \in DOMAIN ps : ps[k].pair}
Timed(ps) == {k \in Pairs(ps) : ps[k].ts}
Valued(ps) == {k \in Pairs(ps) : ps[k].num}

\* A metric's time and value come from its own point or, where that has none, from
\* the latest point before it in the same series: never from another series.
PointsStayInSeries ==
  Done("series") =>
    output.value = FlattenSeq([i \in DOMAIN input.arg |->
      LET ps == input.arg[i].points
          ks == IF input.arg[i].named THEN InOrder(Pairs(ps), Len(ps)) ELSE << >>
      IN [n \in DOMAIN ks |-> [series |-> i, ts |-> LastUpTo(Timed(ps), ks[n]),
                               val |-> LastUpTo(Valued(ps), ks[n])]]])

\* Events that follow each other without a separator all give a line, in order, up
\* to the first document that does not parse, and documents that are no events
\* do not matter; one time that is no number fails the whole request.
SplunkEventsAreRead ==
  Done("splunk") =>
    LET docs == input.arg
        read == {i \in DOMAIN docs : \A j \in 1..i : docs[j] # "broken"}
        events == InOrder({i \in read : docs[i] # "noevent"}, Len(docs))
    IN IF \E i \in read : docs[i] = "nonumber" THEN output.value = Throws
       ELSE [n \in DOMAIN output.value |-> output.value[n].doc] = events

CheckIsOwn(m, check, i) ==
  /\ m.check = i /\ m.val = (IF check.status THEN i ELSE 0)
  /\ m.labels = (IF check.tag THEN {i} ELSE {})
  /\ ~check.ts => m.ts = "now"

SampleIsOwn(m, series, at) ==
  /\ <<m.series, m.sample>> = at
  /\ {l \in Labels : m.copies[l] > 0} = series.labels \ {"prometheus_replica"}
  /\ m.sample = 1 => \A l \in Labels : m.copies[l] <= 1

\* The samples to be inserted: those of the series that have a name, in order.
SamplesOf(w) ==
  FlattenSeq([i \in DOMAIN w |-> [j \in 1..(IF w[i].named THEN w[i].samples ELSE 0) |-> <<i, j>>]])

\* What one check or series sets shows in its own metrics and in no other.  A check
\* with a name gives one metric: with its status if that is an integer and no value
\* otherwise, with its tag or none, with the time of arrival if it has none of its
\* own.  (Of the time it has nothing is said: the code sets 1000 for any.)  Every
\* sample of a named series gives one metric, in order, that carries the labels of
\* its series and no others, without the replica's, so that the samples of two
\* replicas are one series; the first carries each of them once.
MetricsAreOwn ==
  /\ Done("checks") =>
       LET named == InOrder({i \in DOMAIN input.arg : input.arg[i].named}, Len(input.arg))
       IN /\ Len(output.value) = Len(named)
          /\ \A n \in DOMAIN named : CheckIsOwn(output.value[n], input.arg[named[n]], named[n])
  /\ Done("write") =>
       /\ Len(output.value) = Len(SamplesOf(input.arg))
       /\ \A n \in DOMAIN SamplesOf(input.arg) :
            LET at == SamplesOf(input.arg)[n] IN SampleIsOwn(output.value[n], input.arg[at[1]], at)

\* A text in which tags, labels or lines are looked for by position gives what is
\* in it: any ddtags text, and the Prometheus line format with the restrictions
\* that LabelsAreRead and LinesAreRead name.
TextIsRead == TagsAreFound /\ LabelsAreRead /\ LinesAreRead

\* Every record of a request gives what is in it and nothing of its neighbours, in
\* parsers that reuse one object or one document for several of them.
RecordsAreOwn == PointsStayInSeries /\ SplunkEventsAreRead /\ MetricsAreOwn

=============================================================================
