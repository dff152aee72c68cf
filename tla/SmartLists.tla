----------------------------- MODULE SmartLists -----------------------------
(***************************************************************************)
(* Smart lists (internal/library: smartlist, series_stats) and the two ways*)
(* the SQLite backend evaluates them: over the cached library, or over the *)
(* rows that a WHERE clause made of the matchers selects                   *)
(* (internal/storage: matcher_sql, backend).                               *)
(*                                                                         *)
(* A text is a sequence of letters.  Of the matchers there is one for each *)
(* way of comparing: a text, an issue number, an integer, a rating,        *)
(* yes/no/unknown (with the answers that ComicRack writes), and the two    *)
(* that look at other books, duplicates and gaps in a series.  Operators   *)
(* have the names they have for the kind: the codes behind them are shared *)
(* (TextOperator).  Ratings are in hundredths; those half way between two  *)
(* tenths, which %.1f rounds by their binary form, are left out.  Groups   *)
(* are nested once, and a base list has no base list of its own.           *)
(***************************************************************************)
EXTENDS Naturals, Integers, FiniteSets, Sequences, SequencesExt

CONSTANTS
    Title,          \* book ids
    Facts,          \* what a row can say of a book: [series, number, year, rating, complete]
    LowerCase,      \* letter -> letter: strings.ToLower
    AsciiLower,     \* letter -> letter: what NOCASE and LIKE fold
    Code,           \* letter -> its place in the order of strings.Compare
    Split,          \* text -> [ok, num, rest]: splitPseudoNumeric
    List,           \* the smart lists: [mode, matchers, base]
    BaseList,       \* what the base list can be: a set of books, or a smart list
    NoBase, Cold,
    NoValue         \* an empty MatchValue

VARIABLES
    books,          \* the books table
    base,           \* the row of the one list that others are based on
    cache           \* libCache, [books, base], or Cold

vars == <<books, base, cache>>

TypeOK ==
    /\ books \in [Title -> Facts]
    /\ base \in BaseList
    /\ cache = Cold \/ cache \in [books : [Title -> Facts], base : BaseList]

(*************************** One matcher ************************************)

Lower(s) == [i \in DOMAIN s |-> LowerCase[s[i]]]

(* The value stands in the text from the i-th letter on, letters being folded. *)
StandsAt(value, text, i, fold) ==
    /\ i + Len(value) <= Len(text) + 1
    /\ \A j \in 1 .. Len(value) : fold[text[i + j - 1]] = fold[value[j]]
MatchText(op, value, text, fold) ==
    CASE op = "equals" -> Len(text) = Len(value) /\ StandsAt(value, text, 1, fold)
      [] op = "contains" -> \E i \in 1 .. Len(text) + 1 : StandsAt(value, text, i, fold)
      [] op = "starts" -> StandsAt(value, text, 1, fold)
      [] op = "ends" -> Len(value) <= Len(text) /\ StandsAt(value, text, Len(text) - Len(value) + 1, fold)
      [] op = "containsAny" -> \E i \in 1 .. Len(text), j \in 1 .. Len(value) : fold[text[i]] = fold[value[j]]

(* matchString, with IgnoreCase as the XML matchers have it. *)
MatchString(m, text) == MatchText(m.op, m.value, text, LowerCase)

(* comparePseudoNumeric: by the number in front, then by the rest; texts without
   a number as texts. *)
Before(s, t) == \E i \in 1 .. Len(t) :
    /\ \A j \in 1 .. i - 1 : j <= Len(s) /\ s[j] = t[j]
    /\ i > Len(s) \/ Code[s[i]] < Code[t[i]]
Numbers(s, t) == Split[s].ok /\ Split[t].ok
BeforeNumber(s, t) ==
    IF ~Numbers(s, t) THEN Before(s, t)
    ELSE \/ Split[s].num < Split[t].num
         \/ (Split[s].num = Split[t].num /\ Before(Split[s].rest, Split[t].rest))
SameNumber(s, t) ==
    s = t \/ (Numbers(s, t) /\ Split[s].num = Split[t].num /\ Split[s].rest = Split[t].rest)

(* matchPseudoNumeric: an issue number neither starts nor ends with anything. *)
MatchNumber(m, text) ==
    CASE m.op = "equals" -> SameNumber(text, m.value)
      [] m.op = "greater" -> BeforeNumber(m.value, text)
      [] m.op = "lesser" -> BeforeNumber(text, m.value)
      [] OTHER -> FALSE

(* matchNumeric: an empty value asks for 0 or -1, whatever the operator. *)
MatchNumeric(m, n) ==
    IF m.value = NoValue THEN n \in {0, -1}
    ELSE CASE m.op = "equals" -> n = m.value
           [] m.op = "greater" -> n > m.value
           [] m.op = "lesser" -> n < m.value

(* matchYesNo. *)
MatchYesNo(m, answer) ==
    CASE m.op = "yes" -> answer = "Yes"
      [] m.op = "no" -> answer = "No"
      [] m.op = "unknown" -> answer \in {"Unknown", ""}

(* buildDuplicateSet: two candidates that agree in all that is compared. *)
Duplicates(among) == {t \in DOMAIN among : \E u \in DOMAIN among \ {t} :
    /\ Lower(among[u].series) = Lower(among[t].series)
    /\ among[u].number = among[t].number /\ among[u].year = among[t].year}

(* parseIssueNumber: 0 for a number that is not one as a whole. *)
IssueNumber(fact) == LET s == Split[fact.number] IN IF s.ok /\ s.rest = <<>> /\ s.num > 0 THEN s.num ELSE 0

(* computeGaps: the numbers just after a gap, among the candidates of a series. *)
GapEnds(among, t) ==
    LET numbers == {IssueNumber(among[u]) : u \in {u \in DOMAIN among : Lower(among[u].series) = Lower(among[t].series)}} \ {0}
    IN  {n \in numbers : n - 1 \notin numbers /\ \E k \in numbers : k < n}

(* evaluateSeriesMatcher, for SmartListSeriesEndOfGap. *)
EndOfGap(among, t) ==
    IF IssueNumber(among[t]) = 0 THEN "Unknown"
    ELSE IF IssueNumber(among[t]) \in GapEnds(among, t) THEN "Yes" ELSE "No"

(* NewMatcherFromXML, parseOperator: the operator is known, a regex compiles. *)
Buildable(m) == m.kind # "invalid"

(* getValue: the field that the matcher is about; of a rating, one decimal. *)
Tenths(hundredths) == ((hundredths + 5) \div 10) * 10
Value(m, fact) ==
    CASE m.kind = "series" -> fact.series
      [] m.kind = "number" -> fact.number
      [] m.kind = "year" -> fact.year
      [] m.kind = "rating" -> Tenths(fact.rating)
      [] m.kind = "complete" -> fact.complete

(* Match, matchInternal, evaluateMatcher: Not turns the answer round, but not
   that of a matcher that cannot be built. *)
Holds(m, among, t) ==
    /\ Buildable(m)
    /\ m.not # CASE m.kind = "series" -> MatchString(m, Value(m, among[t]))
                 [] m.kind = "number" -> MatchNumber(m, Value(m, among[t]))
                 [] m.kind \in {"year", "rating"} -> MatchNumeric(m, Value(m, among[t]))
                 [] m.kind = "complete" -> MatchYesNo(m, Value(m, among[t]))
                 [] m.kind = "duplicate" -> t \in Duplicates(among)
                 [] m.kind = "gap" -> MatchYesNo(m, EndOfGap(among, t))

(* The branch of evaluateMatcher for a group: an empty one is false, whatever Not says. *)
HoldsNode(n, among, t) ==
    IF n.kind # "group" THEN Holds(n, among, t)
    ELSE /\ n.matchers # {}
         /\ n.not # IF n.mode = "Or" THEN \E m \in n.matchers : Holds(m, among, t)
                                     ELSE \A m \in n.matchers : Holds(m, among, t)

(*************************** A list *****************************************)

(* What a matcher of a list is: those with other operators, which match nothing
   and have no predicate, are left out. *)
Known(m) ==
    /\ m.not \in BOOLEAN /\ m.bare \in BOOLEAN
    /\ m.kind = "series" => m.op \in {"equals", "contains", "starts", "ends", "containsAny"}
    /\ m.kind = "number" => m.op \in {"equals", "greater", "lesser", "starts", "ends"}
    /\ m.kind \in {"series", "number"} => m.value \in Seq(DOMAIN LowerCase)
    /\ m.kind \in {"year", "rating"} => m.op \in {"equals", "greater", "lesser"}
    /\ m.kind = "complete" => m.op \in {"yes", "no", "unknown"}

SmartListAssumption ==
    /\ Facts # {}
    /\ \A fact \in Facts : fact.series \in Seq(DOMAIN LowerCase) /\ fact.number \in Seq(DOMAIN LowerCase) /\ fact.rating \in Nat
    /\ \A list \in List : \A n \in list.matchers :
          IF n.kind = "group" THEN n.not \in BOOLEAN /\ \A m \in n.matchers : Known(m) ELSE Known(n)

(* matchBooks: duplicates and series are looked for among the candidates. *)
Matching(list, among) == {t \in DOMAIN among :
    IF list.mode = "Or" THEN \E n \in list.matchers : HoldsNode(n, among, t)
                        ELSE \A n \in list.matchers : HoldsNode(n, among, t)}

(* ComicLibrary.MatchBooks: a base list that is gone leaves no candidates; a
   list without matchers is an error, here without books. *)
MatchBooks(list, library) ==
    LET among(ids) == [t \in ids |-> library.books[t]]
        candidates ==
            IF list.base = NoBase THEN DOMAIN library.books
            ELSE CASE library.base.kind = "gone" -> {}
                   [] library.base.kind = "manual" -> library.base.members \intersect DOMAIN library.books
                   [] library.base.kind = "smart" -> Matching(library.base, library.books)
    IN  IF list.matchers = {} THEN {} ELSE Matching(list, among(candidates))

(*************************** The fast path **********************************)

(* parseOperator: 1 is Contains of a text and Greater of a number, 2 ContainsAny
   and Lesser; an issue number is a column of texts. *)
TextOperator(op) == CASE op = "greater" -> "contains" [] op = "lesser" -> "containsAny" [] OTHER -> op

(* matcherSQLColumns has the bare names of fields, not those of the XML type names
   that list_schema.go and the library file use.  translateStringMatcher,
   translateNumericMatcher, translateEnumYesNoMatcher: which operators have a
   predicate. *)
TranslatableLeaf(m) ==
    /\ m.bare
    /\ CASE m.kind \in {"series", "number"} -> TextOperator(m.op) \in {"equals", "contains", "starts", "ends"}
         [] m.kind \in {"year", "rating"} -> m.value # NoValue
         [] OTHER -> m.kind = "complete"

(* Fault: duplicates need no predicate of their own. *)
TranslatableWithDuplicates(n) ==
    /\ ~n.not
    /\ IF n.kind = "group" THEN n.matchers # {} /\ \A m \in n.matchers : ~m.not /\ TranslatableLeaf(m)
       ELSE n.kind = "duplicate" \/ TranslatableLeaf(n)

(* translateMatcher. *)
Translatable(n) ==
    /\ ~n.not
    /\ IF n.kind = "group" THEN n.matchers # {} /\ \A m \in n.matchers : ~m.not /\ TranslatableLeaf(m)
       ELSE TranslatableLeaf(n)

(* The predicate of one matcher: COLLATE NOCASE, and LIKE with its wildcards
   escaped, on the text; the number or the rating as it is stored.  A matcher
   without a predicate selects every row. *)
Selects(m, fact) ==
    CASE m.kind = "series" -> MatchText(TextOperator(m.op), m.value, fact.series, AsciiLower)
      [] m.kind = "number" -> MatchText(TextOperator(m.op), m.value, fact.number, AsciiLower)
      [] m.kind = "year" -> MatchNumeric(m, fact.year)
      [] m.kind = "rating" -> MatchNumeric(m, fact.rating)
      [] m.kind = "complete" -> MatchYesNo(m, fact.complete)
      [] OTHER -> TRUE

(* translateMatchers: the predicate of a group, and of the list. *)
SelectsNode(n, fact) ==
    IF n.kind # "group" THEN Selects(n, fact)
    ELSE IF n.mode = "Or" THEN \E m \in n.matchers : Selects(m, fact)
                          ELSE \A m \in n.matchers : Selects(m, fact)

(* GetBooksWhere. *)
BooksWhere(list) == {t \in Title :
    IF list.mode = "Or" THEN \E n \in list.matchers : SelectsNode(n, books[t])
                        ELSE \A n \in list.matchers : SelectsNode(n, books[t])}

(* needsWarmSnapshot. *)
NeedsWarmSnapshot(list) ==
    ~(list.base = NoBase /\ list.matchers # {} /\ \A n \in list.matchers : Translatable(n))

(* cachedLibrary: what is cached, or else what is in the database. *)
CachedLibrary == IF cache = Cold THEN [books |-> books, base |-> base] ELSE cache

(* SQLiteBackend.MatchBooks, evaluationLibrary. *)
Evaluate(list) ==
    IF NeedsWarmSnapshot(list) THEN MatchBooks(list, CachedLibrary)
    ELSE MatchBooks(list, [books |-> [t \in BooksWhere(list) |-> books[t]], base |-> [kind |-> "gone"]])

(*************************** The backend ************************************)

(* Any library: ChangeBook and ChangeBase lead to every other. *)
Init ==
    /\ books = [t \in Title |-> CHOOSE fact \in Facts : TRUE]
    /\ base = CHOOSE b \in BaseList : TRUE
    /\ cache = Cold

(* cachedLibrary, the first evaluation that needs it. *)
Warm == cache = Cold /\ cache' = CachedLibrary /\ UNCHANGED <<books, base>>

(* UpdateBook, CreateBook, DeleteBook, UpdateBooks. *)
ChangeBook(t, fact) == books' = [books EXCEPT ![t] = fact] /\ cache' = Cold /\ UNCHANGED base

(* CreateList, UpdateList, DeleteList, MoveList. *)
ChangeBase(b) == base' = b /\ cache' = Cold /\ UNCHANGED books

Next ==
    \/ Warm
    \/ \E t \in Title, fact \in Facts : ChangeBook(t, fact)
    \/ \E b \in BaseList : ChangeBase(b)

(* What a matcher asks of a book where SQL does not mean what Go means: a letter that
   only strings.ToLower folds; an issue number above one, or written in another way; a
   rating with more than one decimal. *)
Unlike(m, fact) ==
    CASE m.kind = "series" -> \E i \in 1 .. Len(fact.series), j \in 1 .. Len(m.value) :
             /\ LowerCase[fact.series[i]] = LowerCase[m.value[j]]
             /\ AsciiLower[fact.series[i]] # AsciiLower[m.value[j]]
      [] m.kind = "number" -> m.op = "greater" \/ (m.op = "equals" /\ fact.number # m.value)
      [] m.kind = "rating" -> fact.rating % 10 # 0
      [] OTHER -> FALSE
UnlikeIn(list, fact) ==
    \E n \in list.matchers : IF n.kind = "group" THEN \E m \in n.matchers : Unlike(m, fact) ELSE Unlike(n, fact)

(* A smart list has the books that its matchers, evaluated over the whole library as
   it is now, select: narrowing the candidates in SQL adds none, also not where a
   matcher looks at the other candidates, and loses one only where SQL compares
   otherwise than Go (matcher_sql.go promises to lose none); and a cached library
   never answers for an older one. *)
FastPathAgrees == \A list \in List :
    LET all == MatchBooks(list, [books |-> books, base |-> base])
    IN  /\ Evaluate(list) \subseteq all
        /\ \A t \in all \ Evaluate(list) : ~NeedsWarmSnapshot(list) /\ UnlikeIn(list, books[t])
=============================================================================
