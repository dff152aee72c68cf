----------------------------- MODULE MCServices -----------------------------
EXTENDS Services, TLC

(*************************** Lists ******************************************)
CONSTANTS f, h, m, b1, b2, r1, r2

(* The second library file has the list at the root and no longer its folder. *)
At(p, body) == [parent |-> p, body |-> body]
MCFileLists == <<(f :> At(Root, r1)) @@ (m :> At(f, <<b1, b2>>)), m :> At(Root, <<b1, b2>>)>>
MCFileBooks == <<{b1, b2}, {b1}>>

(*************************** Smart lists ************************************)
CONSTANTS t1, t2, t3

Letter == {"a", "A", "b", "e'", "E'", "1", "3", "0", "."}
MCLower == [x \in Letter |-> CASE x = "A" -> "a" [] x = "E'" -> "e'" [] OTHER -> x]
MCAsciiLower == [x \in Letter |-> IF x = "A" THEN "a" ELSE x]
MCCode == (".":> 1) @@ ("0" :> 2) @@ ("1" :> 3) @@ ("3" :> 4) @@ ("A" :> 5) @@ ("a" :> 6) @@ ("b" :> 7) @@ ("E'" :> 8) @@ ("e'" :> 9)
Pseudo(ok, n, rest) == [ok |-> ok, num |-> n, rest |-> rest]
MCSplit ==
    (<<"1">> :> Pseudo(TRUE, 1, <<>>)) @@ (<<"1", ".", "0">> :> Pseudo(TRUE, 1, <<>>)) @@
    (<<"1", "A">> :> Pseudo(TRUE, 1, <<"A">>)) @@ (<<"3">> :> Pseudo(TRUE, 3, <<>>)) @@ (<<>> :> Pseudo(FALSE, 0, <<>>))

(* Two that are duplicates but for the case of a letter, the end of a gap, and
   one without a number; letters, numbers and a rating that SQL reads otherwise. *)
Fact(series, n, y, rating, c) == [series |-> series, number |-> n, year |-> y, rating |-> rating, complete |-> c]
MCFacts ==
    {Fact(<<"a">>, <<"1">>, 0, 0, "Yes"), Fact(<<"A">>, <<"1">>, 0, 450, ""), Fact(<<"a">>, <<"3">>, 1, 446, "No"),
     Fact(<<"b", "a">>, <<>>, 0, 0, "Unknown"), Fact(<<"E'">>, <<"1", ".", "0">>, 1, 450, "Yes")}

Matcher(k, o, v, n) == [kind |-> k, op |-> o, value |-> v, not |-> n, bare |-> TRUE]
Group(mode, ms, n) == [kind |-> "group", mode |-> mode, matchers |-> ms, not |-> n]
Late == Matcher("year", "greater", 0, FALSE)
EndsA == Matcher("series", "ends", <<"A">>, FALSE)
Twice(n) == Matcher("duplicate", "equals", NoValue, n)
Matchers ==
    {Matcher("series", "equals", <<"A">>, n) : n \in BOOLEAN} \union {Twice(n) : n \in BOOLEAN} \union
    {Matcher("series", "starts", <<"b">>, FALSE), EndsA, Matcher("series", "containsAny", <<"b">>, FALSE),
     [Matcher("series", "equals", <<"e'">>, FALSE) EXCEPT !.bare = FALSE], Matcher("series", "contains", <<"e'">>, FALSE),
     Matcher("number", "equals", <<"1">>, FALSE), Matcher("number", "greater", <<"1">>, FALSE),
     Matcher("number", "lesser", <<"1", "A">>, FALSE), Matcher("number", "ends", <<"1">>, FALSE),
     Matcher("rating", "equals", 450, FALSE), Matcher("rating", "greater", 440, FALSE),
     Matcher("year", "equals", NoValue, FALSE), Late, Matcher("complete", "yes", NoValue, TRUE),
     Matcher("complete", "unknown", NoValue, FALSE), Matcher("gap", "yes", NoValue, FALSE),
     Matcher("invalid", "equals", NoValue, TRUE)}
Nodes == Matchers \union {Group("Or", {Late, EndsA}, n) : n \in BOOLEAN} \union
         {Group("And", {}, TRUE), Group("Or", {Twice(FALSE), Late}, FALSE)}
ListOf(mode, ms, on) == [mode |-> mode, matchers |-> ms, base |-> on]
MCSmartList ==
    {ListOf(mode, {x, y}, NoBase) : mode \in {"And", "Or"}, x \in Nodes, y \in Nodes} \union
    {ListOf("And", {x}, "base") : x \in Nodes} \union {ListOf("And", {}, NoBase)}
MCBaseList ==
    {[kind |-> "gone"], [kind |-> "manual", members |-> {t1, t2}],
     [kind |-> "smart", mode |-> "And", matchers |-> {Matcher("series", "equals", <<"A">>, FALSE)}]}

(*************************** Volumes ****************************************)
CONSTANTS v1, v2, i1, i2, i3

(* One volume of two pages, to which a third issue may come, and an empty one. *)
MCHome == [i \in {i1, i2, i3} |-> v1]
MCListing == (v1 :> <<i1, i2>>) @@ (v2 :> <<>>)

(*************************** Rules ******************************************)

(* A group in a group, and a group with a ruleset that are both turned off. *)
Under(p, off) == [parent |-> p, disabled |-> off]
MCRuleFile ==
    {[groups |-> <<Under(0, FALSE), Under(1, FALSE)>>, rulesets |-> <<>>],
     [groups |-> <<Under(0, TRUE)>>, rulesets |-> <<Under(1, TRUE)>>]}

(*************************** The workflow ***********************************)
CONSTANTS older, newer, note, source, key, SeriesRef

Record(file, stage) ==
    [series |-> <<older>>, notes |-> <<>>, scan |-> IF stage = 0 THEN <<>> ELSE <<source>>, format |-> <<>>, tags |-> <<>>, count |-> 0,
     year |-> 1, month |-> 2, local |-> FALSE, marks |-> {}, pages |-> <<>>, auto |-> [count |-> 0, format |-> <<>>], dirty |-> FALSE, opened |-> FALSE, file |-> file, scraped |-> stage > 0, nomatch |-> FALSE, locked |-> {},
     custom |-> key :> Absent, stage |-> stage]

(* A new book, and one that is filed. *)
MCInitialRecord ==
    {b1 :> Record(<<"cbr", Elsewhere>>, 0),
     b1 :> Record(<<"cbz", [series |-> <<older>>, format |-> <<>>, count |-> 0, year |-> 1, month |-> 2]>>, 6)}
MCRefers == SeriesRef :> "series"
MCDetected == <<source>>
MCSeriesFound == <<newer>>
MCEditForm == {[fields |-> "series" :> <<newer>>, read |-> ""], [fields |-> ("tags" :> <<Skip>>) @@ ("month" :> <<0>>), read |-> "read"]}

(* The second ruleset changes fields that overlap, and fails at its last action. *)
Condition(field, op, v) == [field |-> field, op |-> op, values |-> <<v>>, not |-> FALSE]
Action(field, op, v) == [field |-> field, op |-> op, value |-> v]
MCRulesetList ==
    {<<>>,
     <<[mode |-> "And", rules |-> <<Condition("series", "is", <<older>>)>>,
        actions |-> <<Action("notes", "add", <<SeriesRef>>), Action(key, "setValue", <<note>>),
                      Action("series", "replace", <<older>>) @@ [with |-> <<newer>>]>>],
       [mode |-> "Or", rules |-> <<Condition("year", "greater", <<0>>), Condition("dirty", "is", <<Yes>>)>>,
        actions |-> <<Action("tags", "add", <<note>>), Action("published", "setValue", <<2, 3>>), Action("year", "calc", <<1>>)>>]>>}
=============================================================================
