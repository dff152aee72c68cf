---------------------------- MODULE DataManager -----------------------------
(***************************************************************************)
(* What the rules of the Data Manager do to a book (internal/datamanager:  *)
(* evaluate, translate, actions, fieldio, run).                            *)
(*                                                                         *)
(* The value of a field is the text that rules see: a sequence of words,   *)
(* of which a list has one per item; <<n>> for a number, <<year, month>>   *)
(* for a date.  Fields of one kind are alike, and of each kind there is    *)
(* one here; what an action looks for in a text is a single word.          *)
(***************************************************************************)
EXTENDS Integers, Sequences, SequencesExt

CONSTANTS
    Custom,         \* the keys of custom values, which are the names that no field has
    Absent,         \* a custom value that is not set
    Refers,         \* the words that stand for a field, {Series}: word -> field
    Yes, No

Writable == {"series", "notes", "scan", "format", "tags", "count", "year", "month", "published", "dirty"} \union Custom
Numbers == {"count", "year", "month"}
Flags == {"dirty", "opened"}     \* these have a BoolGetter

YesNo(flag) == IF flag THEN <<Yes>> ELSE <<No>>

(* GetFieldString; of a date without a month it is January that is read. *)
GetFieldString(b, f) ==
    CASE f \in Numbers -> <<b[f]>>
      [] f = "published" -> <<b.year, IF b.month < 1 THEN 1 ELSE b.month>>
      [] f \in Flags -> YesNo(b[f])
      [] f \in Custom -> IF b.custom[f] = Absent THEN <<>> ELSE b.custom[f]
      [] OTHER -> b[f]

(* SetFieldString, writeAnyField: whether the field takes the text. *)
Takes(f, v) ==
    CASE f \in Numbers -> v = <<>> \/ (Len(v) = 1 /\ v[1] \in Int)
      [] f = "published" -> v = <<>> \/ (Len(v) = 2 /\ v[1] \in Nat /\ v[2] \in 1 .. 12)
      [] OTHER -> f \in Writable

(* An empty date is Go's zero time. *)
SetFieldString(b, f, v) ==
    CASE f \in Numbers -> [b EXCEPT ![f] = IF v = <<>> THEN 0 ELSE v[1]]
      [] f = "published" -> [b EXCEPT !.year = IF v = <<>> THEN 1 ELSE v[1], !.month = IF v = <<>> THEN 1 ELSE v[2]]
      [] f = "dirty" -> [b EXCEPT !.dirty = v = <<Yes>>]
      [] f \in Custom -> [b EXCEPT !.custom[f] = v]
      [] OTHER -> [b EXCEPT ![f] = v]

(* SubstituteFieldRefs. *)
Substituted(v, b) ==
    FlattenSeq([i \in DOMAIN v |-> IF v[i] \in DOMAIN Refers THEN GetFieldString(b, Refers[v[i]]) ELSE <<v[i]>>])

(*************************** Conditions *************************************)
(* A rule is [field, op, values, not]: the parts of its value between "||".  *)

(* TranslateRule, evalBoolGetterRule: the modifiers that a kind of field has. *)
Understood(rule) ==
    CASE rule.field \in Numbers -> rule.op \in {"is", "greater", "greaterEq", "isAnyOf"} \/ (rule.op = "range" /\ Len(rule.values) = 2)
      [] rule.field = "published" -> rule.op \in {"is", "greater", "greaterEq"} \/ (rule.op = "range" /\ Len(rule.values) = 2)
      [] rule.field \in Flags -> rule.op = "is"
      [] rule.field \in Custom -> rule.op \in {"is", "contains"}
      [] OTHER -> rule.op \in {"is", "contains", "isAnyOf"}

(* A date as a number, and a number that is not set. *)
Amount(v) == IF v = <<>> THEN 0 ELSE IF Len(v) = 2 THEN 100 * v[1] + v[2] ELSE v[1]

(* The matcher of one value. *)
HoldsFor(rule, op, have, want) ==
    CASE op = "is" -> IF rule.field \in Numbers THEN Amount(have) = Amount(want) ELSE have = want
      [] op = "contains" -> want = <<>> \/ Contains(have, want[1])
      [] op = "greater" -> IF want = <<>> THEN Amount(have) = 0 ELSE Amount(have) > Amount(want)

(* A list of no values is an empty group, which is false whatever Not says. *)
Holds(rule, b) ==
    LET have == GetFieldString(b, rule.field)
        For(op, i) == HoldsFor(rule, op, have, rule.values[i])
    IN  CASE rule.op = "isAnyOf" -> rule.values # <<>> /\ rule.not # \E i \in DOMAIN rule.values : For("is", i)
          [] rule.op = "greaterEq" -> rule.not # (For("greater", 1) \/ For("is", 1))
          [] rule.op = "range" -> rule.not # (Amount(have) >= Amount(rule.values[1]) /\ Amount(have) <= Amount(rule.values[2]))
          [] OTHER -> rule.not # For(rule.op, 1)

(* BuildConditionGroup, Matches, combine. *)
Matches(set, b) ==
    LET held == {Holds(set.rules[i], b) : i \in DOMAIN set.rules}
    IN  set.rules = <<>> \/ IF set.mode = "Or" THEN TRUE \in held ELSE FALSE \notin held

(*************************** Actions ****************************************)
(* An action is [field, op, value], with more for those that take more.      *)

Without(v, word) == SelectSeq(v, LAMBDA w : w # word)

(* computeActionValue. *)
Computed(a, current, value) ==
    CASE a.op = "setValue" -> value
      [] a.op = "add" -> IF a.field = "tags" /\ Len(value) = 1 /\ Contains(current, value[1]) THEN current ELSE current \o value
      [] a.op = "remove" -> IF value = <<>> THEN current ELSE Without(current, value[1])
      [] a.op = "removeLeading" -> IF IsPrefix(value, current) THEN SubSeq(current, Len(value) + 1, Len(current)) ELSE current
      [] a.op = "replace" -> FlattenSeq([i \in DOMAIN current |-> IF current[i] = value[1] THEN a.with ELSE <<current[i]>>])

(* applyRegExVarReplace: the group that the expression names is the first word. *)
Captured(a, b) == (IF a.op = "captureAppend" THEN GetFieldString(b, a.into) ELSE <<>>) \o SubSeq(GetFieldString(b, a.field), 1, 1)

(* A text that is the field's already is not written, and one that the field does not
   take is an error. *)
Stored(b, f, v) ==
    IF v = GetFieldString(b, f) THEN [book |-> b, ok |-> TRUE]
    ELSE IF Takes(f, v) THEN [book |-> SetFieldString(b, f, v), ok |-> TRUE] ELSE [book |-> b, ok |-> FALSE]

(* ApplyAction, applyCustomFieldAction: the book, and whether there was no error. *)
ApplyAction(a, b) ==
    CASE a.op = "calc" -> [book |-> b, ok |-> FALSE]
      [] a.op \in {"capture", "captureAppend"} ->
            IF GetFieldString(b, a.field) = <<>> THEN [book |-> b, ok |-> TRUE] ELSE Stored(b, a.into, Captured(a, b))
      [] OTHER ->
            IF a.field \in Writable
            THEN Stored(b, a.field, Computed(a, GetFieldString(b, a.field), Substituted(a.value, b)))
            ELSE [book |-> b, ok |-> FALSE]

(* Ruleset.Apply: the actions after one that fails are left, those before it stay. *)
Apply(set, b) ==
    IF \E i \in DOMAIN set.rules : ~Understood(set.rules[i]) THEN [book |-> b, ok |-> FALSE]
    ELSE IF ~Matches(set, b) THEN [book |-> b, ok |-> TRUE]
    ELSE LET done[n \in 0 .. Len(set.actions)] ==
                 IF n = 0 THEN [book |-> b, ok |-> TRUE]
                 ELSE IF done[n - 1].ok THEN ApplyAction(set.actions[n], done[n - 1].book) ELSE done[n - 1]
         IN  done[Len(set.actions)]

(* ApplyAll: a ruleset that fails does not stop those after it. *)
AndThen(before, one) == [book |-> one.book, ok |-> before.ok /\ one.ok]
ApplyAll(b, sets) ==
    LET done[n \in 0 .. Len(sets)] ==
            IF n = 0 THEN [book |-> b, ok |-> TRUE] ELSE AndThen(done[n - 1], Apply(sets[n], done[n - 1].book))
    IN  done[Len(sets)]

(* Fault: only the custom values that were there before are compared. *)
ChangesOfOld(before, after) ==
    {f \in Writable : /\ GetFieldString(before, f) # GetFieldString(after, f)
                      /\ f \in Custom => before.custom[f] # Absent}

(* The changes that ApplyAll reports. *)
Changes(before, after) == {f \in Writable : GetFieldString(before, f) # GetFieldString(after, f)}

(* selectForApplyFields: the chosen changes only, in the order of the request. *)
SelectedFields(before, after, fields) ==
    LET done[n \in 0 .. Len(fields)] ==
            IF n = 0 THEN before ELSE SetFieldString(done[n - 1], fields[n], GetFieldString(after, fields[n]))
    IN  done[Len(fields)]
=============================================================================
