------------------------------ MODULE RuleTree ------------------------------
(***************************************************************************)
(* The Data Manager's rules (internal/configdb: datamanager,               *)
(* datamanager_import): a tree of groups with rulesets in them, edited in  *)
(* the browser (internal/api: datamanager_rules), and replaced as far as   *)
(* it came from a file by an import that another process runs              *)
(* (cmd/datamanager_import.go).                                            *)
(*                                                                         *)
(* An edit reads a row, and later writes the whole of it; a row that       *)
(* another edit or an import has changed meanwhile is overwritten.  The    *)
(* order of siblings, which only decides the order of evaluation, and what *)
(* a rule says are left out; conditions and actions are both rules here.   *)
(***************************************************************************)
EXTENDS Naturals, FiniteSets, Sequences, Functions

CONSTANTS
    Group, Ruleset, Rule,
    RuleFile,       \* the files: [groups : Seq([parent, disabled]), rulesets : Seq([parent, disabled])];
                    \* a parent is the place of a group in the file, or 0
    Root, Gone, None,
    MaxImports, MaxEdits    \* bounds: the imports, and the requests

RuleFileAssumption ==
    /\ IsFiniteSet(Group)
    /\ \A file \in RuleFile :
        /\ {file.groups, file.rulesets} \subseteq Seq([parent : Nat, disabled : BOOLEAN])
        /\ \A i \in DOMAIN file.groups : file.groups[i].parent < i
        /\ \A i \in DOMAIN file.rulesets : file.rulesets[i].parent <= Len(file.groups)

VARIABLES
    group,      \* dm_groups: Group -> [parent, source, disabled], or Gone
    ruleset,    \* dm_rulesets: Ruleset -> the same, or Gone
    rules,      \* dm_rules and dm_actions: Ruleset -> set of Rule
    updating,   \* a request that has read a row and is about to write it: [id, row], or None
    imports, edits

vars == <<group, ruleset, rules, updating, imports, edits>>

Row == [parent : Group \union {Root}, source : {"import", "manual"}, disabled : BOOLEAN]

(* dm_groups, dm_rulesets, and dm_rules with dm_actions. *)
GroupTable == [Group -> Row \union {Gone}]
RulesetTable == [Ruleset -> Row \union {Gone}]
RuleTable == [Ruleset -> SUBSET Rule]

(* A row's parent is there: the foreign keys see to it. *)
TypeOK ==
    /\ group \in GroupTable /\ ruleset \in RulesetTable
    /\ \A row \in (Range(group) \union Range(ruleset)) \ {Gone} : row.parent # Root => group[row.parent] # Gone
    /\ rules \in RuleTable
    /\ \A r \in Ruleset : ruleset[r] = Gone => rules[r] = {}
    /\ updating # None => updating.id \in Group \union Ruleset /\ updating.row \in Row
    /\ imports \in 0 .. MaxImports /\ edits \in 0 .. MaxEdits

Init ==
    /\ group = [g \in Group |-> Gone] /\ ruleset = [r \in Ruleset |-> Gone]
    /\ rules = [r \in Ruleset |-> {}] /\ updating = None
    /\ imports = 0 /\ edits = 0

(*************************** The tree ***************************************)

There(p) == p # Root => group[p] # Gone

(* The groups from p upwards, in a tree of the given groups. *)
Above(p, tree) ==
    LET closed(A) == p \in A \union {Root} /\ \A g \in A : tree[g] # Gone => tree[g].parent \in A \union {Root}
    IN  {g \in Group : \A A \in SUBSET Group : closed(A) => g \in A}

(* LoadRulesets, walkDMGroup: the rulesets that are evaluated; a group that
   hangs below itself is never come to. *)
LoadRulesets == {r \in Ruleset :
    /\ ruleset[r] # Gone /\ ~ruleset[r].disabled
    /\ \A g \in Above(ruleset[r].parent, group) : ~group[g].disabled
    /\ ruleset[r].parent = Root \/ \E g \in Above(ruleset[r].parent, group) : group[g].parent = Root}

(* ON DELETE CASCADE: what is left without the groups that are deleted. *)
GroupsWithout(deleted, tree) ==
    [g \in Group |-> IF tree[g] # Gone /\ Above(g, tree) \intersect deleted # {} THEN Gone ELSE tree[g]]
RulesetsWithout(deleted, tree, sets) ==
    [r \in Ruleset |-> IF sets[r] # Gone /\ Above(sets[r].parent, tree) \intersect deleted # {} THEN Gone ELSE sets[r]]
RulesOf(sets) == [r \in Ruleset |-> IF sets[r] = Gone THEN {} ELSE rules[r]]

(*************************** The editor *************************************)

Edited == edits < MaxEdits /\ edits' = edits + 1

(* An id that was never used. *)
Fresh(id) ==
    /\ \A row \in Range(group) \union Range(ruleset) : row # Gone => row.parent # id
    /\ updating # None => updating.id # id /\ updating.row.parent # id

MadeByHand(p) == [parent |-> p, source |-> "manual", disabled |-> FALSE]

(* handleDMGroupsCollection. *)
CreateGroup(g, p) ==
    /\ Edited /\ group[g] = Gone /\ Fresh(g) /\ There(p)
    /\ group' = [group EXCEPT ![g] = MadeByHand(p)]
    /\ UNCHANGED <<ruleset, rules, updating, imports>>

(* handleDMRulesetsCollection. *)
CreateRuleset(r, p) ==
    /\ Edited /\ ruleset[r] = Gone /\ Fresh(r) /\ There(p)
    /\ ruleset' = [ruleset EXCEPT ![r] = MadeByHand(p)]
    /\ UNCHANGED <<group, rules, updating, imports>>

(* handleDMGroupItem, PUT, handleDMGroupParent: a group is not put into itself,
   but may be put below what is in it. *)
ReadGroup(g, row) ==
    /\ Edited /\ updating = None /\ group[g] # Gone
    /\ \/ row = [group[g] EXCEPT !.disabled = ~@]
       \/ \E p \in (Group \ {g}) \union {Root} : There(p) /\ row = [group[g] EXCEPT !.parent = p]
    /\ updating' = [id |-> g, row |-> row]
    /\ UNCHANGED <<group, ruleset, rules, imports>>

(* handleDMRulesetItem, PUT, handleDMRulesetParent. *)
ReadRuleset(r, row) ==
    /\ Edited /\ updating = None /\ ruleset[r] # Gone
    /\ \/ row = [ruleset[r] EXCEPT !.disabled = ~@]
       \/ \E p \in Group \union {Root} : There(p) /\ row = [ruleset[r] EXCEPT !.parent = p]
    /\ updating' = [id |-> r, row |-> row]
    /\ UNCHANGED <<group, ruleset, rules, imports>>

(* UpdateDMGroup: a row that is gone is not written, and no row is written
   whose parent is gone. *)
WriteGroup ==
    /\ updating # None /\ updating.id \in Group
    /\ LET g == updating.id
           written == group[g] # Gone /\ There(updating.row.parent)
       IN  group' = IF written THEN [group EXCEPT ![g] = updating.row] ELSE group
    /\ updating' = None
    /\ UNCHANGED <<ruleset, rules, imports, edits>>

(* UpdateDMRuleset. *)
WriteRuleset ==
    /\ updating # None /\ updating.id \in Ruleset
    /\ LET r == updating.id
           written == ruleset[r] # Gone /\ There(updating.row.parent)
       IN  ruleset' = IF written THEN [ruleset EXCEPT ![r] = updating.row] ELSE ruleset
    /\ updating' = None
    /\ UNCHANGED <<group, rules, imports, edits>>

(* handleDMGroupItem, DELETE. *)
DeleteGroup(g) ==
    /\ Edited /\ group[g] # Gone
    /\ group' = GroupsWithout({g}, group)
    /\ ruleset' = RulesetsWithout({g}, group, ruleset)
    /\ rules' = RulesOf(ruleset')
    /\ UNCHANGED <<updating, imports>>

(* handleDMRulesetItem, DELETE. *)
DeleteRuleset(r) ==
    /\ Edited /\ ruleset[r] # Gone
    /\ ruleset' = [ruleset EXCEPT ![r] = Gone]
    /\ rules' = RulesOf(ruleset')
    /\ UNCHANGED <<group, updating, imports>>

(* handleDMRulesCollection, handleDMActionsCollection. *)
AddRule(r, x) ==
    /\ Edited /\ ruleset[r] # Gone /\ x \notin rules[r]
    /\ rules' = [rules EXCEPT ![r] = @ \union {x}]
    /\ UNCHANGED <<group, ruleset, updating, imports>>

(* handleDMRuleItem, handleDMActionItem: DELETE; PUT changes what a rule says. *)
DropRule(r, x) ==
    /\ Edited /\ x \in rules[r]
    /\ rules' = [rules EXCEPT ![r] = @ \ {x}]
    /\ UNCHANGED <<group, ruleset, updating, imports>>

(*************************** An import **************************************)

Imported(p) == p # Root /\ group[p].source = "import"
ImportedGroups == {g \in Group : group[g] # Gone /\ Imported(g)}

(* Fault: one group up is far enough. *)
OneUp(p) == IF Imported(p) THEN group[p].parent ELSE p

(* The loop of survivingAncestor: where it is after k steps, from p upwards. *)
Upwards(p) ==
    LET up[k \in 0 .. Cardinality(Group)] ==
            IF k = 0 THEN p ELSE IF Imported(up[k - 1]) THEN group[up[k - 1]].parent ELSE up[k - 1]
    IN  up

SurvivingAncestor(p) == Upwards(p)[Cardinality(Group)]

(* reparentManualDescendantsOfImportGroups. *)
Reparented(table) == [id \in DOMAIN table |->
    IF table[id] # Gone /\ table[id].source = "manual" /\ Imported(table[id].parent)
    THEN [table[id] EXCEPT !.parent = SurvivingAncestor(table[id].parent)] ELSE table[id]]

(* survivingAncestor returns: it goes round for ever where imported groups hang
   below each other. *)
Returns == \A row \in Range(group) \union Range(ruleset) :
    row # Gone /\ row.source = "manual" => ~Imported(Upwards(row.parent)[Cardinality(Group)])

(* The wipe of ImportDataManagerRules, and what it leaves. *)
KeptGroups == GroupsWithout(ImportedGroups, Reparented(group))
KeptRulesets ==
    LET sets == RulesetsWithout(ImportedGroups, Reparented(group), Reparented(ruleset))
    IN  [r \in Ruleset |-> IF sets[r] # Gone /\ sets[r].source = "import" THEN Gone ELSE sets[r]]

(* HasImportedDataManagerRules. *)
HasImported == ImportedGroups # {} \/ \E r \in Ruleset : ruleset[r] # Gone /\ ruleset[r].source = "import"

(* The rows of a file, under the ids that they were given. *)
Read(entries, ids, groupIds, table) == [id \in DOMAIN table |->
    IF \E i \in DOMAIN entries : ids[i] = id
    THEN LET entry == entries[CHOOSE i \in DOMAIN entries : ids[i] = id]
         IN  [parent |-> IF entry.parent = 0 THEN Root ELSE groupIds[entry.parent],
              source |-> "import", disabled |-> entry.disabled]
    ELSE table[id]]

(* The ids that an import gives to as many rows. *)
FreshIds(entries, table) ==
    Injection(DOMAIN entries, {id \in DOMAIN table : table[id] = Gone /\ Fresh(id)})

(* ImportDataManagerRules, in one transaction. *)
Import(file, wipe) ==
    LET groups == IF wipe THEN KeptGroups ELSE group
        sets == IF wipe THEN KeptRulesets ELSE ruleset
    IN  /\ imports < MaxImports /\ imports' = imports + 1
        /\ wipe \/ ~HasImported
        /\ wipe => Returns
        /\ \E gs \in FreshIds(file.groups, groups), rs \in FreshIds(file.rulesets, sets) :
              /\ group' = Read(file.groups, gs, gs, groups)
              /\ ruleset' = Read(file.rulesets, rs, gs, sets)
              /\ rules' = [r \in Ruleset |-> IF \E i \in DOMAIN rs : rs[i] = r THEN Rule ELSE RulesOf(sets)[r]]
        /\ UNCHANGED <<updating, edits>>

Next ==
    \/ \E g \in Group : \/ \E p \in Group \union {Root} : CreateGroup(g, p)
                        \/ \E row \in Row : ReadGroup(g, row)
                        \/ DeleteGroup(g)
    \/ \E r \in Ruleset : \/ \E p \in Group \union {Root} : CreateRuleset(r, p)
                          \/ \E row \in Row : ReadRuleset(r, row)
                          \/ DeleteRuleset(r)
                          \/ \E x \in Rule : AddRule(r, x) \/ DropRule(r, x)
    \/ WriteGroup \/ WriteRuleset
    \/ \E file \in RuleFile, wipe \in BOOLEAN : Import(file, wipe)

Spec == Init /\ [][Next]_vars

(*************************** Properties *************************************)

ManualAbove(r) == {g \in Above(ruleset[r].parent, group) : group[g].source = "manual"}

(* An import keeps every ruleset that was made in the editor, below the same groups
   made there, with its rules, and evaluated if it was, however deep it was put
   into imported groups and whatever rows were being edited.  Of rulesets that were
   imported nothing is said: what the editor changed in them goes. *)
KeepsManual == imports' # imports =>
    \A r \in Ruleset : ruleset[r] # Gone /\ ruleset[r].source = "manual" =>
        /\ ruleset'[r] # Gone /\ rules'[r] = rules[r]
        /\ ManualAbove(r)' = ManualAbove(r)
        /\ r \in LoadRulesets => r \in LoadRulesets'
ImportKeepsManual == [][KeepsManual]_vars
=============================================================================
