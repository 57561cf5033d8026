------------------------------- MODULE ConfFile -------------------------------
(***************************************************************************)
(* The configuration (confile.c): a search tree of sections, each a search *)
(* tree of keys.  A tree maps positions, paths of "left" and "right" from  *)
(* the root, to its nodes.  A node is inserted by comparing the first      *)
(* characters of the keys (memcmp over the length of the new one) and      *)
(* found by comparing all of them (strcmp).                                *)
(***************************************************************************)
EXTENDS Integers, SequencesExt

CONSTANTS
    Section,     \* names of sections, sequences of characters
    Default,     \* the section every configuration has
    Key,         \* keys, sequences of characters
    Value,       \* values
    NoValue,     \* a default the callers of the get functions tell from values
    MaxLines     \* bound: lines read and values set

ASSUME ConfFileAssumption ==
    /\ Default \in Section
    /\ Section \cup Key \subseteq Seq(Nat)
    /\ NoValue \notin Value /\ MaxLines \in Nat

VARIABLES
    config,      \* the tree of sections
    parsing,     \* is the file still being read?
    current,     \* section_name of the parser
    log          \* history: the lines read and the values set

confVars == <<config, parsing, current, log>>

\* A line of the file that is neither empty nor a comment, or a value set.
Line == [kind : {"section"}, section : Section]
        \cup [kind : {"value"}, section : Section, key : Key, value : Value]
-----------------------------------------------------------------------------
\* The order of characters, of the same length or not.
Less(a, b) ==
    \/ Len(a) < Len(b) /\ IsPrefix(a, b)
    \/ \E i \in 1..Len(a) : /\ i <= Len(b) /\ a[i] < b[i]
                            /\ \A j \in 1..(i - 1) : a[j] = b[j]

\* strcmp(key, at) as the way the search goes.
StrCmp(key, at) ==
    IF key = at THEN "here" ELSE IF Less(key, at) THEN "left" ELSE "right"

\* Mutant: only the first characters are compared.
MemCmpFirst(key, at) ==
    CASE key[1] = at[1] -> "here" [] key[1] < at[1] -> "left" [] OTHER -> "right"

\* memcmp(key, at, strlen(key)): also 0 if the key is only a prefix.
MemCmp(key, at) ==
    IF IsPrefix(key, at) THEN "here" ELSE IF Less(key, at) THEN "left" ELSE "right"

\* The positions of nodes and those where one can be added.
Slots(tree) ==
    {<<>>} \cup DOMAIN tree
           \cup {Append(p, way) : p \in DOMAIN tree, way \in {"left", "right"}}

\* Where a search that goes ways[p] at the node p ends: at a node, or where
\* there is none.
Place(tree, ways) ==
    CHOOSE p \in Slots(tree) :
        /\ \A i \in 1..Len(p) : ways[SubSeq(p, 1, i - 1)] = p[i]
        /\ p \in DOMAIN tree => ways[p] = "here"

\* The search by config_btree_find_node.
Found(tree, key) == Place(tree, [p \in DOMAIN tree |-> StrCmp(key, tree[p].key)])

\* config_btree_insert_node: the node takes the free place, or the place and
\* the children of the one found there.
InsertNode(tree, key, data) ==
    LET p == Place(tree, [q \in DOMAIN tree |-> MemCmp(key, tree[q].key)])
    IN  [q \in DOMAIN tree \cup {p} |->
            IF q = p THEN [key |-> key, data |-> data] ELSE tree[q]]

\* config_btree_find_node, as the set of the data found.
FindNode(tree, key) ==
    LET p == Found(tree, key)
    IN  IF p \in DOMAIN tree THEN {tree[p].data} ELSE {}

\* config_btree_insert_section: always a new tree.
InsertSection(cfg, section) == InsertNode(cfg, section, <<>>)

\* config_btree_insert_section_node, for a section that was found.
InsertSectionNode(cfg, section, key, value) ==
    [cfg EXCEPT ![Found(cfg, section)].data = InsertNode(@, key, value)]

\* ini_config_get_string and ini_config_get_int.
GetString(cfg, section, key, default) ==
    LET found == UNION {FindNode(tree, key) : tree \in FindNode(cfg, section)}
    IN  IF found = {} THEN default ELSE CHOOSE v \in found : TRUE
-----------------------------------------------------------------------------
\* The parser's actions for one line.  A value whose section is not found would
\* end the parsing with an error; there is no such value, since the section it
\* is in was inserted last.
ParseLine(cfg, line) ==
    CASE line.kind = "section" -> InsertSection(cfg, line.section)
      [] line.kind = "value" /\ FindNode(cfg, line.section) # {} ->
            InsertSectionNode(cfg, line.section, line.key, line.value)

\* ini_config_create_from_string before the first line.
NewConfig == InsertSection(<<>>, Default)

\* ini_config_create_from_string.
CreateFromString(lines) ==
    LET parsed[n \in 0..Len(lines)] ==
            IF n = 0 THEN NewConfig ELSE ParseLine(parsed[n - 1], lines[n])
    IN  parsed[Len(lines)]

\* Mutant: a node is visited after its children.
TraversePostorder(tree, written) ==
    LET visit[p \in Slots(tree)] ==
            IF p \in DOMAIN tree
            THEN visit[Append(p, "left")] \o visit[Append(p, "right")] \o written[p]
            ELSE <<>>
    IN  visit[<<>>]

\* config_btree_inorder_save_traverse, whose callback writes the lines
\* written[p] for the node p.
Traverse(tree, written) ==
    LET visit[p \in Slots(tree)] ==
            IF p \in DOMAIN tree
            THEN visit[Append(p, "left")] \o written[p] \o visit[Append(p, "right")]
            ELSE <<>>
    IN  visit[<<>>]

\* The lines ini_config_save_traverse_section writes for a section, and
\* ini_config_save for all of them.
SavedSection(node) ==
    <<[kind |-> "section", section |-> node.key]>>
    \o Traverse(node.data, [p \in DOMAIN node.data |->
          <<[kind |-> "value", section |-> node.key,
             key |-> node.data[p].key, value |-> node.data[p].data]>>])

Save(cfg) == Traverse(cfg, [p \in DOMAIN cfg |-> SavedSection(cfg[p])])
-----------------------------------------------------------------------------
ConfInit ==
    /\ config = NewConfig /\ parsing = TRUE /\ current = Default /\ log = <<>>

\* A section begins: parser_on_section_end.
OnSectionEnd(s) ==
    /\ parsing /\ Len(log) < MaxLines
    /\ config' = ParseLine(config, [kind |-> "section", section |-> s])
    /\ current' = s
    /\ log' = Append(log, [kind |-> "section", section |-> s])
    /\ UNCHANGED parsing

\* The end of a line with a value: parser_on_new_line.
OnNewLine(k, v) ==
    LET line == [kind |-> "value", section |-> current, key |-> k, value |-> v]
    IN  /\ parsing /\ Len(log) < MaxLines
        /\ config' = ParseLine(config, line)
        /\ log' = Append(log, line)
        /\ UNCHANGED <<parsing, current>>

\* The end of the file.
EndOfFile ==
    /\ parsing
    /\ parsing' = FALSE
    /\ UNCHANGED <<config, current, log>>

\* ini_config_set_string, which makes the section if there is none.
SetString(s, k, v) ==
    LET line == [kind |-> "value", section |-> s, key |-> k, value |-> v]
        new == FindNode(config, s) = {}
    IN  /\ ~parsing /\ Len(log) + (IF new THEN 2 ELSE 1) <= MaxLines
        /\ config' = ParseLine(IF new THEN InsertSection(config, s) ELSE config, line)
        /\ log' = IF new THEN log \o <<[kind |-> "section", section |-> s], line>>
                         ELSE Append(log, line)
        /\ UNCHANGED <<parsing, current>>

ConfNext ==
    \/ \E s \in Section : OnSectionEnd(s)
    \/ \E k \in Key, v \in Value : OnNewLine(k, v)
    \/ EndOfFile
    \/ \E s \in Section, k \in Key, v \in Value : SetString(s, k, v)
-----------------------------------------------------------------------------
\* The line of the log that gave the key its last value, or 0.
LastValue(s, k) ==
    LET given == {i \in DOMAIN log : log[i].kind = "value" /\ log[i].section = s
                                     /\ log[i].key = k}
    IN  Max(given \cup {0})

\* A later line put a section of the same name, or one that this name begins
\* with, or a key this key begins with, into the tree.
Displaced(s, k, i) ==
    \E j \in (i + 1)..Len(log) :
        \/ log[j].kind = "section" /\ IsPrefix(log[j].section, s)
        \/ log[j].kind = "value" /\ log[j].section = s /\ IsStrictPrefix(log[j].key, k)

\* A get function returns the last value given to exactly this key, never that
\* of another; it returns the default only for keys that were given none or
\* were displaced, although the tree is searched with another order than it is
\* built with (config_btree_insert_node, config_btree_find_node).
ReadsBack ==
    \A s \in Section, k \in Key :
        LET i == LastValue(s, k)
            v == GetString(config, s, k, NoValue)
        IN  \/ i > 0 /\ v = log[i].value
            \/ v = NoValue /\ (i = 0 \/ Displaced(s, k, i))

\* A configuration that is saved and read again has every value that could be
\* read before: the order of the traversal never displaces one
\* (ini_config_save, ini_config_create_from_file).
SavedReadsBack ==
    LET again == CreateFromString(Save(config))
    IN  \A s \in Section, k \in Key :
            LET v == GetString(config, s, k, NoValue)
            IN  v # NoValue => GetString(again, s, k, NoValue) = v
=============================================================================
