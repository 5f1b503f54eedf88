---------------------------- MODULE StructuralDiff ----------------------------
(***************************************************************************)
(* The structural diff engines (diff/markdown_diff.py, json_diff.py,       *)
(* python_ast_diff.py), the cues the semantic delta adds to a diff         *)
(* (semantic/stub.py, delta_engine.py), and the matching of both with the  *)
(* phrases of the contract (rde/authorization.py): pure operators from two *)
(* documents to what the classifier counts.                                *)
(*                                                                         *)
(* A document is what its engine extracts from the text:                   *)
(*   markdown: the sets of headings <<level, title>>, definitions          *)
(*     <<term, body>>, citations, numbers, dates, links and code blocks;   *)
(*   json: a function from paths, sequences of keys and indexes, to values;*)
(*   python: the import keys, the functions by <<class, name>> (class ""   *)
(*     at module level) with their signature and whether they handle       *)
(*     exceptions, and the bases of each class.                            *)
(* Names, titles and bodies are values that contain no phrase.             *)
(***************************************************************************)
EXTENDS Integers, Sequences, FiniteSets

CONSTANTS
  RequiredFields,   \* json: required_json_fields
  TestNames,        \* python: names that start with test_ or Test
  TestLike,         \* python: names with "test" in them
  PrivateNames      \* python: names that start with an underscore

ASSUME TestNamesAssumption == TestNames \subseteq TestLike

\* One entry of changed_nodes, added_nodes or deleted_nodes, at the tuple of names or keys
\* that tells it from others of its kind.
Node(op, kind, at) == [op |-> op, kind |-> kind, at |-> at]
Each(op, kind, S)  == {Node(op, kind, at) : at \in S}
Named(S)           == {<<x>> : x \in S}

-----------------------------------------------------------------------------
(* Markdown                                                                *)

NoText ==
  [headings |-> {}, definitions |-> {}, citations |-> {}, numbers |-> {},
   dates |-> {}, links |-> {}, codes |-> {}]

\* What the regular expressions find in a fragment of text.  A link is a citation too; a
\* numeric marker, and what follows the year of a date, are numbers too.
Heading(level, title) == [NoText EXCEPT !.headings = {<<level, title>>}]
Definition(term, body) == [NoText EXCEPT !.definitions = {<<term, body>>}]
Link(l)               == [NoText EXCEPT !.links = {l}, !.citations = {l}]
Marker(n)             == [NoText EXCEPT !.citations = {n}, !.numbers = {n}]
Number(n)             == [NoText EXCEPT !.numbers = {n}]
Date(d, rest)         == [NoText EXCEPT !.dates = {d}, !.numbers = rest]
CodeBlock(body)       == [NoText EXCEPT !.codes = {body}]

\* The text of several fragments: order and repetition are lost.
Text(fragments) ==
  [headings |-> UNION {x.headings : x \in fragments},
   definitions |-> UNION {x.definitions : x \in fragments},
   citations |-> UNION {x.citations : x \in fragments},
   numbers |-> UNION {x.numbers : x \in fragments},
   dates |-> UNION {x.dates : x \in fragments},
   links |-> UNION {x.links : x \in fragments},
   codes |-> UNION {x.codes : x \in fragments}]

Terms(doc) == {d[1] : d \in doc.definitions}

DefinitionNodes(a, b) ==
  LET lost   == a.definitions \ b.definitions
      gained == b.definitions \ a.definitions
  IN  Each("changed", "definition", {d \in lost : d[1] \in Terms(b)})
        \cup Each("deleted", "definition", {d \in lost : d[1] \notin Terms(b)})
        \cup Each("added", "definition", {d \in gained : d[1] \notin Terms(a)})

\* Mutant: a number is missed only when no number is left.
NumberNodesByPresence(a, b) ==
  IF b.numbers = {} THEN Each("removed", "number", Named(a.numbers)) ELSE {}

\* Numbers are changed nodes whether they went or came; a date or a link that came is none.
NumberNodes(a, b) ==
  Each("removed", "number", Named(a.numbers \ b.numbers))
    \cup Each("appeared", "number", Named(b.numbers \ a.numbers))

HeadingNodes(a, b) ==
  Each("deleted", "heading", a.headings \ b.headings)
    \cup Each("added", "heading", b.headings \ a.headings)
CitationNodes(a, b) ==
  Each("deleted", "citation", Named(a.citations \ b.citations))
    \cup Each("added", "citation", Named(b.citations \ a.citations))
DateNodes(a, b) == Each("removed", "date", Named(a.dates \ b.dates))
LinkNodes(a, b) == Each("deleted", "link", Named(a.links \ b.links))
CodeNodes(a, b) ==
  Each("deleted", "code_block", Named(a.codes \ b.codes))
    \cup Each("added", "code_block", Named(b.codes \ a.codes))

MarkdownNodes(a, b) ==
  HeadingNodes(a, b) \cup DefinitionNodes(a, b) \cup CitationNodes(a, b) \cup NumberNodes(a, b)
    \cup DateNodes(a, b) \cup LinkNodes(a, b) \cup CodeNodes(a, b)

-----------------------------------------------------------------------------
(* JSON                                                                    *)

Value(type, value) == [type |-> type, value |-> value]

\* Every Python number compares with every other: a boolean is an int, so true is 1.
Numeric == {"boolean", "integer", "number"}

\* Mutant: numbers that differ by rounding are taken for equal.
SameValueRounded(x, y) ==
  IF x.type \in Numeric THEN x.value - y.value \in -1 .. 1 ELSE x.value = y.value

SameValue(x, y)  == x.value = y.value
Comparable(x, y) == x.type = y.type \/ {x.type, y.type} \subseteq Numeric

Parent(p)   == SubSeq(p, 1, Len(p) - 1)
Prefixes(p) == {SubSeq(p, 1, n) : n \in 0 .. Len(p) - 1}

\* The paths the recursion visits in both documents: it descends where the types agree.
Visited(a, b) ==
  {p \in DOMAIN a \cap DOMAIN b : \A q \in Prefixes(p) : a[q].type = b[q].type}

\* The paths of a where b, visited, has no such key or index.
Missing(a, b) ==
  {p \in DOMAIN a \ DOMAIN b : Parent(p) \in Visited(a, b) /\ a[Parent(p)].type = b[Parent(p)].type}

Members(a, paths, type) == {p \in paths : a[Parent(p)].type = type}

\* The description of a type change names both types, and one of them may be "number".
TypeNodes(a, b) ==
  LET changed == {p \in Visited(a, b) : ~Comparable(a[p], b[p])}
      named   == {p \in changed : "number" \in {a[p].type, b[p].type}}
  IN  Each("changed", "type_change", changed \ named)
        \cup Each("changed", "number_type_change", named)
ValueNodes(a, b) ==
  Each("changed", "value_change",
       {p \in Visited(a, b) : /\ a[p].type \notin {"object", "array"}
                              /\ Comparable(a[p], b[p]) /\ ~SameValue(a[p], b[p])})
KeyNodes(a, b) ==
  Each("deleted", "key_deletion", Members(a, Missing(a, b), "object"))
    \cup Each("added", "key_addition", Members(b, Missing(b, a), "object"))
ItemNodes(a, b) ==
  Each("deleted", "array_item_deletion", Members(a, Missing(a, b), "array"))
    \cup Each("added", "array_item_addition", Members(b, Missing(b, a), "array"))

JsonNodes(a, b) ==
  TypeNodes(a, b) \cup ValueNodes(a, b) \cup KeyNodes(a, b) \cup ItemNodes(a, b)

\* Only fields of the top-level object can be required.
RequiredDeletion(n) == n.kind = "key_deletion" /\ Len(n.at) = 1 /\ n.at[1] \in RequiredFields

-----------------------------------------------------------------------------
(* Python                                                                  *)

Functions(doc)     == DOMAIN doc.functions
Classes(doc)       == DOMAIN doc.classes
Signatured(a, b)   == {f \in Functions(a) \cap Functions(b) : a.functions[f].sig # b.functions[f].sig}

ImportNodes(a, b) ==
  Each("deleted", "import", Named(a.imports \ b.imports))
    \cup Each("added", "import", Named(b.imports \ a.imports))
FunctionNodes(a, b) ==
  Each("deleted", "function", Functions(a) \ Functions(b))
    \cup Each("added", "function", Functions(b) \ Functions(a))
    \cup Each("changed", "function_signature", Signatured(a, b))
    \cup Each("changed", "exception_handling",
              {f \in Functions(a) \cap Functions(b) :
                 a.functions[f].handles /\ ~b.functions[f].handles})

\* A method of a surviving class gets a node of its own besides its function's.
ClassNodes(a, b) ==
  LET both == Classes(a) \cap Classes(b)
  IN  Each("deleted", "class", Named(Classes(a) \ Classes(b)))
        \cup Each("added", "class", Named(Classes(b) \ Classes(a)))
        \cup Each("changed", "class_bases", Named({c \in both : a.classes[c] # b.classes[c]}))
        \cup Each("deleted", "method", {f \in Functions(a) \ Functions(b) : f[1] \in both})

PythonNodes(a, b) == ImportNodes(a, b) \cup FunctionNodes(a, b) \cup ClassNodes(a, b)

InTestPath(n) == \E i \in DOMAIN n.at : n.at[i] \in TestLike

-----------------------------------------------------------------------------
(* All three                                                               *)

Nodes(a, b) ==
  CASE a.domain = "markdown" -> MarkdownNodes(a.content, b.content)
    [] a.domain = "json"     -> JsonNodes(a.content, b.content)
    [] a.domain = "python"   -> PythonNodes(a.content, b.content)

\* If the contract protects this element, such a node is a protected change with that hint.
Guard(op, kind, element, hint) == [op |-> op, kind |-> kind, element |-> element, hint |-> hint]

MarkdownGuards ==
  { Guard("deleted", "heading", "headings", "high"),
    Guard("changed", "definition", "definitions", "high"),
    Guard("deleted", "definition", "definitions", "critical"),
    Guard("deleted", "citation", "citations", "critical"),
    Guard("removed", "number", "numbers", "high"),
    Guard("removed", "date", "dates", "high"),
    Guard("deleted", "link", "references", "high") }
JsonGuards ==
  { Guard("changed", "type_change", "types", "high"),
    Guard("changed", "number_type_change", "types", "high"),
    Guard("deleted", "key_deletion", "schema_keys", "high"),
    Guard("deleted", "key_deletion", "required_fields", "critical") }
PythonGuards ==
  { Guard("deleted", "import", "imports", "high"),
    Guard("deleted", "function", "tests", "high"),
    Guard("deleted", "function", "public_api", "high"),
    Guard("deleted", "method", "public_api", "high"),
    Guard("changed", "function_signature", "function_signatures", "high") }

Guards == MarkdownGuards \cup JsonGuards \cup PythonGuards

\* A method is no public function, but may be a public method, and a test.
Concerns(g, n) ==
  /\ g.op = n.op /\ g.kind = n.kind
  /\ g.element = "required_fields" => RequiredDeletion(n)
  /\ g.element = "tests" => n.at[2] \in TestNames
  /\ g.element = "public_api" =>
       n.at[2] \notin PrivateNames /\ (n.kind = "function" => n.at[1] = "")

\* protected_element_changes
ProtectedChanges(nodes, protected) ==
  {[node |-> x[1], element |-> x[2].element, hint |-> x[2].hint] :
     x \in {y \in nodes \X Guards : y[2].element \in protected /\ Concerns(y[2], y[1])}}

Hinted(changes, hint) == {pc \in changes : pc.hint = hint}

\* self_report_mismatches: a changed element that is claimed unchanged.  JSON takes a claim
\* about the schema for one about every element.
Misreported(domain, changes, reported) ==
  {pc \in changes : \/ pc.element \in reported
                    \/ domain = "json" /\ reported \cap {"schema", "schema_keys"} # {}}

\* Besides, a claim is compared with the nodes, protected or not: a mismatch for all
\* deleted citations, one for all numbers that went or came, one for each signature.
CitationsMisreported(domain, nodes, reported) ==
  /\ domain = "markdown" /\ reported \cap {"citations", "citation"} # {}
  /\ \E n \in nodes : n.kind = "citation" /\ n.op = "deleted"

\* Mutant: only a number that went belies the claim.
NumbersMisreportedRemoved(domain, nodes, reported) ==
  /\ domain = "markdown" /\ reported \cap {"numbers", "number"} # {}
  /\ \E n \in nodes : n.kind = "number" /\ n.op = "removed"

NumbersMisreported(domain, nodes, reported) ==
  /\ domain = "markdown" /\ reported \cap {"numbers", "number"} # {}
  /\ \E n \in nodes : n.kind = "number"

SignaturesMisreported(domain, nodes, reported) ==
  {n \in nodes : /\ domain = "python" /\ n.kind = "function_signature"
                 /\ reported \cap {"function_signatures", "function signatures"} # {}}

-----------------------------------------------------------------------------
(* semantic/stub.py, semantic/delta_engine.py                              *)

\* A signal for the phrases of the contract: a node, a protected change of an element, a
\* schema violation, or a path in one of the lists of the semantic delta.
Signal(label, n, element) == [label |-> label, node |-> n, element |-> element]
Cue(list, n) == Signal(list, n, "none")

\* The paths of the semantic delta that are not the path of one node: all numbers share
\* one, and so do all citations, all links, and all definitions of a term.
SharedCues(nodes) ==
  {Cue("numbers", Node("shared", "number", <<>>)) : n \in {x \in nodes : x.kind = "number"}}
    \cup {Cue("references", Node("shared", n.kind, <<>>)) :
            n \in {x \in nodes : x.kind \in {"citation", "link"} /\ x.op = "deleted"}}
    \cup {Cue("definitions", Node("shared", "definition", <<n.at[1]>>)) :
            n \in {x \in nodes : x.kind = "definition" /\ x.op = "changed"}}

NodeCues(nodes) ==
  {Cue("claims", n) : n \in {x \in nodes : x.kind = "heading" /\ x.op = "deleted"}}
    \cup {Cue("constraints", n) : n \in {x \in nodes : x.kind = "function_signature"}}
    \cup {Cue("safety", n) :
            n \in {x \in nodes : /\ x.kind \in {"import", "function", "class", "method"}
                                 /\ x.op = "deleted" /\ InTestPath(x)}}

SchemaCues(nodes, changes) ==
  {Cue(list, n) : list \in {"constraints", "safety"}, n \in {x \in nodes : RequiredDeletion(x)}}
    \cup {Signal("constraints", pc.node, pc.element) :
            pc \in {x \in changes : x.element \in {"required_fields", "schema_keys"}}}

-----------------------------------------------------------------------------
(* rde/authorization.py                                                    *)

\* The signals whose text contains the phrase or one of the synonyms it has in the list it
\* stands in.  No text reads "signature changed": it reads "Function signature of 'f' changed."
Says(s, phrase, list) ==
  CASE phrase = "error handling" ->
         list = "allowed" /\ s.label = "node" /\ s.node.kind = "exception_handling"
    [] phrase = "numeric change" ->
         list = "forbidden" /\ s.label = "node" /\ s.node.kind = "value_change"
    [] phrase = "value changed" -> s.label = "node" /\ s.node.kind = "value_change"
    [] phrase = "number"        -> s.node.kind \in {"number", "number_type_change"}
    [] phrase = "heading"       -> s.node.kind = "heading"
    [] phrase = "code block"    -> s.node.kind = "code_block"
    [] phrase = "class"         -> s.node.kind \in {"class", "class_bases", "method"}
    [] phrase = "added"         -> s.label = "node" /\ s.node.op \in {"added", "appeared"}
    [] phrase = "deleted"       ->
         \/ s.label \in {"node", "protected", "violation"} /\ s.node.op = "deleted"
         \/ s.label = "safety" /\ s.node.kind = "key_deletion"
    [] phrase \in {"sentence restructuring", "redundancy removal", "citation removal",
                   "function signature change"} -> FALSE

\* _collect_signals
Signals(nodes, changes) ==
  {Cue("node", n) : n \in nodes}
    \cup {Signal("protected", pc.node, pc.element) : pc \in changes}
    \cup {Cue("violation", n) : n \in {x \in nodes : RequiredDeletion(x)}}
    \cup SharedCues(nodes) \cup NodeCues(nodes) \cup SchemaCues(nodes, changes)

HitsForbidden(s, c) == \E phrase \in c.forbidden : Says(s, phrase, "forbidden")

\* A phrase that is forbidden is seen before one that is allowed, and a protected change is
\* never allowed.
Matched(s, c) ==
  /\ ~HitsForbidden(s, c) /\ s.label # "protected"
  /\ \E phrase \in c.allowed : Says(s, phrase, "allowed")

Count(b) == IF b THEN 1 ELSE 0

\* The counts of ChangeEvaluation's diffs, of the nodes that tell two documents of a domain
\* apart.
CountsOf(domain, nodes, c, reported) ==
  LET changes   == ProtectedChanges(nodes, c.protected)
      signals   == Signals(nodes, changes)
      forbidden == {s \in signals : HitsForbidden(s, c)}
      matched   == {s \in signals : Matched(s, c)}
      citations == Count(CitationsMisreported(domain, nodes, reported))
  IN  [nodes     |-> Cardinality(nodes),
       allowed   |-> Cardinality(matched),
       other     |-> Cardinality(signals \ (forbidden \cup matched)),
       forbidden |-> Cardinality(forbidden),
       critical  |-> Cardinality(Hinted(changes, "critical")),
       high      |-> Cardinality(Hinted(changes, "high")),
       lesser    |-> 0,
       schema    |-> Cardinality({n \in nodes : RequiredDeletion(n)}),
       mismatches |->
         Cardinality(Misreported(domain, changes, reported))
           + Cardinality(SignaturesMisreported(domain, nodes, reported))
           + Count(NumbersMisreported(domain, nodes, reported)) + citations,
       criticalMismatches |-> citations]
================================================================================
