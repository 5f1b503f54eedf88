--------------------------- MODULE MCDocumentChain ---------------------------
(* Small instances of DocumentChain.                                        *)
EXTENDS DocumentChain, TLC

Markdown(fragments) == [domain |-> "markdown", content |-> Text(fragments)]

\* A paper: a numeral that drifts, a citation, a link, a date, a definition, a code block.
Paper == {Heading("1", "title"), Number("5"), Marker("1"), Link("l"), Definition("t", "x"),
          CodeBlock("c")}
MarkdownDocuments ==
  { Markdown(Paper),
    Markdown(Paper \cup {Date("d", {"5", "6"}), Heading("2", "new")}),
    Markdown((Paper \ {Number("5"), Definition("t", "x"), CodeBlock("c")}) \cup {Number("6")}),
    Markdown({Number("5"), Definition("t", "y")}) }

Json(content) == [domain |-> "json", content |-> content]
Root    == <<>> :> Value("object", "none")
A(v)    == <<"a">> :> v
B(v)    == <<"b">> :> v
BC      == <<"b", "c">> :> Value("string", "s")
List    == <<"l">> :> Value("array", "none")
Item(i) == <<"l", ToString(i)>> :> Value("integer", i)
Null    == <<"n">> :> Value("null", "none")
Object  == Value("object", "none")
One     == Value("integer", 1)

\* An object with a required number, a nested object and an array.
Sample == Root @@ A(One) @@ B(Object) @@ BC @@ List @@ Item(0)
JsonDocuments ==
  { Json(Sample),
    Json(A(Value("boolean", 1)) @@ Root @@ List @@ Item(0)),
    Json(A(Value("number", 2)) @@ Sample @@ Item(1)),
    Json(A(Value("integer", 3)) @@ Root @@ B(Value("string", "s")) @@ List @@ Item(0)),
    Json(A(Value("string", "one")) @@ Sample @@ Item(1) @@ Null),
    Json(Root @@ B(Object) @@ BC @@ Null) }

Python(imports, functions, classes) ==
  [domain |-> "python",
   content |-> [imports |-> imports, functions |-> functions, classes |-> classes]]
Def(class, name, sig, handles) == <<class, name>> :> [sig |-> sig, handles |-> handles]
Method == Def("C", "m", "self", FALSE)
Test   == Def("", "test_f", "none", FALSE)
F      == Def("", "f", "x", TRUE)
Class  == "C" :> "none"

\* A function that handles an exception, its test, a class with a method.
PythonDocuments ==
  { Python({"os"}, F @@ Test @@ Method, Class),
    Python({"os"}, Def("", "f", "x, y", FALSE) @@ Test @@ Method, Class),
    Python({"os"}, Def("", "f", "x, y", TRUE) @@ Def("", "_h", "none", FALSE) @@ Test, <<>>),
    Python({"os", "re"}, Def("", "f", "x", FALSE) @@ Method, "C" :> "base"),
    Python({}, Test, Class) }

\* The first version of each domain.
MCOriginals ==
  {Markdown(Paper), Json(Sample), Python({"os"}, F @@ Test @@ Method, Class)}
MCDocuments == MarkdownDocuments \cup JsonDocuments \cup PythonDocuments

\* Nothing, and everything a generator may claim, each element in its domain.
MCClaims == {{}, {"numbers", "citations", "schema", "function signatures"}}

Review(drift) ==
  [preserved |-> "approve", authorized_deviation |-> "approve_with_notes",
   suspicious_drift |-> drift]
Contract(mode, protected, allowed, forbidden) ==
  [mode |-> mode, allows |-> allowed # {},
   review |-> Review(IF mode = "refactor" THEN "request_revision" ELSE "human_review"),
   protected |-> protected, allowed |-> allowed, forbidden |-> forbidden]

\* Everything protected; the elements the documents' drift is about; types and signatures
\* alone, so that what has them may be deleted and added again; keys and names alone, so
\* that what stands there may be turned.  The last two protect nothing of a text.
MCContracts ==
  { Contract("preservation",
      {"headings", "definitions", "citations", "numbers", "dates", "references", "types",
       "schema_keys", "required_fields", "imports", "tests", "public_api",
       "function_signatures"},
      {"added", "code block", "class", "error handling", "value changed"},
      {"citation removal"}),
    Contract("refactor", {"numbers", "tests", "types", "schema_keys"},
      {"heading", "error handling", "deleted", "added"}, {"numeric change"}),
    Contract("research", {"types", "function_signatures"}, {"deleted", "added"}, {}),
    Contract("creative", {"schema_keys", "public_api"},
      {"number", "code block", "error handling", "class", "value changed", "deleted"}, {}) }

\* The contract of tests/unit/test_allowed_delta_matching.py.
ForbiddingContracts ==
  {Contract("preservation", {}, {"error handling"}, {"function signature change"})}

MCContexts ==
  { [trust |-> 500, stability |-> 500, threshold |-> 0, reliability |-> NoScore,
     fragility |-> NoScore] }
MCInstitutions == {[pop |-> "unused", rules |-> <<>>, action |-> "write", kind |-> "none"]}

ChainDiffs == {p.counts : p \in Proposals}
==============================================================================
