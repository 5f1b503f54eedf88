----------------------------- MODULE DocumentChain -----------------------------
(***************************************************************************)
(* A document under a chain of generated changes, as the long-chain tests  *)
(* drive it (tests/long_chain): each proposal is diffed against the        *)
(* present version, stepwise, and takes its place when its outcome is      *)
(* "applied", or when a human who looks at a pending one lets it pass.     *)
(* Every step of the chain is a step of ChangeEvaluation on the counts the *)
(* diff engines and the phrase matching give (StructuralDiff).             *)
(***************************************************************************)
EXTENDS ChangeEvaluation, StructuralDiff

CONSTANTS
  Documents,   \* versions, with their domain
  Originals,   \* the versions a chain begins with
  Claims       \* sets of elements a generator may report as unchanged

ASSUME OriginalsAssumption == Originals \subseteq Documents
ASSUME NoClaimAssumption == {} \in Claims

\* The domains that have an engine.  The paths of a JSON text are those of a tree, in which
\* objects and arrays have members; the methods of a program are those of its classes.
ASSUME DocumentsAssumption ==
  \A doc \in Documents :
    /\ doc.domain \in {"markdown", "json", "python"}
    /\ doc.domain = "json" =>
         /\ <<>> \in DOMAIN doc.content
         /\ \A p \in DOMAIN doc.content :
              /\ p \in Seq(STRING) /\ Prefixes(p) \subseteq DOMAIN doc.content
              /\ \A q \in Prefixes(p) : doc.content[q].type \in {"object", "array"}
    /\ doc.domain = "python" =>
         \A f \in Functions(doc.content) : f[1] # "" => f[1] \in Classes(doc.content)

\* The diffs between texts of a domain, which is that of the engine, and what is counted in
\* them under a contract, for what the generator claims.
StructuralDiffs ==
  {[from |-> x[1], to |-> x[2], nodes |-> Nodes(x[1], x[2])] :
     x \in {y \in Documents \X Documents : y[1].domain = y[2].domain}}
Proposals ==
  {[from |-> d.from, to |-> d.to, contract |-> c, claims |-> reported,
    counts |-> CountsOf(d.from.domain, d.nodes, c, reported)] :
     d \in StructuralDiffs, c \in Contracts, reported \in Claims}

ASSUME ProposalsAssumption == \A p \in Proposals : p.counts \in Diffs

\* The engines go through a text that has an end.
ASSUME FiniteAssumption == \A d \in StructuralDiffs : IsFiniteSet(d.nodes)

VARIABLES
  original,   \* the version the chain began with
  current,    \* the version in place
  base,       \* the version the last proposal was diffed against
  proposed,   \* the last proposal
  claims,     \* what its generator reported unchanged
  reviewed,   \* a human has let a change pass
  told        \* the nodes that the diffs of accepted changes told of

documents == <<original, current, base, proposed, claims, reviewed, told>>
chainVars == <<vars, documents>>

-----------------------------------------------------------------------------
\* The place of a node, coarser than the node: what it happened to.
Place(n) ==
  CASE n.kind = "definition"                                          -> <<"term", n.at[1]>>
    [] n.kind \in {"function", "function_signature", "exception_handling", "method"}
                                                                      -> <<"function", n.at>>
    [] n.kind \in {"class", "class_bases"}                            -> <<"class", n.at>>
    [] n.kind \in {"heading", "citation", "number", "date", "link", "code_block", "import"}
                                                                      -> <<n.kind, n.at>>
    [] OTHER                                                          -> <<"path", n.at>>

Places(nodes) == {Place(n) : n \in nodes}

\* A place is told of with anything that happened to a path above it.
ToldOf(place, places) ==
  \/ place \in places
  \/ /\ place[1] = "path"
     /\ \E q \in Prefixes(place[2]) : <<"path", q>> \in places

ChainInit ==
  /\ Init
  /\ original \in Originals
  /\ current = original /\ base = original /\ proposed = original
  /\ claims = {} /\ reviewed = FALSE /\ told = {}
  /\ diff.nodes = 0

\* What a generator may make of the present version under the flow's contract.
Offered == {p \in Proposals : p.from = current /\ p.contract = contract}

\* run_phase1_evaluation with the present version as the original.
Proposal(p) ==
  /\ base' = current /\ proposed' = p.to /\ claims' = p.claims
  /\ UNCHANGED <<original, current, reviewed, told>>

Propose(p, h, log) == Proposal(p) /\ Evaluate(p.counts, h, log)

\* An evaluation that raises: a text that does not parse, or the audit log.
ProposeFails(p, h, log) == Proposal(p) /\ EvaluateFails(p.counts, h, log)

\* The proposal takes the place of the version it was diffed against.
Accept ==
  /\ current' = proposed
  /\ told' = told \cup Nodes(base, proposed)
  /\ UNCHANGED <<original, base, proposed, claims>>

\* apply_or_halt, and the caller who follows it.
Settle ==
  /\ Apply
  /\ IF outcome' = "applied"
       THEN Accept /\ reviewed' = reviewed
       ELSE UNCHANGED documents

\* A human lets a pending change pass.
LetPass ==
  /\ outcome = "pending_review" /\ current = base /\ proposed # base
  /\ Accept /\ reviewed' = TRUE
  /\ UNCHANGED vars

ChainNext ==
  \/ \E p \in Offered, h \in Contexts, log \in BOOLEAN :
       Propose(p, h, log) \/ ProposeFails(p, h, log)
  \/ Settle
  \/ LetPass

ChainSpec == ChainInit /\ [][ChainNext]_chainVars

-----------------------------------------------------------------------------
ChainTypeOK ==
  /\ TypeOK
  /\ {original, current, base, proposed} \subseteq Documents
  /\ claims \in Claims
  /\ reviewed \in BOOLEAN

(* What a contract keeps, whichever of the elements it protects.  What     *)
(* stands in something that was openly deleted, where that is allowed, may *)
(* be gone with it, and what is put there later is new.                    *)

KeepsText(x, y, protected) ==
  /\ "headings" \in protected    => x.headings \subseteq y.headings
  /\ "definitions" \in protected => x.definitions \subseteq y.definitions
  /\ "citations" \in protected   => x.citations \subseteq y.citations
  /\ "numbers" \in protected     => x.numbers \subseteq y.numbers
  /\ "dates" \in protected       => x.dates \subseteq y.dates
  /\ "references" \in protected  => x.links \subseteq y.links

\* The engine tells no boolean, integer or float from another.
SameType(x, y) == x.type = y.type \/ {x.type, y.type} \subseteq {"boolean", "integer", "number"}

\* The nodes that may take a place of a tree away, and turn it into something else.
MayDelete(n, protected) ==
  \/ n.kind = "array_item_deletion"
  \/ n.kind = "key_deletion" /\ "schema_keys" \notin protected /\ ~RequiredDeletion(n)
MayTurn(n, protected) ==
  n.kind \in {"type_change", "number_type_change"} /\ "types" \notin protected

KeepsTree(x, y, protected, shown) ==
  \A p \in DOMAIN x :
    LET above     == {n \in shown : n.at \in Prefixes(p)}
        atOrAbove == above \cup {n \in shown : n.at = p}
    IN  /\ \/ p \in DOMAIN y
           \/ \E n \in atOrAbove : MayDelete(n, protected)
           \/ \E n \in above : MayTurn(n, protected)
        /\ \/ p \in DOMAIN y /\ SameType(x[p], y[p])
           \/ \E n \in atOrAbove : MayDelete(n, protected) \/ MayTurn(n, protected)

Public(name) == name \notin PrivateNames

\* Functions that may not be deleted.
Pinned(f, protected) ==
  \/ "public_api" \in protected /\ f[1] = "" /\ Public(f[2])
  \/ "tests" \in protected /\ f[2] \in TestNames

KeepsProgram(x, y, protected, shown) ==
  /\ "imports" \in protected => x.imports \subseteq y.imports
  /\ \A f \in Functions(x) :
       /\ Pinned(f, protected) => f \in Functions(y)
       /\ "public_api" \in protected /\ f[1] # "" /\ Public(f[2]) =>
            f \in Functions(y) \/ Node("deleted", "class", <<f[1]>>) \in shown
       /\ "function_signatures" \in protected =>
            \/ f \in Functions(y) /\ x.functions[f].sig = y.functions[f].sig
            \/ ~Pinned(f, protected) /\ Node("deleted", "function", f) \in shown

\* What must be there of a, in b, when accepted diffs have shown these nodes.
Keeps(a, b, protected, shown) ==
  /\ a.domain = "markdown" => KeepsText(a.content, b.content, protected)
  /\ a.domain = "json"     => KeepsTree(a.content, b.content, protected, shown)
  /\ a.domain = "python"   => KeepsProgram(a.content, b.content, protected, shown)

\* However long the chain and however little each step changes, no sum of small unreviewed
\* steps takes away what the contract protects: the protected elements of a text, and the
\* imports, tests and public functions of a program, are all there; a public method is, or
\* its class was deleted in a step of its own; a place of a tree is there with its type,
\* and a function with its signature, or a step that the contract let pass as such deleted
\* (or, of a tree, turned) it or what it stands in.  Required fields need no protection.
\* Within these limits a thing may be deleted openly and come back different later.
UnreviewedKeepsProtected == ~reviewed => Keeps(original, current, contract.protected, told)

\* Diffing step by step hides nothing: whatever a diff of the present version against the
\* first one shows, some accepted step has told of.
DriftIsTold ==
  \A place \in Places(Nodes(original, current)) : ToldOf(place, Places(told))

\* A change is judged by what its engine finds, not by what its generator reports.  Of a
\* text whose numbers are claimed unchanged none goes or comes unreviewed, and to lose a
\* citation under such a claim halts; of a program whose signatures are claimed unchanged,
\* no function that stays gets another one unreviewed.  Citations that come, and functions
\* that come or go, belie no claim.
MisreportIsStopped ==
  outcome # "none" =>
    LET x == base.content
        y == proposed.content
    IN  /\ base.domain = "markdown" /\ "numbers" \in claims /\ x.numbers # y.numbers =>
             outcome # "applied"
        /\ base.domain = "markdown" /\ "citations" \in claims
             /\ ~(x.citations \subseteq y.citations) => outcome = "halted"
        /\ base.domain = "python" /\ "function signatures" \in claims
             /\ (\E f \in Functions(x) \cap Functions(y) :
                   x.functions[f].sig # y.functions[f].sig) => outcome # "applied"

-----------------------------------------------------------------------------
\* docs/11, 17.5: with "function signature change" forbidden, a changed signature is a
\* suspicious drift or a critical corruption, neither of which is applied unreviewed.
ForbiddenIsNotApplied ==
  outcome = "applied" =>
    ~ /\ base.domain = "python" /\ "function signature change" \in contract.forbidden
      /\ Signatured(base.content, proposed.content) # {}
================================================================================
