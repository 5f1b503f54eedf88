---------------------------- MODULE RelationHistory ----------------------------
(***************************************************************************)
(* The history of one generator with one document: evaluations of its      *)
(* outputs update a relation record (relation/update.py), the record is    *)
(* kept in a JSON file (relation/store.py), one day imported into SQLite   *)
(* (relation/sqlite_store.py), and projected into the relation context     *)
(* the execution gate decides by (relation/context_loader.py).             *)
(*                                                                         *)
(* One process writes the store, as its documents assume, but evaluations  *)
(* overlap: a result is held from its evaluation until its update, other   *)
(* updates, crashes and failed calls in between.  Scores are thousandths;  *)
(* the code sums floats, so a score may be read a hair off (Readings).     *)
(***************************************************************************)
EXTENDS GatePolicy

CONSTANTS Calls, Configs, Institution,  \* what the gate may be asked
          Outcomes,                     \* what an evaluation may find
          OtherTypes,                   \* relation types besides the default one
          OldRecords,                   \* records a Phase 2 file may hold under the old key
          Slots,                        \* bound: evaluation results held at a time
          MaxUpdates                    \* bound: updates stored

Default == "generator-document"
Legacy  == "old two-part key"
Types   == {Default} \cup OtherTypes
Keys    == Types \cup {Legacy}

\* merit and damage stand for the counters of the generator's and the document's profile,
\* reliability for the score in the former; a record without profiles has none (NoScore).
Records ==
  [trust : Score, stability : Score, threshold : Score, mismatches : Nat,
   merit : Int, reliability : OptScore, damage : Nat]

ASSUME OutcomesAssumption ==
  Outcomes \subseteq [class : Classifications, mismatch : BOOLEAN, damage : Nat]
ASSUME TypesAssumption   == Default \notin OtherTypes /\ Legacy \notin Types
ASSUME RecordsAssumption ==
  OldRecords \subseteq {r \in Records : r.reliability = NoScore => r.merit = 0 /\ r.damage = 0}
ASSUME UpdatesAssumption == MaxUpdates \in Nat

VARIABLES
  file,     \* the JSON file: a function from some of the keys to records
  rows,     \* relation_records: a function from some of the types to records
  backend,  \* the store in use: "json", and "sqlite" since the first import
  results,  \* evaluation results in memory, not yet updated from
  strikes,  \* what the corruptions and drifts so far weigh (history)
  lost,     \* a record was dropped or overwritten by other than an update (history)
  updates

vars == <<file, rows, backend, results, strikes, lost, updates>>

Clip(n) == IF n < 0 THEN 0 ELSE IF n > 1000 THEN 1000 ELSE n

-----------------------------------------------------------------------------
(***************************************************************************)
(* The stores.  A Phase 2 file keys the default record by its two ids      *)
(* only; get falls back on that key, and upsert retires it.                *)
(***************************************************************************)
OldKeyRead(t) == t = Default /\ Default \notin DOMAIN file /\ Legacy \in DOMAIN file

Present(t) ==
  \/ backend = "sqlite" /\ t \in DOMAIN rows
  \/ backend = "json" /\ (t \in DOMAIN file \/ OldKeyRead(t))

\* Mutant: SQLite takes a missing profile for the worst one.
WithProfilesDistrusting(r) ==
  IF r.reliability = NoScore THEN [r EXCEPT !.reliability = 0] ELSE r

\* _metadata_unpack gives a row that has no profiles fresh ones; the file gives none.
WithProfiles(r) ==
  IF r.reliability = NoScore THEN [r EXCEPT !.reliability = 1000] ELSE r

Get(t) ==
  IF backend = "sqlite" THEN WithProfiles(rows[t])
  ELSE IF OldKeyRead(t) THEN file[Legacy] ELSE file[t]

\* Mutant: the old key is kept.
UpsertFileKeeping(t, r) ==
  [k \in DOMAIN file \cup {t} |-> IF k = t THEN r ELSE file[k]]

\* The old key of the pair goes, whatever the type of the record that comes.
UpsertFile(t, r) ==
  [k \in (DOMAIN file \ {Legacy}) \cup {t} |-> IF k = t THEN r ELSE file[k]]

UpsertRow(t, r) == [k \in DOMAIN rows \cup {t} |-> IF k = t THEN r ELSE rows[k]]

Upsert(t, r) ==
  IF backend = "sqlite" THEN rows' = UpsertRow(t, r) /\ UNCHANGED file
  ELSE file' = UpsertFile(t, r) /\ UNCHANGED rows

Neutral == [trust |-> 500, stability |-> 500, threshold |-> 0,
            reliability |-> NoScore, fragility |-> NoScore]

\* relation_record_to_context
Projection(r) ==
  [trust |-> r.trust, stability |-> r.stability, threshold |-> r.threshold,
   reliability |-> r.reliability,
   fragility |-> IF r.reliability = NoScore THEN NoScore ELSE Clip(r.damage)]

LoadContext(t) == IF Present(t) THEN Projection(Get(t)) ELSE Neutral

-----------------------------------------------------------------------------
(* The update rules                                                        *)

Delta(trust, stability, threshold, merit) ==
  [trust |-> trust, stability |-> stability, threshold |-> threshold, merit |-> merit]

\* merit: what the classification counts add to the generator's reliability.
DeltaOf(class) ==
  CASE class = "preserved"               -> Delta(10, 10, 0, 10)
    [] class = "authorized_deviation"    -> Delta(5, 5, 0, 0)
    [] class = "benign_incidental_drift" -> Delta(2, 0, 0, 0)
    [] class = "creative_deviation"      -> Delta(3, 0, 0, 0)
    [] class = "suspicious_drift"        -> Delta(-30, -20, 50, -50)
    [] class = "critical_corruption"     -> Delta(-100, -50, 150, -150)

\* Mutant: the scores are not clipped.
UpdatedUnclipped(r, o) ==
  LET d == DeltaOf(o.class)
  IN  [WithProfiles(r) EXCEPT !.trust = @ + d.trust, !.stability = Clip(@ + d.stability),
                          !.threshold = Clip(@ + d.threshold)]

\* _apply_classification_metrics, _apply_generator_profile, _apply_structural_fragility:
\* o.mismatch, whether the self report was wrong; o.damage, what the changes to protected
\* and fragile elements add to the document's fragility.
Updated(r, o) ==
  LET d          == DeltaOf(o.class)
      mismatches == r.mismatches + (IF o.mismatch THEN 1 ELSE 0)
      merit      == r.merit + d.merit
  IN  [trust       |-> Clip(Clip(r.trust + d.trust) - (IF o.mismatch THEN 50 ELSE 0)),
       stability   |-> Clip(r.stability + d.stability),
       threshold   |-> Clip(r.threshold + d.threshold),
       mismatches  |-> mismatches,
       merit       |-> merit,
       reliability |-> Clip(1000 + merit - 80 * mismatches),
       damage      |-> r.damage + o.damage]

\* The record made of the context the evaluation was given, when there is none to update.
NewRecord(base) ==
  [trust |-> base.trust, stability |-> base.stability, threshold |-> base.threshold,
   mismatches |-> 0, merit |-> 0, reliability |-> 1000, damage |-> 0]

\* Mutant: the update goes by the context the evaluation was given.
RecordOfContext(res) == NewRecord(res.base)

\* The record as it is when the update comes, whatever it was at the evaluation.
RecordFor(res) == IF Present(Default) THEN Get(Default) ELSE NewRecord(res.base)

-----------------------------------------------------------------------------
NoRecords == [k \in {} |-> Neutral]

Init ==
  /\ \/ file = NoRecords /\ strikes = 0
     \/ \E r \in OldRecords : file = [k \in {Legacy} |-> r] /\ strikes = r.threshold
  /\ rows = NoRecords
  /\ backend = "json"
  /\ results = {}
  /\ lost = FALSE /\ updates = 0

\* run_phase1_evaluation with the loaded context: without an audit log the result has no
\* audit event; if the log cannot be written it raises and there is no result.
Evaluate(s, o, audited) ==
  /\ \A res \in results : res.slot # s
  /\ results' = results \cup {[slot |-> s, outcome |-> o, base |-> LoadContext(Default),
                               audited |-> audited]}
  /\ UNCHANGED <<file, rows, backend, strikes, lost, updates>>

Weight(class) ==
  CASE class = "critical_corruption" -> 150
    [] class = "suspicious_drift"    -> 50
    [] OTHER                         -> 0

\* update_relation_from_evaluation_result of an audited result.  It raises before upsert
\* replaced the file or committed the rows, with nothing changed; or at the load_context
\* after it, with the record updated.  The caller may try again with the same result.
UpdateStores(res) ==
  /\ res.audited /\ updates < MaxUpdates
  /\ Upsert(Default, Updated(RecordFor(res), res.outcome))
  /\ strikes' = Clip(strikes + Weight(res.outcome.class))
  /\ updates' = updates + 1
  /\ results' \in {results, results \ {res}}
  /\ UNCHANGED <<backend, lost>>

\* A result is let go without an update: it was not audited, its update raised and the
\* caller gave up, or the caller never updates from it.
LetGo(res) ==
  /\ results' = results \ {res}
  /\ UNCHANGED <<file, rows, backend, strikes, lost, updates>>

\* Another part of the program upserts a record of its own type for the same pair.
UpsertOther(t) ==
  /\ Upsert(t, NewRecord(Neutral))
  /\ lost' = (lost \/ (OldKeyRead(Default) /\ backend = "json"))
  /\ UNCHANGED <<backend, results, strikes, updates>>

\* import_from_json_file: every record of the file replaces the row of its type, in one
\* transaction; from then on the program uses the rows, and may import again.
ImportFile ==
  LET imported == (DOMAIN file \ {Legacy}) \cup (IF Legacy \in DOMAIN file THEN {Default} ELSE {})
  IN  /\ rows' = [t \in DOMAIN rows \cup imported |->
                    IF t \notin imported THEN rows[t]
                    ELSE IF OldKeyRead(t) THEN file[Legacy] ELSE file[t]]
      /\ backend' = "sqlite"
      /\ lost' = (lost \/ Default \in (DOMAIN rows \cap imported))
      /\ UNCHANGED <<file, results, strikes, updates>>

Crash ==
  /\ results # {} /\ results' = {}
  /\ UNCHANGED <<file, rows, backend, strikes, lost, updates>>

Next ==
  \/ \E s \in Slots, o \in Outcomes, audited \in BOOLEAN : Evaluate(s, o, audited)
  \/ \E res \in results : UpdateStores(res) \/ LetGo(res)
  \/ \E t \in OtherTypes : UpsertOther(t)
  \/ ImportFile
  \/ Crash

Spec == Init /\ [][Next]_vars

-----------------------------------------------------------------------------
Bases == [trust : Score, stability : Score, threshold : Score,
          reliability : OptScore, fragility : OptScore]

TypeOK ==
  /\ DOMAIN file \subseteq Keys /\ \A k \in DOMAIN file : file[k] \in Records
  /\ DOMAIN rows \subseteq Types /\ \A t \in DOMAIN rows : rows[t] \in Records
  /\ backend \in {"json", "sqlite"}
  /\ \A res \in results : /\ res.slot \in Slots /\ res.outcome \in Outcomes
                          /\ res.base \in Bases /\ res.audited \in BOOLEAN
  /\ strikes \in Score /\ lost \in BOOLEAN /\ updates \in Nat

\* The float a sum of decimals lands on may be read on the other side of a threshold.
Readings(n) == {n - 1, n, n + 1} \cap OptScore

ReadContexts(c) ==
  [trust : Readings(c.trust), stability : Readings(c.stability),
   threshold : Readings(c.threshold), reliability : Readings(c.reliability),
   fragility : Readings(c.fragility)]

\* Five critical corruptions, fifteen suspicious drifts, or a mix that weighs more than 700,
\* as four and three do, end for good that anything is done without a human: the gate runs
\* no call, and the policy bridge hands over every change it would have applied.  (At 700
\* sharp the sum of floats may still be read below the bar.)  No number of preserved outputs
\* after them, no update of another evaluation in between, no failed or repeated update,
\* crash or import brings it back, unless the record itself was lost.
BlockedForGood ==
  strikes > 700 /\ ~lost =>
    \A rc \in ReadContexts(LoadContext(Default)) :
      /\ \A c \in Calls, cfg \in Configs : EvaluateGate(c, rc, cfg, Institution) \notin RunActions
      /\ \A action \in FullActions : AdjustForHistory(action, rc) = "human_review"

\* The file never holds the pair's record under both keys, so an import does not depend on
\* the order it meets them in.
OneRecordPerPair == ~(Legacy \in DOMAIN file /\ Default \in DOMAIN file)

\* The first import changes no decision of the gate, though SQLite gives a record without
\* profiles perfect ones and the file gives it none.
ImportKeepsDecisions ==
  [][ backend = "json" /\ backend' = "sqlite" =>
        \A c \in Calls, cfg \in Configs :
          EvaluateGate(c, LoadContext(Default)', cfg, Institution)
            = EvaluateGate(c, LoadContext(Default), cfg, Institution) ]_vars

-----------------------------------------------------------------------------
\* "JSONRelationStore keeps reading the old two-part key": a record that could be read can
\* still be read after any call.
OldRecordsStayReadable == [][ Present(Default) => Present(Default)' ]_vars
================================================================================
