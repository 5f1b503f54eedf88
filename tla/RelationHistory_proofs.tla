------------------------ MODULE RelationHistory_proofs ------------------------
(***************************************************************************)
(* Proofs about RelationHistory, for any number of updates and of results  *)
(* held at a time, any outcomes, relation types and Phase 2 records.       *)
(***************************************************************************)
EXTENDS RelationHistory, GatePolicy_proofs

USE DEF Default, Legacy

Unprofiled(r) == r.reliability = NoScore => r.damage = 0

\* Before an import there are no rows; after it the old key counts for nothing any more.
\* As long as no record was lost, the pair's record carries every strike against it.  A
\* record without profiles has no damage either.
IInv ==
  /\ TypeOK
  /\ OneRecordPerPair
  /\ backend = "json" => DOMAIN rows = {}
  /\ ~lost /\ strikes > 0 => Present(Default) /\ Get(Default).threshold >= strikes
  /\ \A k \in DOMAIN file : Unprofiled(file[k])

-----------------------------------------------------------------------------
(* The operators                                                           *)

\* Clipping an integer gives a score, and keeps the order of the integers it clips.
LEMMA ClipScore ==
  /\ \A n \in Int : Clip(n) \in Score
  /\ \A m, n \in Int : m <= n => Clip(m) <= Clip(n)
BY DEF Clip, Score

\* A score is an integer between 0 and 1000.
LEMMA ScoreInt == \A n \in Score : n \in Int /\ 0 <= n /\ n <= 1000
BY DEF Score

\* The four deltas of a classification are integers, and its weight is what it adds to the
\* review threshold.
LEMMA DeltaType ==
  ASSUME NEW class \in Classifications
  PROVE  /\ DeltaOf(class).trust \in Int /\ DeltaOf(class).stability \in Int
         /\ DeltaOf(class).threshold \in Nat /\ DeltaOf(class).merit \in Int
         /\ Weight(class) = DeltaOf(class).threshold
BY DEF Classifications, DeltaOf, Delta, Weight

\* The fields of a record.
LEMMA RecordFields ==
  ASSUME NEW r \in Records
  PROVE  /\ r.trust \in Score /\ r.stability \in Score /\ r.threshold \in Score
         /\ r.mismatches \in Nat /\ r.merit \in Int
         /\ r.reliability \in OptScore /\ r.damage \in Nat
BY DEF Records

\* Filling in missing profiles gives a record with the same scores.
LEMMA WithProfilesType ==
  ASSUME NEW r \in Records
  PROVE  /\ WithProfiles(r) \in Records
         /\ WithProfiles(r).trust = r.trust /\ WithProfiles(r).stability = r.stability
         /\ WithProfiles(r).threshold = r.threshold
BY DEF WithProfiles, Records, Score, OptScore, NoScore

\* An update makes a record of a record, and its threshold grows by the outcome's weight.
LEMMA UpdatedType ==
  ASSUME NEW r \in Records, NEW o \in Outcomes
  PROVE  /\ Updated(r, o) \in Records
         /\ Unprofiled(Updated(r, o))
         /\ Updated(r, o).threshold = Clip(r.threshold + Weight(o.class))
<1>1. o.class \in Classifications /\ o.mismatch \in BOOLEAN /\ o.damage \in Nat
  BY OutcomesAssumption
<1>2. /\ DeltaOf(o.class).trust \in Int /\ DeltaOf(o.class).stability \in Int
      /\ DeltaOf(o.class).threshold \in Nat /\ DeltaOf(o.class).merit \in Int
      /\ Weight(o.class) = DeltaOf(o.class).threshold
  BY <1>1, DeltaType
<1>3. /\ r.trust \in Int /\ r.stability \in Int /\ r.threshold \in Int
      /\ r.mismatches \in Nat /\ r.merit \in Int /\ r.damage \in Nat
  BY RecordFields, ScoreInt
<1> DEFINE mismatches == r.mismatches + (IF o.mismatch THEN 1 ELSE 0)
           trust      == Clip(r.trust + DeltaOf(o.class).trust) - (IF o.mismatch THEN 50 ELSE 0)
           merit      == r.merit + DeltaOf(o.class).merit
<1>4. mismatches \in Nat /\ trust \in Int /\ merit \in Int
  BY <1>1, <1>2, <1>3, ClipScore, ScoreInt
<1>5. /\ Clip(trust) \in Score
      /\ Clip(r.stability + DeltaOf(o.class).stability) \in Score
      /\ Clip(r.threshold + DeltaOf(o.class).threshold) \in Score
      /\ Clip(1000 + merit - 80 * mismatches) \in Score
      /\ r.damage + o.damage \in Nat
  BY <1>1, <1>2, <1>3, <1>4, ClipScore
<1> HIDE DEF mismatches, trust, merit
<1>6. Updated(r, o) = [trust |-> Clip(trust),
                       stability |-> Clip(r.stability + DeltaOf(o.class).stability),
                       threshold |-> Clip(r.threshold + DeltaOf(o.class).threshold),
                       mismatches |-> mismatches, merit |-> merit,
                       reliability |-> Clip(1000 + merit - 80 * mismatches),
                       damage |-> r.damage + o.damage]
  BY DEF Updated, mismatches, trust, merit
<1> QED
  BY <1>2, <1>4, <1>5, <1>6, ScoreInt DEF Records, OptScore, NoScore, Unprofiled

\* A record made of a context is a record with its threshold.
LEMMA NewRecordType ==
  ASSUME NEW b \in Bases
  PROVE  /\ NewRecord(b) \in Records /\ NewRecord(b).threshold = b.threshold
         /\ Unprofiled(NewRecord(b))
BY DEF NewRecord, Bases, Records, Score, OptScore, NoScore, Unprofiled

\* A record that is there is a record.
LEMMA GetType ==
  ASSUME TypeOK, NEW t \in Types, Present(t)
  PROVE  Get(t) \in Records
BY WithProfilesType DEF TypeOK, Present, Get, OldKeyRead

\* The context loaded from the store is made of scores.
LEMMA LoadContextType ==
  ASSUME TypeOK
  PROVE  LoadContext(Default) \in Bases
<1>1. CASE Present(Default)
  <2>1. Get(Default) \in Records
    BY <1>1, GetType DEF Types
  <2> DEFINE r == Get(Default)
  <2>2. Clip(r.damage) \in Score
    BY <2>1, RecordFields, ClipScore
  <2> QED
    BY <1>1, <2>1, <2>2, RecordFields DEF LoadContext, Projection, Bases, OptScore
<1>2. CASE ~Present(Default)
  BY <1>2 DEF LoadContext, Neutral, Bases, Score, OptScore, NoScore
<1> QED
  BY <1>1, <1>2

-----------------------------------------------------------------------------
(* The inductive invariant, one lemma for the stores and one for each step   *)

\* An upsert through either store keeps the types, leaves one record per pair, and makes
\* the record that is read the one that was given.
LEMMA UpsertKept ==
  ASSUME IInv, NEW t \in Types, NEW r \in Records, Unprofiled(r),
         Upsert(t, r), backend' = backend
  PROVE  /\ DOMAIN file' \subseteq Keys /\ \A k \in DOMAIN file' : file'[k] \in Records
         /\ DOMAIN rows' \subseteq Types /\ \A k \in DOMAIN rows' : rows'[k] \in Records
         /\ OneRecordPerPair'
         /\ backend' = "json" => DOMAIN rows' = {}
         /\ Present(t)'
         /\ Get(t)'.threshold = r.threshold
         /\ \A k \in DOMAIN file' : Unprofiled(file'[k])
<1>1. CASE backend = "sqlite"
  <2>1. rows' = UpsertRow(t, r) /\ file' = file
    BY <1>1 DEF Upsert
  <2>2. DOMAIN rows' = DOMAIN rows \cup {t} /\ rows'[t] = r
    BY <2>1 DEF UpsertRow
  <2>3. \A k \in DOMAIN rows' : rows'[k] \in Records
    BY <2>1 DEF UpsertRow, IInv, TypeOK
  <2>4. Get(t)' = WithProfiles(r)
    BY <1>1, <2>2 DEF Get, WithProfiles
  <2> QED
    BY <1>1, <2>1, <2>2, <2>3, <2>4, WithProfilesType
       DEF IInv, TypeOK, OneRecordPerPair, Present
<1>2. CASE backend # "sqlite"
  <2>1. backend = "json" /\ file' = UpsertFile(t, r) /\ rows' = rows
    BY <1>2 DEF Upsert, IInv, TypeOK
  <2>2. /\ DOMAIN file' = (DOMAIN file \ {Legacy}) \cup {t} /\ file'[t] = r
    BY <2>1 DEF UpsertFile
  <2>3. \A k \in DOMAIN file' : file'[k] \in Records /\ Unprofiled(file'[k])
    BY <2>1 DEF UpsertFile, IInv, TypeOK
  <2>4. Legacy \notin DOMAIN file'
    BY <2>2, TypesAssumption
  <2>5. Get(t)' = r /\ Present(t)'
    BY <2>1, <2>2, <2>4 DEF Get, OldKeyRead, Present
  <2> QED
    BY <2>1, <2>2, <2>3, <2>4, <2>5 DEF IInv, TypeOK, OneRecordPerPair, Keys
<1> QED
  BY <1>1, <1>2

\* The file starts empty, or with one record under the old key.
LEMMA InitInv == Init => IInv
<1> SUFFICES ASSUME Init PROVE IInv
  OBVIOUS
<1>1. backend = "json" /\ results = {} /\ lost \in BOOLEAN /\ updates \in Nat
  BY DEF Init
<1>2. DOMAIN rows = {}
  BY DEF Init, NoRecords
<1>3. CASE file = NoRecords /\ strikes = 0
  <2>1. DOMAIN file = {}
    BY <1>3 DEF NoRecords
  <2>2. strikes \in Score
    BY <1>3 DEF Score
  <2>3. TypeOK
    BY <1>1, <1>2, <2>1, <2>2 DEF TypeOK
  <2> QED
    BY <1>1, <1>2, <1>3, <2>1, <2>3 DEF IInv, OneRecordPerPair
<1>4. CASE \E r \in OldRecords : file = [k \in {Legacy} |-> r] /\ strikes = r.threshold
  <2>1. PICK r \in OldRecords : file = [k \in {Legacy} |-> r] /\ strikes = r.threshold
    BY <1>4
  <2>2. r \in Records /\ strikes \in Score
    BY <2>1, RecordsAssumption, RecordFields
  <2>3. DOMAIN file = {Legacy} /\ file[Legacy] = r
    BY <2>1
  <2>4. Present(Default) /\ Get(Default) = r
    BY <1>1, <2>3 DEF Present, Get, OldKeyRead
  <2>5. \A k \in DOMAIN file : /\ k \in Keys /\ file[k] \in Records
                               /\ Unprofiled(file[k])
    BY <2>1, <2>2, <2>3, RecordsAssumption DEF Keys, Unprofiled
  <2>6. TypeOK
    BY <1>1, <1>2, <2>2, <2>5 DEF TypeOK
  <2>7. strikes = Get(Default).threshold /\ strikes \in Int
    <3>1. strikes = r.threshold
      BY <2>1
    <3>2. Get(Default) = r
      BY <2>4
    <3>3. strikes \in Int
      BY <2>2, ScoreInt
    <3> QED
      BY <3>1, <3>2, <3>3
  <2>8. OneRecordPerPair
    BY <2>3, TypesAssumption DEF OneRecordPerPair, Types
  <2>9. Get(Default).threshold >= strikes
    BY <2>7
  <2> QED
    BY <1>2, <2>4, <2>5, <2>6, <2>8, <2>9 DEF IInv
<1> QED
  BY <1>3, <1>4 DEF Init

\* A step that leaves the stores and the history alone only has the results to answer for.
LEMMA StoresAlone ==
  ASSUME IInv, UNCHANGED <<file, rows, backend, strikes, lost, updates>>,
         \A res \in results' : /\ res.slot \in Slots /\ res.outcome \in Outcomes
                               /\ res.base \in Bases /\ res.audited \in BOOLEAN
  PROVE  IInv'
<1>1. TypeOK' /\ OneRecordPerPair'
  BY DEF IInv, TypeOK, OneRecordPerPair
<1>2. Present(Default)' = Present(Default) /\ Get(Default)' = Get(Default)
  BY DEF Present, Get, OldKeyRead, WithProfiles
<1> QED
  BY <1>1, <1>2 DEF IInv

\* The record updated is the pair's own, or a new one when nothing counts against the pair:
\* its threshold and the strikes grow by the same weight and are clipped alike.
LEMMA UpdateKeeps ==
  ASSUME IInv, NEW res \in results, UpdateStores(res)
  PROVE  IInv'
<1> DEFINE record == RecordFor(res)
           given  == Updated(record, res.outcome)
<1>1. res.outcome \in Outcomes /\ res.base \in Bases /\ strikes \in Score
  BY DEF IInv, TypeOK
<1>2. record \in Records
  BY <1>1, GetType, NewRecordType DEF IInv, Types, RecordFor
<1>3. /\ given \in Records /\ Unprofiled(given)
      /\ given.threshold = Clip(record.threshold + Weight(res.outcome.class))
  BY <1>1, <1>2, UpdatedType
<1>4. Weight(res.outcome.class) \in Nat
  BY <1>1, OutcomesAssumption, DeltaType
<1>5. ~lost => record.threshold >= strikes
  <2>1. CASE Present(Default)
    BY <1>1, <1>2, <2>1, RecordFields, ScoreInt DEF IInv, RecordFor
  <2>2. CASE ~Present(Default)
    BY <1>1, <1>2, <2>2, RecordFields, ScoreInt DEF IInv, RecordFor
  <2> QED
    BY <2>1, <2>2
<1>6. /\ Upsert(Default, given) /\ backend' = backend /\ lost' = lost
      /\ strikes' = Clip(strikes + Weight(res.outcome.class))
      /\ updates' = updates + 1 /\ results' \subseteq results
  BY DEF UpdateStores
<1>7. ~lost' => given.threshold >= strikes'
  <2>1. record.threshold \in Int /\ strikes \in Int
    BY <1>1, <1>2, RecordFields, ScoreInt
  <2> QED
    BY <1>3, <1>4, <1>5, <1>6, <2>1, ClipScore, ScoreInt
<1> HIDE DEF record, given
<1>8. strikes' \in Score
  BY <1>1, <1>4, <1>6, ClipScore, ScoreInt
<1>9. /\ DOMAIN file' \subseteq Keys /\ \A k \in DOMAIN file' : file'[k] \in Records
      /\ DOMAIN rows' \subseteq Types /\ \A k \in DOMAIN rows' : rows'[k] \in Records
      /\ OneRecordPerPair'
      /\ backend' = "json" => DOMAIN rows' = {}
      /\ Present(Default)'
      /\ Get(Default)'.threshold = given.threshold
      /\ \A k \in DOMAIN file' : Unprofiled(file'[k])
  BY <1>3, <1>6, UpsertKept DEF Types
<1>10. TypeOK'
  BY <1>6, <1>8, <1>9 DEF IInv, TypeOK
<1> QED
  BY <1>7, <1>9, <1>10 DEF IInv

\* A record of another type leaves the default one as it is, unless it retires the old key.
LEMMA UpsertOtherKeeps ==
  ASSUME IInv, NEW t \in OtherTypes, UpsertOther(t)
  PROVE  IInv'
<1>1. t \in Types /\ t # Default /\ t # Legacy
  BY TypesAssumption DEF Types
<1>2. Neutral \in Bases
  BY DEF Neutral, Bases, Score, OptScore, NoScore
<1>3. NewRecord(Neutral) \in Records /\ Unprofiled(NewRecord(Neutral))
  BY <1>2, NewRecordType
<1>4. Upsert(t, NewRecord(Neutral)) /\ backend' = backend
  BY DEF UpsertOther
<1>5. /\ DOMAIN file' \subseteq Keys /\ \A k \in DOMAIN file' : file'[k] \in Records
      /\ DOMAIN rows' \subseteq Types /\ \A k \in DOMAIN rows' : rows'[k] \in Records
      /\ OneRecordPerPair'
      /\ backend' = "json" => DOMAIN rows' = {}
      /\ \A k \in DOMAIN file' : Unprofiled(file'[k])
  BY <1>1, <1>3, <1>4, UpsertKept
<1>6. TypeOK'
  BY <1>5 DEF UpsertOther, IInv, TypeOK
<1>7. ~lost' /\ strikes' > 0 => Present(Default)' /\ Get(Default)'.threshold >= strikes'
  <2> SUFFICES ASSUME ~lost', strikes' > 0
               PROVE  Present(Default)' /\ Get(Default)'.threshold >= strikes'
    OBVIOUS
  <2>1. /\ ~lost /\ strikes' = strikes /\ ~(OldKeyRead(Default) /\ backend = "json")
    BY DEF UpsertOther, IInv, TypeOK
  <2>2. Present(Default) /\ Get(Default).threshold >= strikes
    BY <2>1 DEF IInv
  <2>3. CASE backend = "sqlite"
    <3>1. rows' = UpsertRow(t, NewRecord(Neutral))
      BY <1>4, <2>3 DEF Upsert
    <3>2. Default \in DOMAIN rows /\ Default \in DOMAIN rows'
      BY <2>2, <2>3, <3>1 DEF Present, UpsertRow
    <3>3. rows'[Default] = rows[Default]
      BY <1>1, <3>1, <3>2 DEF UpsertRow
    <3> QED
      BY <1>4, <2>1, <2>2, <2>3, <3>2, <3>3 DEF Present, Get, WithProfiles
  <2>4. CASE backend = "json"
    <3>1. file' = UpsertFile(t, NewRecord(Neutral))
      BY <1>4, <2>4 DEF Upsert
    <3>2. Default \in DOMAIN file
      BY <2>1, <2>2, <2>4 DEF Present
    <3>3. Default \in DOMAIN file' /\ file'[Default] = file[Default]
      BY <1>1, <3>1, <3>2 DEF UpsertFile
    <3> QED
      BY <1>4, <2>1, <2>2, <2>4, <3>2, <3>3 DEF Present, Get, OldKeyRead
  <2> QED
    BY <2>3, <2>4 DEF IInv, TypeOK
<1> QED
  BY <1>5, <1>6, <1>7 DEF IInv

\* The rows that come from the file are its records; a row of the pair that is overwritten
\* counts as lost.
LEMMA ImportKeepsInv ==
  ASSUME IInv, ImportFile
  PROVE  IInv'
<1> DEFINE imported == (DOMAIN file \ {Legacy})
                         \cup (IF Legacy \in DOMAIN file THEN {Default} ELSE {})
<1>1. /\ DOMAIN rows' = DOMAIN rows \cup imported
      /\ \A t \in DOMAIN rows' :
           rows'[t] = IF t \notin imported THEN rows[t]
                      ELSE IF OldKeyRead(t) THEN file[Legacy] ELSE file[t]
      /\ backend' = "sqlite" /\ file' = file /\ results' = results
      /\ lost' = (lost \/ Default \in (DOMAIN rows \cap imported))
      /\ strikes' = strikes /\ updates' = updates
  BY DEF ImportFile
<1>2. imported \subseteq Types
  BY DEF IInv, TypeOK, Keys, Types
<1>3. \A t \in imported : OldKeyRead(t) \/ t \in DOMAIN file
  BY DEF OldKeyRead
<1>4. \A t \in DOMAIN rows' : rows'[t] \in Records
  BY <1>1, <1>3 DEF IInv, TypeOK, OldKeyRead
<1>5. TypeOK' /\ OneRecordPerPair'
  BY <1>1, <1>2, <1>4 DEF IInv, TypeOK, OneRecordPerPair
<1>6. ASSUME ~lost', strikes' > 0
      PROVE  Present(Default)' /\ Get(Default)'.threshold >= strikes'
  <2>1. ~lost /\ Present(Default) /\ Get(Default).threshold >= strikes
    BY <1>1, <1>6 DEF IInv, TypeOK
  <2>2. CASE backend = "sqlite"
    <3>1. Default \in DOMAIN rows /\ Default \notin imported
      BY <1>1, <1>6, <2>1, <2>2 DEF Present
    <3>2. Default \in DOMAIN rows' /\ rows'[Default] = rows[Default]
      BY <1>1, <3>1
    <3>3. backend' = "sqlite" /\ strikes' = strikes
      BY <1>1
    <3>4. Get(Default)' = Get(Default)
      BY <2>2, <3>2, <3>3 DEF Get, WithProfiles
    <3> QED
      BY <2>1, <3>2, <3>3, <3>4 DEF Present
  <2>3. CASE backend = "json"
    <3>1. Default \in imported
      BY <2>1, <2>3 DEF Present, OldKeyRead
    <3>2. Default \in DOMAIN rows' /\ rows'[Default] = Get(Default)
      BY <1>1, <2>3, <3>1 DEF Get
    <3>3. Get(Default) \in Records
      BY <2>1, GetType DEF IInv, Types
    <3>4. backend' = "sqlite" /\ strikes' = strikes
      BY <1>1
    <3>5. Get(Default)' = WithProfiles(rows'[Default])
      BY <3>4 DEF Get, WithProfiles
    <3> QED
      BY <2>1, <3>2, <3>3, <3>4, <3>5, WithProfilesType DEF Present
  <2> QED
    BY <2>2, <2>3 DEF IInv, TypeOK
<1> QED
  BY <1>1, <1>5, <1>6 DEF IInv

\* Every step keeps the invariant.
LEMMA StepInv == IInv /\ [Next]_vars => IInv'
<1> SUFFICES ASSUME IInv, [Next]_vars PROVE IInv'
  OBVIOUS
<1>1. \A res \in results : /\ res.slot \in Slots /\ res.outcome \in Outcomes
                           /\ res.base \in Bases /\ res.audited \in BOOLEAN
  BY DEF IInv, TypeOK
<1>2. ASSUME NEW s \in Slots, NEW o \in Outcomes, NEW audited \in BOOLEAN,
             Evaluate(s, o, audited)
      PROVE  IInv'
  <2>1. LoadContext(Default) \in Bases
    BY LoadContextType DEF IInv
  <2>2. results' = results \cup {[slot |-> s, outcome |-> o, base |-> LoadContext(Default),
                                 audited |-> audited]}
    BY <1>2 DEF Evaluate
  <2>3. \A res \in results' : /\ res.slot \in Slots /\ res.outcome \in Outcomes
                              /\ res.base \in Bases /\ res.audited \in BOOLEAN
    BY <1>1, <2>1, <2>2
  <2> QED
    BY <1>2, <2>3, StoresAlone DEF Evaluate
<1>3. ASSUME NEW res \in results, UpdateStores(res)
      PROVE  IInv'
  BY <1>3, UpdateKeeps
<1>4. ASSUME NEW res \in results, LetGo(res)
      PROVE  IInv'
  BY <1>1, <1>4, StoresAlone DEF LetGo
<1>5. ASSUME NEW t \in OtherTypes, UpsertOther(t)
      PROVE  IInv'
  BY <1>5, UpsertOtherKeeps
<1>6. CASE ImportFile
  BY <1>6, ImportKeepsInv
<1>7. CASE Crash
  BY <1>7, StoresAlone DEF Crash
<1>8. CASE UNCHANGED vars
  BY <1>1, <1>8, StoresAlone DEF vars
<1> QED
  BY <1>2, <1>3, <1>4, <1>5, <1>6, <1>7, <1>8 DEF Next

\* The invariant holds in every state.
LEMMA Invariance == Spec => []IInv
BY InitInv, StepInv, PTL DEF Spec

-----------------------------------------------------------------------------
(* The theorems                                                             *)

\* Every reachable state has its type: scores stay scores whatever the updates add up to.
THEOREM TypeCorrect == Spec => []TypeOK
BY Invariance, PTL DEF IInv

\* The pair never has a record under both keys of the file.
THEOREM OneRecord == Spec => []OneRecordPerPair
BY Invariance, PTL DEF IInv

\* A score above 700 is still 700 or more when it is read a thousandth off.
LEMMA ReadingsClose ==
  ASSUME NEW n \in Score, n > 700, NEW m \in Readings(n)
  PROVE  m \in Int /\ m >= 700
BY DEF Readings, Score, OptScore, NoScore

\* At a review threshold of 700 the gate never runs a call, whatever the call, the policy
\* and the institution.
LEMMA GateStops ==
  ASSUME NEW c, NEW cfg, NEW inst, NEW rc, rc.threshold \in Int, rc.threshold >= 700
  PROVE  EvaluateGate(c, rc, cfg, inst) \notin RunActions
<1> DEFINE contract == BuildContract(c)
           risk     == ScoreToolCallRisk(contract, c)
           decided  == DecideExecutionPolicyAction(risk, SyntheticRde(risk), contract.kind,
                                                   rc, cfg)
           adjusted == ApplyRelationHistory(decided, rc)
<1>1. \A action : ApplyRelationHistory(action, rc) \notin RunActions
  BY DEF ApplyRelationHistory, ApproveThreshold, ApproveWithNotesThreshold, RunActions,
         FullActions
<1>2. adjusted \notin RunActions
  BY <1>1
<1> HIDE DEF risk, contract, decided, adjusted
<1>3. ApplyInstitution(adjusted, risk.level, contract, inst) \notin RunActions
  BY <1>2 DEF ApplyInstitution, RunActions, FullActions
<1> QED
  BY <1>3 DEF EvaluateGate, RunActions, FullActions, contract, risk, decided, adjusted

\* Nor does the policy bridge let a change be applied.
LEMMA PolicyStops ==
  ASSUME NEW rc, rc.threshold \in Int, rc.threshold >= 700, NEW action \in FullActions
  PROVE  AdjustForHistory(action, rc) = "human_review"
  BY DEF AdjustForHistory, ApproveWithNotesThreshold, FullActions

\* A pair with more than 700 thousandths of strikes and an intact record is never run
\* without a reviewer again, nor its changes applied without one.
THEOREM Blocked == Spec => []BlockedForGood
<1>1. IInv => BlockedForGood
  <2> SUFFICES ASSUME IInv, strikes > 700, ~lost, NEW rc \in ReadContexts(LoadContext(Default))
               PROVE  /\ \A c \in Calls, cfg \in Configs :
                           EvaluateGate(c, rc, cfg, Institution) \notin RunActions
                      /\ \A action \in FullActions : AdjustForHistory(action, rc) = "human_review"
    BY DEF BlockedForGood
  <2>1. strikes \in Score
    BY DEF IInv, TypeOK
  <2>2. Present(Default) /\ Get(Default).threshold >= strikes
    BY <2>1, ScoreInt DEF IInv
  <2>3. Get(Default) \in Records
    BY <2>2, GetType DEF IInv, Types
  <2>4. /\ LoadContext(Default).threshold = Get(Default).threshold
        /\ LoadContext(Default) \in Bases
    BY <2>2, LoadContextType DEF LoadContext, Projection, IInv
  <2>5. LoadContext(Default).threshold \in Score /\ LoadContext(Default).threshold > 700
    BY <2>1, <2>2, <2>3, <2>4, RecordFields, ScoreInt
  <2>6. rc.threshold \in Readings(LoadContext(Default).threshold)
    BY <2>4 DEF ReadContexts, Bases
  <2>7. rc.threshold \in Int /\ rc.threshold >= 700
    BY <2>5, <2>6, ReadingsClose
  <2> QED
    BY <2>7, GateStops, PolicyStops
<1> QED
  BY <1>1, Invariance, PTL

\* Two contexts the history rules do not tell apart get the same answer.
LEMMA SameAnswer ==
  ASSUME NEW c, NEW cfg, NEW inst, NEW g, NEW h,
         g.trust = h.trust, g.stability = h.stability, g.threshold = h.threshold,
         (g.reliability # NoScore /\ g.reliability <= 300)
           <=> (h.reliability # NoScore /\ h.reliability <= 300),
         (g.fragility # NoScore /\ g.fragility >= 700)
           <=> (h.fragility # NoScore /\ h.fragility >= 700)
  PROVE  EvaluateGate(c, g, cfg, inst) = EvaluateGate(c, h, cfg, inst)
<1> DEFINE contract == BuildContract(c)
           risk     == ScoreToolCallRisk(contract, c)
           decided(rc) == DecideExecutionPolicyAction(risk, SyntheticRde(risk), contract.kind,
                                                      rc, cfg)
<1>1. decided(g) = decided(h)
  BY PolicyReadsTrust
<1>2. \A action : ApplyRelationHistory(action, g) = ApplyRelationHistory(action, h)
  BY DEF ApplyRelationHistory
<1>3. ApplyRelationHistory(decided(g), g) = ApplyRelationHistory(decided(h), h)
  BY <1>1, <1>2
<1> HIDE DEF contract, risk, decided
<1> QED
  BY <1>3 DEF EvaluateGate, contract, risk, decided

\* Filling in the profiles of a record tells the gate nothing new.
LEMMA ImportKeepsContext ==
  ASSUME IInv, ImportFile, backend = "json", NEW c, NEW cfg, NEW inst
  PROVE  EvaluateGate(c, LoadContext(Default)', cfg, inst)
           = EvaluateGate(c, LoadContext(Default), cfg, inst)
<1> DEFINE imported == (DOMAIN file \ {Legacy})
                         \cup (IF Legacy \in DOMAIN file THEN {Default} ELSE {})
<1>1. /\ DOMAIN rows' = imported /\ backend' = "sqlite"
      /\ Default \in imported =>
           rows'[Default] = IF OldKeyRead(Default) THEN file[Legacy] ELSE file[Default]
  BY DEF ImportFile, IInv
<1>2. Present(Default) <=> Default \in imported
  BY DEF Present, OldKeyRead
<1>3. Present(Default)' <=> Default \in imported
  BY <1>1 DEF Present
<1>4. CASE Default \notin imported
  BY <1>2, <1>3, <1>4 DEF LoadContext, Neutral
<1>5. CASE Default \in imported
  <2>0. PICK r : r = Get(Default)
    OBVIOUS
  <2>1. r \in Records
    BY <1>2, <1>5, <2>0, GetType DEF IInv, Types
  <2>2. rows'[Default] = r
    BY <1>1, <1>5, <2>0 DEF Get
  <2>3. Get(Default)' = WithProfiles(r)
    <3>1. backend' = "sqlite"
      BY <1>1
    <3>2. Get(Default)' = WithProfiles(rows'[Default])
      BY <3>1 DEF Get, WithProfiles
    <3> QED
      BY <2>2, <3>2
  <2>4. Unprofiled(r)
    BY <1>2, <1>5, <2>0 DEF Present, Get, OldKeyRead, IInv
  <2>5. LoadContext(Default) = Projection(r)
    BY <1>2, <1>5, <2>0 DEF LoadContext
  <2>6. LoadContext(Default)' = Projection(WithProfiles(r))
    <3>1. LoadContext(Default)' = Projection(Get(Default)')
      BY <1>3, <1>5 DEF LoadContext, Projection, Clip
    <3> QED
      BY <2>3, <3>1
  <2>7. CASE r.reliability # NoScore
    <3>1. WithProfiles(r) = r
      BY <2>7 DEF WithProfiles
    <3> QED
      BY <2>5, <2>6, <3>1
  <2>8. CASE r.reliability = NoScore
    <3>1. /\ WithProfiles(r).reliability = 1000 /\ WithProfiles(r).damage = 0
      BY <2>1, <2>4, <2>8 DEF WithProfiles, Records, Unprofiled
    <3>2. /\ Projection(WithProfiles(r)).reliability = 1000
          /\ Projection(WithProfiles(r)).fragility = 0
          /\ Projection(WithProfiles(r)).trust = Projection(r).trust
          /\ Projection(WithProfiles(r)).stability = Projection(r).stability
          /\ Projection(WithProfiles(r)).threshold = Projection(r).threshold
      BY <2>1, <3>1, WithProfilesType DEF Projection, Clip, NoScore
    <3>3. Projection(r).reliability = NoScore /\ Projection(r).fragility = NoScore
      BY <2>8 DEF Projection
    <3> QED
      BY <2>5, <2>6, <3>2, <3>3, SameAnswer
  <2> QED
    BY <2>7, <2>8
<1> QED
  BY <1>4, <1>5

\* The import changes no decision of the gate, for any call, policy and Phase 2 file.
THEOREM ImportKeeps == Spec => ImportKeepsDecisions
<1>1. IInv /\ [Next]_vars =>
        [ backend = "json" /\ backend' = "sqlite" =>
            \A c \in Calls, cfg \in Configs :
              EvaluateGate(c, LoadContext(Default)', cfg, Institution)
                = EvaluateGate(c, LoadContext(Default), cfg, Institution) ]_vars
  <2> SUFFICES ASSUME IInv, [Next]_vars, backend = "json", backend' = "sqlite"
               PROVE  \A c \in Calls, cfg \in Configs :
                        EvaluateGate(c, LoadContext(Default)', cfg, Institution)
                          = EvaluateGate(c, LoadContext(Default), cfg, Institution)
    OBVIOUS
  <2>1. ImportFile
    BY DEF Next, vars, Evaluate, UpdateStores, LetGo, UpsertOther, Crash
  <2> QED
    BY <2>1, ImportKeepsContext
<1> QED
  BY <1>1, Invariance, PTL DEF Spec, ImportKeepsDecisions
================================================================================
