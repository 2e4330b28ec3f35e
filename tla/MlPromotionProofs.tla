-------------------------- MODULE MlPromotionProofs --------------------------
(***************************************************************************)
(* Proofs about MlPromotion, for any number of calls, models, batches,     *)
(* attempts, audit rows and faults.                                        *)
(***************************************************************************)
EXTENDS MlPromotion, TLAPS

AuditRows == [status : Statuses, cands : SUBSET Calls, promoted : SUBSET Calls,
              did : SUBSET Calls, hit : BOOLEAN]

\* The attempt has a row of the audit.
Active(e) == att[e].pc \notin {"idle", "selected"}
Row(e)    == audit[att[e].id]

-----------------------------------------------------------------------------
(* Sequences of rows *)

LEMMA RowRead ==
  ASSUME NEW R, NEW s \in Seq(R), NEW i \in DOMAIN s
  PROVE  s[i] \in R
OBVIOUS

LEMMA RowReplaced ==
  ASSUME NEW R, NEW s \in Seq(R), NEW i \in DOMAIN s, NEW x \in R
  PROVE  /\ [s EXCEPT ![i] = x] \in Seq(R)
         /\ Len([s EXCEPT ![i] = x]) = Len(s)
         /\ DOMAIN [s EXCEPT ![i] = x] = DOMAIN s
OBVIOUS

LEMMA RowAdded ==
  ASSUME NEW R, NEW s \in Seq(R), NEW x \in R
  PROVE  /\ Append(s, x) \in Seq(R)
         /\ Len(Append(s, x)) = Len(s) + 1
         /\ Append(s, x)[Len(s) + 1] = x
         /\ \A i \in DOMAIN s : i # Len(s) + 1 /\ Append(s, x)[i] = s[i]
         /\ DOMAIN Append(s, x) = DOMAIN s \cup {Len(s) + 1}
OBVIOUS

LEMMA TwoRowsAdded ==
  ASSUME NEW R, NEW s \in Seq(R), NEW x \in R, NEW y \in R
  PROVE  /\ s \o <<x, y>> \in Seq(R)
         /\ Len(s \o <<x, y>>) = Len(s) + 2
         /\ (s \o <<x, y>>)[Len(s) + 1] = x
         /\ (s \o <<x, y>>)[Len(s) + 2] = y
         /\ \A i \in DOMAIN s : /\ i # Len(s) + 1 /\ i # Len(s) + 2
                                /\ (s \o <<x, y>>)[i] = s[i]
         /\ DOMAIN (s \o <<x, y>>) = DOMAIN s \cup {Len(s) + 1, Len(s) + 2}
OBVIOUS

-----------------------------------------------------------------------------
(* Types *)

LEMMA TypeInit == Init => TypeOK
<1> SUFFICES ASSUME Init PROVE TypeOK
  OBVIOUS
<1>1. audit = <<>> /\ audit \in Seq(AuditRows)
  BY DEF Init
<1>2. QED
  BY <1>1, BoundsAssumption
  DEF Init, TypeOK, Idle, Kinds, AuditRows, AtRest, Rulings

\* What the types say of an attempt.
AttemptTypes ==
    [pc : {"idle", "selected", "opened", "raised", "recorded", "failing"},
     kind : Kinds, cands : SUBSET Calls, id : Nat, got : SUBSET Calls]

\* A row that is changed stays a row, and no attempt loses its row.
LEMMA AuditKept ==
  ASSUME TypeOK, NEW i \in DOMAIN audit, NEW x \in AuditRows,
         audit' = [audit EXCEPT ![i] = x]
  PROVE  audit' \in Seq(AuditRows) /\ DOMAIN audit' = DOMAIN audit
<1>1. audit \in Seq(AuditRows)
  BY DEF TypeOK, AuditRows
<1>2. QED
  BY <1>1, RowReplaced

LEMMA RowTypes ==
  ASSUME TypeOK, NEW e \in Attempts, Active(e)
  PROVE  att[e].id \in DOMAIN audit /\ Row(e) \in AuditRows
<1>1. audit \in Seq(AuditRows) /\ att[e].id \in DOMAIN audit
  BY DEF TypeOK, AuditRows, Active
<1>2. QED
  BY <1>1, RowRead DEF Row

\* An attempt is given other values: it must still have its row.
LEMMA AttemptKept ==
  ASSUME TypeOK, NEW e \in Attempts, NEW x \in AttemptTypes,
         att' = [att EXCEPT ![e] = x],
         DOMAIN audit \subseteq DOMAIN audit',
         x.pc \notin {"idle", "selected"} => x.id \in DOMAIN audit'
  PROVE  /\ att' \in [Attempts -> AttemptTypes]
         /\ \A f \in Attempts :
                att'[f].pc \notin {"idle", "selected"} =>
                    att'[f].id \in DOMAIN audit'
<1>1. att \in [Attempts -> AttemptTypes]
  BY DEF TypeOK, AttemptTypes
<1>2. \A f \in Attempts :
        att[f].pc \notin {"idle", "selected"} => att[f].id \in DOMAIN audit
  BY DEF TypeOK
<1>3. QED
  BY <1>1, <1>2

LEMMA NewRowTypes ==
  ASSUME TypeOK, NEW e \in Attempts, NEW h \in BOOLEAN
  PROVE  AuditRow(e, h) \in AuditRows
BY DEF TypeOK, AuditRow, AuditRows, Statuses

LEMMA RaisedTypes ==
  ASSUME TypeOK, NEW e \in Attempts
  PROVE  /\ Raises(e) \subseteq Calls
         /\ Raised(e) \in [Calls -> {"low", "high", "gone"}]
BY DEF TypeOK, Raises, Raised

\* What the actions of the promotion do to a row.
LEMMA RowUpdates ==
  ASSUME TypeOK, NEW e \in Attempts, Active(e)
  PROVE  LET n == att[e].id IN
         /\ \A S : [audit EXCEPT ![n].did = S]
                     = [audit EXCEPT ![n] = [Row(e) EXCEPT !.did = S]]
         /\ Hit(e, audit) = [audit EXCEPT ![n] = [Row(e) EXCEPT !.hit = TRUE]]
         /\ Hit(e, Did(e)) = [audit EXCEPT ![n] =
                [Row(e) EXCEPT !.did = Raises(e), !.hit = TRUE]]
<1>1. att[e].id \in DOMAIN audit /\ audit \in Seq(AuditRows)
  BY RowTypes DEF TypeOK, AuditRows
<1>2. QED
  BY <1>1 DEF Hit, Did, Row

\* An attempt changes its row and itself.
LEMMA RowChangeTypes ==
  ASSUME TypeOK, NEW e \in Attempts, Active(e),
         NEW x \in AuditRows, audit' = [audit EXCEPT ![att[e].id] = x],
         NEW y \in AttemptTypes, att' = [att EXCEPT ![e] = y],
         y.pc # "idle" => y.id = att[e].id,
         faults' \in 0..MaxFaults, conf' \in [Calls -> {"low", "high", "gone"}],
         UNCHANGED <<rules, verifier>>
  PROVE  TypeOK'
<1>1. att[e].id \in DOMAIN audit
  BY RowTypes
<1>2. audit' \in Seq(AuditRows) /\ DOMAIN audit' = DOMAIN audit
  BY <1>1, AuditKept
<1>3. /\ att' \in [Attempts -> AttemptTypes]
      /\ \A f \in Attempts : att'[f].pc \notin {"idle", "selected"} =>
                att'[f].id \in DOMAIN audit'
  BY <1>1, <1>2, AttemptKept
<1>4. QED
  BY <1>2, <1>3 DEF TypeOK, AttemptTypes, AuditRows, rules, verifier

\* A step of the rules keeps the types.
LEMMA RulesTypes ==
  ASSUME TypeOK, NEW v \in Validators, RulesStep(v)
  PROVE  TypeOK'
<1> USE DEF rules, verifier, promotion
<1>a. AtRest \in [todo : SUBSET Calls, due : SUBSET Calls]
  BY DEF AtRest
<1>1. CASE RulesSelect(v)
  BY <1>1 DEF RulesSelect, Unruled, TypeOK
<1>2. CASE \E c \in Calls : RulesRecord(v, c)
  <2>1. PICK c \in Calls : RulesRecord(v, c)
    BY <1>2
  <2>2. Ruling(v, c) \in Rulings
    BY DEF Ruling, Rulings
  <2>3. ruled' \in [Calls -> SUBSET Rulings]
    BY <2>1, <2>2 DEF RulesRecord, TypeOK
  <2>4. val' \in [Validators -> [todo : SUBSET Calls, due : SUBSET Calls]]
    <3> DEFINE x == [val[v] EXCEPT !.todo = @ \ {c}]
    <3>1. val \in [Validators -> [todo : SUBSET Calls, due : SUBSET Calls]]
      BY DEF TypeOK
    <3>2. x \in [todo : SUBSET Calls, due : SUBSET Calls]
      BY <3>1
    <3>3. val' = [val EXCEPT ![v] = x]
      BY <2>1 DEF RulesRecord
    <3> HIDE DEF x
    <3>4. QED
      BY <3>1, <3>2, <3>3
  <2>5. QED
    BY <2>1, <2>3, <2>4 DEF RulesRecord, TypeOK
<1>3. CASE RulesApply(v)
  <2>1. PICK S \in SUBSET val[v].due :
            /\ conf' = [c \in Calls |->
                    IF c \in S /\ conf[c] # "gone" THEN "high" ELSE conf[c]]
            /\ val' = [val EXCEPT ![v].due = @ \ S]
    BY <1>3 DEF RulesApply
  <2>2. conf' \in [Calls -> {"low", "high", "gone"}]
    BY <2>1 DEF TypeOK
  <2>3. val' \in [Validators -> [todo : SUBSET Calls, due : SUBSET Calls]]
    <3> DEFINE x == [val[v] EXCEPT !.due = @ \ S]
    <3>1. val \in [Validators -> [todo : SUBSET Calls, due : SUBSET Calls]]
      BY DEF TypeOK
    <3>2. x \in [todo : SUBSET Calls, due : SUBSET Calls]
      BY <3>1
    <3>3. val' = [val EXCEPT ![v] = x]
      BY <2>1
    <3> HIDE DEF x
    <3>4. QED
      BY <3>1, <3>2, <3>3
  <2>4. QED
    BY <1>3, <2>2, <2>3 DEF RulesApply, TypeOK
<1>4. CASE RulesDie(v)
  BY <1>4, <1>a, BoundsAssumption DEF RulesDie, TypeOK
<1>5. QED
  BY <1>1, <1>2, <1>3, <1>4 DEF RulesStep

LEMMA TypeStep == TypeOK /\ [Next]_vars => TypeOK'
<1> SUFFICES ASSUME TypeOK, [Next]_vars PROVE TypeOK'
  OBVIOUS
<1> USE DEF rules, verifier, promotion
<1>a. audit \in Seq(AuditRows)
  BY DEF TypeOK, AuditRows
<1>b. ASSUME audit' \in Seq(AuditRows)
      PROVE  audit' \in Seq([status : Statuses, cands : SUBSET Calls,
                   promoted : SUBSET Calls, did : SUBSET Calls, hit : BOOLEAN])
  BY <1>b DEF AuditRows
<1>c. Idle \in AttemptTypes /\ Idle.pc = "idle"
  BY DEF Idle, AttemptTypes, Kinds
<1>1. ASSUME NEW b \in Batches, BatchStart(b) PROVE TypeOK'
  BY <1>1 DEF BatchStart, TypeOK, Unverified
<1>2. ASSUME NEW b \in Batches, NEW c \in Calls, NEW d \in Decisions,
             BatchJudge(b, c, d)
      PROVE  TypeOK'
  <2>1. verdict' \in [Calls -> [Models -> Decisions \cup {None}]]
    BY <1>2, SetsAssumption DEF BatchJudge, WithVerdict, TypeOK
  <2>2. QED
    BY <1>2, <2>1 DEF BatchJudge, TypeOK
<1>3. ASSUME NEW b \in Batches, BatchThrows(b) PROVE TypeOK'
  BY <1>3, BoundsAssumption DEF BatchThrows, TypeOK
<1>4. ASSUME NEW c \in Calls, Replace(c) PROVE TypeOK'
  BY <1>4 DEF Replace, TypeOK
<1>4a. ASSUME NEW c \in Calls, NEW T \in Profiles, Turn(c, T) PROVE TypeOK'
  BY <1>4a DEF Turn, TypeOK
<1>4b. ASSUME NEW v \in Validators, RulesStep(v) PROVE TypeOK'
  BY <1>4b, RulesTypes
<1>5. ASSUME NEW e \in Attempts, NEW k \in Kinds, AttemptStart(e, k) PROVE TypeOK'
  <2>1. Promotable(e) \subseteq Calls
    BY DEF Promotable
  <2>2. QED
    BY <1>5, <2>1 DEF AttemptStart, TypeOK, Idle
<1>6. ASSUME NEW e \in Attempts, AuditStart(e) PROVE TypeOK'
  <2> DEFINE x == IF MayWrite(e)
                    THEN [att[e] EXCEPT !.pc = "opened", !.id = Len(audit')]
                    ELSE Idle
  <2>1. /\ audit' \in Seq(AuditRows)
        /\ Len(audit') \in DOMAIN audit' /\ DOMAIN audit \subseteq DOMAIN audit'
    <3>1. AuditRow(e, FALSE) \in AuditRows
      BY NewRowTypes
    <3>2. audit' = Append(audit, AuditRow(e, FALSE))
      BY <1>6 DEF AuditStart
    <3> DEFINE y == AuditRow(e, FALSE)
    <3> HIDE DEF y
    <3>3. y \in AuditRows /\ audit' = Append(audit, y)
      BY <3>1, <3>2 DEF y
    <3>4. /\ audit' \in Seq(AuditRows)
          /\ Len(audit') = Len(audit) + 1
          /\ DOMAIN audit' = DOMAIN audit \cup {Len(audit) + 1}
      BY <1>a, <3>3, RowAdded
    <3>5. QED
      BY <3>4
  <2>2. att' = [att EXCEPT ![e] = x] /\ att[e] \in AttemptTypes
    BY <1>6 DEF AuditStart, NewId, TypeOK, AttemptTypes
  <2>3. Len(audit') \in Nat
    BY <2>1
  <2>4. x \in AttemptTypes
    BY <2>2, <2>3 DEF AttemptTypes, Idle, Kinds
  <2>5. x.pc \notin {"idle", "selected"} => x.id \in DOMAIN audit'
    BY <2>1, <2>2 DEF AttemptTypes, Idle
  <2>6. QED
    BY <1>6, <1>b, <2>1, <2>2, <2>4, <2>5, AttemptKept
    DEF AuditStart, TypeOK, AttemptTypes
<1>7. ASSUME NEW e \in Attempts, AuditStartTwice(e) PROVE TypeOK'
  <2> DEFINE x == IF MayWrite(e)
                    THEN [att[e] EXCEPT !.pc = "opened", !.id = Len(audit')]
                    ELSE Idle
  <2>1. /\ audit' \in Seq(AuditRows)
        /\ Len(audit') \in DOMAIN audit' /\ DOMAIN audit \subseteq DOMAIN audit'
    <3>1. AuditRow(e, FALSE) \in AuditRows /\ AuditRow(e, TRUE) \in AuditRows
      BY NewRowTypes
    <3>2. audit' = audit \o <<AuditRow(e, TRUE), AuditRow(e, FALSE)>>
      BY <1>7 DEF AuditStartTwice
    <3> DEFINE y == AuditRow(e, FALSE)
    <3> DEFINE z == AuditRow(e, TRUE)
    <3> HIDE DEF y, z
    <3>3. y \in AuditRows /\ z \in AuditRows /\ audit' = audit \o <<z, y>>
      BY <3>1, <3>2 DEF y, z
    <3>4. /\ audit' \in Seq(AuditRows)
          /\ Len(audit') = Len(audit) + 2
          /\ DOMAIN audit' = DOMAIN audit \cup {Len(audit) + 1, Len(audit) + 2}
      BY <1>a, <3>3, TwoRowsAdded
    <3>5. QED
      BY <3>4
  <2>2. att' = [att EXCEPT ![e] = x] /\ att[e] \in AttemptTypes
    BY <1>7 DEF AuditStartTwice, NewId, TypeOK, AttemptTypes
  <2>3. Len(audit') \in Nat
    BY <2>1
  <2>4. x \in AttemptTypes
    BY <2>2, <2>3 DEF AttemptTypes, Idle, Kinds
  <2>5. x.pc \notin {"idle", "selected"} => x.id \in DOMAIN audit'
    BY <2>1, <2>2 DEF AttemptTypes, Idle
  <2>6. /\ att' \in [Attempts -> AttemptTypes]
        /\ \A f \in Attempts : att'[f].pc \notin {"idle", "selected"} =>
                att'[f].id \in DOMAIN audit'
    BY <2>1, <2>2, <2>4, <2>5, AttemptKept
  <2>7. faults' \in 0..MaxFaults
    BY <1>7, BoundsAssumption DEF AuditStartTwice, TypeOK
  <2>8. QED
    BY <1>7, <1>b, <2>1, <2>6, <2>7 DEF AuditStartTwice, TypeOK, AttemptTypes
<1>8. ASSUME NEW e \in Attempts, Promote(e) PROVE TypeOK'
  <2> DEFINE x == [Row(e) EXCEPT !.did = Raises(e)]
  <2> DEFINE y == [att[e] EXCEPT !.pc = "raised", !.got = Raises(e)]
  <2>1. /\ Active(e) /\ Row(e) \in AuditRows /\ att[e] \in AttemptTypes
        /\ Raises(e) \subseteq Calls
    BY <1>8, RowTypes, RaisedTypes DEF Promote, Active, TypeOK, AttemptTypes
  <2>2. audit' = [audit EXCEPT ![att[e].id] = x]
    BY <1>8, <2>1, RowUpdates DEF Promote, Did, Row
  <2>3. att' = [att EXCEPT ![e] = y]
    BY <1>8 DEF Promote, Goto, Returns
  <2>4. x \in AuditRows /\ y \in AttemptTypes
    BY <2>1, <1>c DEF AuditRows, AttemptTypes, Statuses
  <2>5. y.pc # "idle" => y.id = att[e].id
    BY <2>1, <1>c DEF AttemptTypes
  <2>6. faults' \in 0..MaxFaults /\ conf' \in [Calls -> {"low", "high", "gone"}]
    BY <1>8, BoundsAssumption, RaisedTypes DEF Promote, TypeOK
  <2>7. UNCHANGED <<rules, verifier>>
    BY <1>8 DEF Promote
  <2> HIDE DEF x, y
  <2>8. QED
    BY <2>1, <2>2, <2>3, <2>4, <2>5, <2>6, <2>7, RowChangeTypes
<1>9. ASSUME NEW e \in Attempts, PromoteLost(e) PROVE TypeOK'
  <2>q. PICK q \in {"raised", "failing"} : Goto(e, q)
    BY <1>9 DEF PromoteLost
  <2> DEFINE x == [Row(e) EXCEPT !.did = Raises(e), !.hit = TRUE]
  <2> DEFINE y == [att[e] EXCEPT !.pc = q]
  <2>1. /\ Active(e) /\ Row(e) \in AuditRows /\ att[e] \in AttemptTypes
        /\ Raises(e) \subseteq Calls
    BY <1>9, RowTypes, RaisedTypes DEF PromoteLost, Active, TypeOK, AttemptTypes
  <2>2. audit' = [audit EXCEPT ![att[e].id] = x]
    BY <1>9, <2>1, RowUpdates DEF PromoteLost, Did, Row
  <2>3. att' = [att EXCEPT ![e] = y]
    BY <1>9, <2>q DEF PromoteLost, Goto, Returns
  <2>4. x \in AuditRows /\ y \in AttemptTypes
    BY <2>1, <1>c DEF AuditRows, AttemptTypes, Statuses
  <2>5. y.pc # "idle" => y.id = att[e].id
    BY <2>1, <1>c DEF AttemptTypes
  <2>6. faults' \in 0..MaxFaults /\ conf' \in [Calls -> {"low", "high", "gone"}]
    BY <1>9, BoundsAssumption, RaisedTypes DEF PromoteLost, TypeOK
  <2>7. UNCHANGED <<rules, verifier>>
    BY <1>9 DEF PromoteLost
  <2> HIDE DEF x, y
  <2>8. QED
    BY <2>1, <2>2, <2>3, <2>4, <2>5, <2>6, <2>7, RowChangeTypes
<1>10. ASSUME NEW e \in Attempts, AuditSuccess(e) PROVE TypeOK'
  <2> DEFINE x == [Row(e) EXCEPT !.status = "succeeded",
                                !.promoted = att[e].got]
  <2> DEFINE y == [att[e] EXCEPT !.pc = "recorded"]
  <2>1. /\ Active(e) /\ Row(e) \in AuditRows /\ att[e] \in AttemptTypes
        /\ Raises(e) \subseteq Calls
    BY <1>10, RowTypes, RaisedTypes DEF AuditSuccess, Active, TypeOK, AttemptTypes
  <2>2. audit' = [audit EXCEPT ![att[e].id] = x]
    BY <1>10, <2>1, RowUpdates DEF AuditSuccess, Did, Row
  <2>3. att' = [att EXCEPT ![e] = y]
    BY <1>10 DEF AuditSuccess, Goto, Returns
  <2>4. x \in AuditRows /\ y \in AttemptTypes
    BY <2>1, <1>c DEF AuditRows, AttemptTypes, Statuses
  <2>5. y.pc # "idle" => y.id = att[e].id
    BY <2>1, <1>c DEF AttemptTypes
  <2>6. faults' \in 0..MaxFaults /\ conf' \in [Calls -> {"low", "high", "gone"}]
    BY <1>10, BoundsAssumption, RaisedTypes DEF AuditSuccess, TypeOK
  <2>7. UNCHANGED <<rules, verifier>>
    BY <1>10 DEF AuditSuccess
  <2> HIDE DEF x, y
  <2>8. QED
    BY <2>1, <2>2, <2>3, <2>4, <2>5, <2>6, <2>7, RowChangeTypes
<1>11. ASSUME NEW e \in Attempts, Complete(e) PROVE TypeOK'
  BY <1>11 DEF Complete, TypeOK, Idle, Kinds
<1>12. ASSUME NEW e \in Attempts, Throws(e) PROVE TypeOK'
  <2> DEFINE x == [Row(e) EXCEPT !.hit = TRUE]
  <2> DEFINE y == [att[e] EXCEPT !.pc = "failing"]
  <2>1. /\ Active(e) /\ Row(e) \in AuditRows /\ att[e] \in AttemptTypes
        /\ Raises(e) \subseteq Calls
    BY <1>12, RowTypes, RaisedTypes DEF Throws, Active, TypeOK, AttemptTypes
  <2>2. audit' = [audit EXCEPT ![att[e].id] = x]
    BY <1>12, <2>1, RowUpdates DEF Throws, Did, Row
  <2>3. att' = [att EXCEPT ![e] = y]
    BY <1>12 DEF Throws, Goto, Returns
  <2>4. x \in AuditRows /\ y \in AttemptTypes
    BY <2>1, <1>c DEF AuditRows, AttemptTypes, Statuses
  <2>5. y.pc # "idle" => y.id = att[e].id
    BY <2>1, <1>c DEF AttemptTypes
  <2>6. faults' \in 0..MaxFaults /\ conf' \in [Calls -> {"low", "high", "gone"}]
    BY <1>12, BoundsAssumption, RaisedTypes DEF Throws, TypeOK
  <2>7. UNCHANGED <<rules, verifier>>
    BY <1>12 DEF Throws
  <2> HIDE DEF x, y
  <2>8. QED
    BY <2>1, <2>2, <2>3, <2>4, <2>5, <2>6, <2>7, RowChangeTypes
<1>13. ASSUME NEW e \in Attempts, AuditFailure(e) PROVE TypeOK'
  <2> DEFINE x == [Row(e) EXCEPT !.status = "failed", !.promoted = {}]
  <2> DEFINE y == Idle
  <2>1. /\ Active(e) /\ Row(e) \in AuditRows /\ att[e] \in AttemptTypes
        /\ Raises(e) \subseteq Calls
    BY <1>13, RowTypes, RaisedTypes DEF AuditFailure, Active, TypeOK, AttemptTypes
  <2>2. audit' = [audit EXCEPT ![att[e].id] = x]
    BY <1>13, <2>1, RowUpdates DEF AuditFailure, Did, Row
  <2>3. att' = [att EXCEPT ![e] = y]
    BY <1>13 DEF AuditFailure, Goto, Returns
  <2>4. x \in AuditRows /\ y \in AttemptTypes
    BY <2>1, <1>c DEF AuditRows, AttemptTypes, Statuses
  <2>5. y.pc # "idle" => y.id = att[e].id
    BY <2>1, <1>c DEF AttemptTypes
  <2>6. faults' \in 0..MaxFaults /\ conf' \in [Calls -> {"low", "high", "gone"}]
    BY <1>13, BoundsAssumption, RaisedTypes DEF AuditFailure, TypeOK
  <2>7. UNCHANGED <<rules, verifier>>
    BY <1>13 DEF AuditFailure
  <2> HIDE DEF x, y
  <2>8. QED
    BY <2>1, <2>2, <2>3, <2>4, <2>5, <2>6, <2>7, RowChangeTypes
<1>14. ASSUME NEW e \in Attempts, Dies(e) PROVE TypeOK'
  <2>0. CASE att[e].pc = "selected"
    BY <1>14, <2>0, <1>c, BoundsAssumption DEF Dies, TypeOK, AttemptTypes
  <2>a. CASE att[e].pc # "selected"
    <3> DEFINE x == [Row(e) EXCEPT !.hit = TRUE]
    <3> DEFINE y == Idle
    <3>1. /\ Active(e) /\ Row(e) \in AuditRows /\ att[e] \in AttemptTypes
          /\ Raises(e) \subseteq Calls
      BY <1>14, <2>a, RowTypes, RaisedTypes DEF Dies, Active, TypeOK, AttemptTypes
    <3>2. audit' = [audit EXCEPT ![att[e].id] = x]
      BY <1>14, <2>a, <3>1, RowUpdates DEF Dies, Did, Row
    <3>3. att' = [att EXCEPT ![e] = y]
      BY <1>14, <2>a DEF Dies, Goto, Returns
    <3>4. x \in AuditRows /\ y \in AttemptTypes
      BY <3>1, <1>c DEF AuditRows, AttemptTypes, Statuses
    <3>5. y.pc # "idle" => y.id = att[e].id
      BY <3>1, <1>c DEF AttemptTypes
    <3>6. faults' \in 0..MaxFaults /\ conf' \in [Calls -> {"low", "high", "gone"}]
      BY <1>14, <2>a, BoundsAssumption, RaisedTypes DEF Dies, TypeOK
    <3>7. UNCHANGED <<rules, verifier>>
      BY <1>14, <2>a DEF Dies
    <3> HIDE DEF x, y
    <3>8. QED
      BY <3>1, <3>2, <3>3, <3>4, <3>5, <3>6, <3>7, RowChangeTypes
  <2>b. QED
    BY <2>0, <2>a
<1>15. CASE UNCHANGED vars
  BY <1>15 DEF vars, TypeOK
<1>16. QED
  BY <1>1, <1>2, <1>3, <1>4, <1>4a, <1>4b, <1>5, <1>6, <1>7, <1>8, <1>9,
     <1>10, <1>11, <1>12, <1>13, <1>14, <1>15
  DEF Next, Judges, AttemptStep, AttemptFault

\* Every variable keeps its type, whatever attempts overlap and fail.
THEOREM PromotionTypeCorrect == Spec => []TypeOK
BY TypeInit, TypeStep, PTL DEF Spec

-----------------------------------------------------------------------------
(* The audit *)

\* What a row of the audit says is true of the calls, and complete unless a
\* fault struck its attempt.
RowTrue(r, C) ==
    /\ r.promoted \subseteq r.did
    /\ \A c \in r.did : C[c] # "low"
    /\ r.status # "running" /\ ~r.hit => r.promoted = r.did

\* What an attempt knows agrees with its row.
Agree(a, r) ==
    /\ a.pc = "opened" => /\ r.status = "running" /\ r.cands = a.cands
                          /\ r.promoted = {} /\ r.did = {}
    /\ a.pc = "raised" => /\ r.status = "running" /\ r.promoted = {}
                          /\ a.got \subseteq r.did
                          /\ ~r.hit => a.got = r.did
    /\ a.pc = "recorded" => r.status = "succeeded"
    /\ a.pc = "failing" => r.hit /\ r.status \in {"running", "succeeded"}

RowsTrue == \A i \in DOMAIN audit : RowTrue(audit[i], conf)

RowsDisjoint ==
    \A i, j \in DOMAIN audit : i # j => audit[i].did \cap audit[j].did = {}

OwnRows ==
    \A e, f \in Attempts :
        Active(e) /\ Active(f) /\ e # f => att[e].id # att[f].id

AttemptsAgree == \A e \in Attempts : Active(e) => Agree(att[e], Row(e))

\* Nothing is returned before the UPDATE.
NothingYet ==
    \A e \in Attempts : att[e].pc \in {"selected", "opened"} => att[e].got = {}

IInv == /\ TypeOK /\ RowsTrue /\ RowsDisjoint
        /\ OwnRows /\ AttemptsAgree /\ NothingYet

\* What the rules are about to raise has their PROMOTE on record.
OnRecord ==
    \A v \in Validators : \A c \in val[v].due \ val[v].todo :
        conf[c] # "gone" => "promote" \in ruled[c]

\* No call gets a low confidence again.
Monotone == \A c \in Calls : conf[c] # "low" => conf'[c] # "low"

LEMMA IInvInit == Init => IInv
<1> SUFFICES ASSUME Init PROVE IInv
  OBVIOUS
<1>1. audit = <<>> /\ DOMAIN audit = {} /\ \A e \in Attempts : att[e].pc = "idle"
  BY DEF Init, Idle
<1>2. QED
  BY <1>1, TypeInit
  DEF IInv, RowsTrue, RowsDisjoint, OwnRows, AttemptsAgree, NothingYet, Active

\* A step that leaves rows and attempts alone.
LEMMA AuditUntouched ==
  ASSUME IInv, TypeOK', Monotone, UNCHANGED <<att, audit>>
  PROVE  IInv'
<1>1. \A i \in DOMAIN audit : audit[i] \in AuditRows
  BY RowRead DEF IInv, TypeOK, AuditRows
<1>2. RowsTrue'
  BY <1>1 DEF IInv, RowsTrue, RowTrue, Monotone, AuditRows
<1>3. QED
  BY <1>2 DEF IInv, RowsDisjoint, OwnRows, AttemptsAgree, NothingYet, Active, Row

\* An attempt that has no row afterwards.
LEMMA AttemptRests ==
  ASSUME IInv, TypeOK', NEW e \in Attempts, NEW y \in AttemptTypes,
         y.pc \in {"idle", "selected"}, y.got = {},
         att' = [att EXCEPT ![e] = y], UNCHANGED <<conf, audit>>
  PROVE  IInv'
<1>1. att'[e] = y /\ \A f \in Attempts : f # e => att'[f] = att[f]
  BY DEF IInv, TypeOK
<1>2. RowsTrue' /\ RowsDisjoint'
  BY DEF IInv, RowsTrue, RowsDisjoint
<1>3. OwnRows'
  BY <1>1 DEF IInv, OwnRows, Active
<1>4. AttemptsAgree'
  BY <1>1 DEF IInv, AttemptsAgree, Active, Row
<1>5. NothingYet'
  BY <1>1 DEF IInv, NothingYet
<1>6. QED
  BY <1>2, <1>3, <1>4, <1>5 DEF IInv

\* An attempt changes its row.
LEMMA RowChanged ==
  ASSUME IInv, TypeOK', Monotone,
         NEW e \in Attempts, Active(e),
         NEW y \in AttemptTypes, att' = [att EXCEPT ![e] = y],
         y.pc # "idle" => y.id = att[e].id,
         y.pc \notin {"selected", "opened"},
         NEW x \in AuditRows, audit' = [audit EXCEPT ![att[e].id] = x],
         RowTrue(x, conf'), Agree(y, x),
         \/ x.did = Row(e).did
         \/ \A c \in x.did : conf[c] = "low"
  PROVE  IInv'
<1> DEFINE n == att[e].id
<1>1. n \in DOMAIN audit /\ Row(e) \in AuditRows
  BY RowTypes DEF IInv
<1>2. /\ DOMAIN audit' = DOMAIN audit
      /\ audit'[n] = x
      /\ \A i \in DOMAIN audit : i # n => audit'[i] = audit[i]
  BY <1>1
<1>3. att'[e] = y /\ \A f \in Attempts : f # e => att'[f] = att[f]
  BY DEF IInv, TypeOK
<1>4. \A i \in DOMAIN audit : audit[i] \in AuditRows
  BY RowRead DEF IInv, TypeOK, AuditRows
<1>5. RowsTrue'
  <2>1. \A i \in DOMAIN audit : i # n => RowTrue(audit[i], conf')
    BY <1>4 DEF IInv, RowsTrue, RowTrue, Monotone, AuditRows
  <2>2. QED
    BY <1>2, <2>1 DEF RowsTrue
<1>6. RowsDisjoint'
  <2>1. \A j \in DOMAIN audit : j # n => x.did \cap audit[j].did = {}
    <3>1. CASE x.did = Row(e).did
      BY <3>1, <1>1 DEF IInv, RowsDisjoint, Row
    <3>2. CASE \A c \in x.did : conf[c] = "low"
      BY <3>2 DEF IInv, RowsTrue, RowTrue
    <3>3. QED
      BY <3>1, <3>2
  <2>2. QED
    BY <1>2, <2>1 DEF IInv, RowsDisjoint
<1>7. OwnRows'
  BY <1>3 DEF IInv, OwnRows, Active
<1>8. AttemptsAgree'
  <2>1. ASSUME NEW f \in Attempts, f # e, Active(f)'
        PROVE  Agree(att[f], Row(f)')
    <3>1. Active(f) /\ att[f].id # n /\ att[f].id \in DOMAIN audit
      BY <2>1, <1>3, RowTypes DEF IInv, OwnRows, Active
    <3>2. Row(f)' = Row(f)
      BY <3>1, <2>1, <1>2, <1>3 DEF Row
    <3>3. QED
      BY <3>1, <3>2, <2>1 DEF IInv, AttemptsAgree
  <2>2. Active(e)' => Agree(y, Row(e)')
    BY <1>2, <1>3 DEF Active, Row
  <2>3. QED
    BY <2>1, <2>2, <1>3 DEF AttemptsAgree
<1>9. NothingYet'
  BY <1>3 DEF IInv, NothingYet
<1>10. QED
  BY <1>5, <1>6, <1>7, <1>8, <1>9 DEF IInv

\* An attempt opens rows, and keeps one of them if it may write.
LEMMA RowsOpened ==
  ASSUME IInv, TypeOK', conf' = conf, NEW e \in Attempts, att[e].pc = "selected",
         NEW y \in AttemptTypes, att' = [att EXCEPT ![e] = y],
         DOMAIN audit \subseteq DOMAIN audit',
         \A i \in DOMAIN audit : audit'[i] = audit[i],
         \A i \in DOMAIN audit' \ DOMAIN audit :
             \E h \in BOOLEAN : audit'[i] = AuditRow(e, h),
         \/ y = Idle
         \/ /\ MayWrite(e)
            /\ y.pc = "opened" /\ y.cands = att[e].cands /\ y.got = att[e].got
            /\ y.id \in DOMAIN audit' \ DOMAIN audit
  PROVE  IInv'
<1> DEFINE New == DOMAIN audit' \ DOMAIN audit
<1>1. att'[e] = y /\ \A f \in Attempts : f # e => att'[f] = att[f]
  BY DEF IInv, TypeOK
<1>2. \A i \in New : /\ audit'[i].promoted = {} /\ audit'[i].did = {}
                     /\ audit'[i].status = att[e].kind
                     /\ audit'[i].cands = att[e].cands
  BY DEF AuditRow
<1>3. RowsTrue'
  <2>1. \A i \in New : RowTrue(audit'[i], conf')
    BY <1>2 DEF RowTrue
  <2>2. QED
    BY <2>1 DEF IInv, RowsTrue
<1>4. RowsDisjoint'
  BY <1>2 DEF IInv, RowsDisjoint
<1>5. \A f \in Attempts \ {e} : Active(f) => att[f].id \in DOMAIN audit
  BY RowTypes DEF IInv
<1>6. OwnRows'
  BY <1>1, <1>5 DEF IInv, OwnRows, Active, Idle
<1>7. AttemptsAgree'
  <2>1. ASSUME NEW f \in Attempts \ {e}, Active(f)'
        PROVE  Agree(att'[f], Row(f)')
    <3>1. Active(f) /\ att'[f] = att[f] /\ Row(f)' = Row(f)
      BY <1>1, <1>5, <2>1 DEF Active, Row
    <3>2. QED
      BY <3>1 DEF IInv, AttemptsAgree
  <2>2. ASSUME Active(e)' PROVE Agree(att'[e], Row(e)')
    <3>1. att'[e].pc = "opened" /\ att'[e].cands = att[e].cands
          /\ att'[e].id \in New /\ att[e].kind = "running"
      BY <1>1, <2>2 DEF Active, Idle, MayWrite
    <3>2. QED
      BY <1>2, <3>1 DEF Agree, Row
  <2>3. QED
    BY <2>1, <2>2 DEF AttemptsAgree
<1>8. NothingYet'
  BY <1>1 DEF IInv, NothingYet, Idle
<1>9. QED
  BY <1>3, <1>4, <1>6, <1>7, <1>8 DEF IInv

LEMMA IInvStep == IInv /\ [Next]_vars => IInv'
<1> SUFFICES ASSUME IInv, [Next]_vars PROVE IInv'
  OBVIOUS
<1> USE DEF rules, verifier, promotion
<1>a. TypeOK /\ TypeOK'
  BY TypeStep DEF IInv
<1>b. \A e \in Attempts : att[e] \in AttemptTypes
  BY <1>a DEF TypeOK, AttemptTypes
<1>c. Idle \in AttemptTypes /\ Idle.pc = "idle" /\ Idle.got = {}
  BY DEF Idle, AttemptTypes, Kinds
<1>d. ASSUME NEW e \in Attempts, Active(e)
      PROVE  /\ Row(e) \in AuditRows /\ Agree(att[e], Row(e))
             /\ RowTrue(Row(e), conf)
  BY <1>d, <1>a, RowTypes DEF IInv, AttemptsAgree, RowsTrue, Row
<1>e. ASSUME NEW e \in Attempts, conf' = Raised(e)
      PROVE  /\ Monotone
             /\ \A c \in Raises(e) : conf[c] = "low" /\ conf'[c] = "high"
             /\ Raises(e) \subseteq Calls
  <2>1. att[e].cands \subseteq Calls
    BY <1>b DEF AttemptTypes
  <2>2. Raises(e) \subseteq Calls /\ \A c \in Raises(e) : conf[c] = "low"
    BY <2>1 DEF Raises
  <2>3. QED
    BY <1>e, <2>2 DEF Monotone, Raised
<1>1. ASSUME NEW b \in Batches, BatchStart(b) PROVE IInv'
  BY <1>1, <1>a, AuditUntouched DEF BatchStart, Monotone
<1>2. ASSUME NEW b \in Batches, NEW c \in Calls, NEW d \in Decisions,
             BatchJudge(b, c, d)
      PROVE  IInv'
  BY <1>2, <1>a, AuditUntouched DEF BatchJudge, Monotone
<1>3. ASSUME NEW b \in Batches, BatchThrows(b) PROVE IInv'
  BY <1>3, <1>a, AuditUntouched DEF BatchThrows, Monotone
<1>4. ASSUME NEW c \in Calls, Replace(c) PROVE IInv'
  <2>1. Monotone
    BY <1>4, <1>a DEF Replace, Monotone, TypeOK
  <2>2. QED
    BY <1>4, <2>1, <1>a, AuditUntouched DEF Replace
<1>4a. ASSUME NEW c \in Calls, NEW T \in Profiles, Turn(c, T) PROVE IInv'
  BY <1>4a, <1>a, AuditUntouched DEF Turn, Monotone
<1>4b. ASSUME NEW v \in Validators, RulesStep(v) PROVE IInv'
  <2>1. UNCHANGED <<att, audit>>
    BY <1>4b DEF RulesStep, RulesSelect, RulesRecord, RulesApply, RulesDie
  <2>2. Monotone
    BY <1>4b DEF RulesStep, RulesSelect, RulesRecord, RulesApply, RulesDie, Monotone
  <2>3. QED
    BY <2>1, <2>2, <1>a, AuditUntouched
<1>5. ASSUME NEW e \in Attempts, NEW k \in Kinds, AttemptStart(e, k) PROVE IInv'
  <2> DEFINE y == [Idle EXCEPT !.pc = "selected", !.kind = k,
                               !.cands = Promotable(e)]
  <2>1. y \in AttemptTypes /\ y.pc = "selected" /\ y.got = {}
    BY <1>c DEF AttemptTypes, Promotable, Idle
  <2>2. att' = [att EXCEPT ![e] = y] /\ UNCHANGED <<conf, audit>>
    BY <1>5 DEF AttemptStart
  <2> HIDE DEF y
  <2>3. QED
    BY <2>1, <2>2, <1>a, AttemptRests
<1>6. ASSUME NEW e \in Attempts, AuditStart(e) PROVE IInv'
  <2> DEFINE y == IF MayWrite(e)
                    THEN [att[e] EXCEPT !.pc = "opened", !.id = Len(audit')]
                    ELSE Idle
  <2> DEFINE r == AuditRow(e, FALSE)
  <2>1. att[e].pc = "selected" /\ conf' = conf /\ audit' = Append(audit, r)
        /\ att' = [att EXCEPT ![e] = y]
    BY <1>6 DEF AuditStart, NewId
  <2>2. r \in AuditRows /\ audit \in Seq(AuditRows)
    BY <1>a, NewRowTypes DEF TypeOK, AuditRows
  <2>3. /\ DOMAIN audit' = DOMAIN audit \cup {Len(audit')}
        /\ Len(audit') \notin DOMAIN audit /\ Len(audit') \in Nat
        /\ \A i \in DOMAIN audit : audit'[i] = audit[i]
        /\ audit'[Len(audit')] = r
    <3> HIDE DEF r
    <3>1. /\ Len(audit') = Len(audit) + 1 /\ Len(audit) \in Nat
          /\ audit'[Len(audit) + 1] = r
          /\ \A i \in DOMAIN audit : i # Len(audit) + 1 /\ audit'[i] = audit[i]
          /\ DOMAIN audit' = DOMAIN audit \cup {Len(audit) + 1}
      BY <2>1, <2>2, RowAdded
    <3>2. QED
      BY <3>1
  <2>4. y \in AttemptTypes
    BY <1>b, <1>c, <2>3 DEF AttemptTypes
  <2>5. \/ y = Idle
        \/ /\ MayWrite(e)
           /\ y.pc = "opened" /\ y.cands = att[e].cands /\ y.got = att[e].got
           /\ y.id \in DOMAIN audit' \ DOMAIN audit
    <3>1. att[e] \in AttemptTypes
      BY <1>b
    <3>2. QED
      BY <3>1, <2>3 DEF AttemptTypes
  <2>6. \A i \in DOMAIN audit' \ DOMAIN audit :
            \E h \in BOOLEAN : audit'[i] = AuditRow(e, h)
    BY <2>3
  <2> HIDE DEF y, r
  <2>7. QED
    BY <1>a, <2>1, <2>3, <2>4, <2>5, <2>6, RowsOpened
<1>7. ASSUME NEW e \in Attempts, AuditStartTwice(e) PROVE IInv'
  <2> DEFINE y == IF MayWrite(e)
                    THEN [att[e] EXCEPT !.pc = "opened", !.id = Len(audit')]
                    ELSE Idle
  <2> DEFINE r == AuditRow(e, FALSE)
  <2> DEFINE z == AuditRow(e, TRUE)
  <2>1. att[e].pc = "selected" /\ conf' = conf /\ audit' = audit \o <<z, r>>
        /\ att' = [att EXCEPT ![e] = y]
    BY <1>7 DEF AuditStartTwice, NewId
  <2>2. r \in AuditRows /\ z \in AuditRows /\ audit \in Seq(AuditRows)
    BY <1>a, NewRowTypes DEF TypeOK, AuditRows
  <2>3. /\ DOMAIN audit' = DOMAIN audit \cup {Len(audit) + 1, Len(audit')}
        /\ Len(audit') \notin DOMAIN audit /\ Len(audit') \in Nat
        /\ \A i \in DOMAIN audit : audit'[i] = audit[i]
        /\ audit'[Len(audit')] = r /\ audit'[Len(audit) + 1] = z
    <3> HIDE DEF r, z
    <3>1. /\ Len(audit') = Len(audit) + 2 /\ Len(audit) \in Nat
          /\ audit'[Len(audit) + 1] = z /\ audit'[Len(audit) + 2] = r
          /\ \A i \in DOMAIN audit : /\ i # Len(audit) + 1 /\ i # Len(audit) + 2
                                     /\ audit'[i] = audit[i]
          /\ DOMAIN audit' = DOMAIN audit \cup {Len(audit) + 1, Len(audit) + 2}
      BY <2>1, <2>2, TwoRowsAdded
    <3>2. QED
      BY <3>1
  <2>4. y \in AttemptTypes
    BY <1>b, <1>c, <2>3 DEF AttemptTypes
  <2>5. \/ y = Idle
        \/ /\ MayWrite(e)
           /\ y.pc = "opened" /\ y.cands = att[e].cands /\ y.got = att[e].got
           /\ y.id \in DOMAIN audit' \ DOMAIN audit
    <3>1. att[e] \in AttemptTypes
      BY <1>b
    <3>2. QED
      BY <3>1, <2>3 DEF AttemptTypes
  <2>6. \A i \in DOMAIN audit' \ DOMAIN audit :
            \E h \in BOOLEAN : audit'[i] = AuditRow(e, h)
    BY <2>3
  <2>7. DOMAIN audit \subseteq DOMAIN audit'
    BY <2>3
  <2> HIDE DEF y, r, z
  <2>8. QED
    BY <1>a, <2>1, <2>3, <2>4, <2>5, <2>6, <2>7, RowsOpened
<1>8. ASSUME NEW e \in Attempts, Promote(e) PROVE IInv'
  <2> DEFINE x == [Row(e) EXCEPT !.did = Raises(e)]
  <2> DEFINE y == [att[e] EXCEPT !.pc = "raised", !.got = Raises(e)]
  <2>1. /\ att[e].pc = "opened" /\ Active(e)
        /\ conf' = Raised(e)
        /\ att[e] \in AttemptTypes /\ Row(e) \in AuditRows
        /\ Agree(att[e], Row(e)) /\ RowTrue(Row(e), conf)
    BY <1>8, <1>b, <1>d DEF Promote, Active
  <2>2. audit' = [audit EXCEPT ![att[e].id] = x]
    BY <1>8, <2>1, <1>a, RowUpdates DEF Promote, Did, Row
  <2>3. att' = [att EXCEPT ![e] = y]
    BY <1>8 DEF Promote, Goto, Returns
  <2>4. /\ Monotone /\ Raises(e) \subseteq Calls
        /\ \A c \in Raises(e) : conf[c] = "low" /\ conf'[c] = "high"
    BY <2>1, <1>e DEF Monotone
  <2>5. x \in AuditRows /\ y \in AttemptTypes
    BY <2>1, <2>4, <1>c DEF AuditRows, AttemptTypes, Statuses
  <2>6. /\ y.pc \notin {"selected", "opened"} /\ (y.pc # "idle" => y.id = att[e].id)
    BY <2>1, <1>c DEF AttemptTypes
  <2>7. RowTrue(x, conf') /\ Agree(y, x)
    BY <2>1, <2>4, <1>c DEF RowTrue, Agree, AuditRows, AttemptTypes
  <2>8. x.did = Row(e).did \/ \A c \in x.did : conf[c] = "low"
    BY <2>1, <2>4 DEF AuditRows
  <2> HIDE DEF x, y
  <2>9. QED
    BY <1>a, <2>1, <2>2, <2>3, <2>4, <2>5, <2>6, <2>7, <2>8, RowChanged
<1>9. ASSUME NEW e \in Attempts, PromoteLost(e) PROVE IInv'
  <2>q. PICK q \in {"raised", "failing"} : Goto(e, q)
    BY <1>9 DEF PromoteLost
  <2> DEFINE x == [Row(e) EXCEPT !.did = Raises(e), !.hit = TRUE]
  <2> DEFINE y == [att[e] EXCEPT !.pc = q]
  <2>1. /\ att[e].pc = "opened" /\ att[e].got = {} /\ Active(e)
        /\ conf' = Raised(e)
        /\ att[e] \in AttemptTypes /\ Row(e) \in AuditRows
        /\ Agree(att[e], Row(e)) /\ RowTrue(Row(e), conf)
    BY <1>9, <1>b, <1>d DEF PromoteLost, Active, IInv, NothingYet
  <2>2. audit' = [audit EXCEPT ![att[e].id] = x]
    BY <1>9, <2>1, <1>a, RowUpdates DEF PromoteLost, Did, Row
  <2>3. att' = [att EXCEPT ![e] = y]
    BY <1>9, <2>q DEF PromoteLost, Goto, Returns
  <2>4. /\ Monotone /\ Raises(e) \subseteq Calls
        /\ \A c \in Raises(e) : conf[c] = "low" /\ conf'[c] = "high"
    BY <2>1, <1>e DEF Monotone
  <2>5. x \in AuditRows /\ y \in AttemptTypes
    BY <2>1, <2>4, <1>c DEF AuditRows, AttemptTypes, Statuses
  <2>6. /\ y.pc \notin {"selected", "opened"} /\ (y.pc # "idle" => y.id = att[e].id)
    BY <2>1, <1>c DEF AttemptTypes
  <2>7. RowTrue(x, conf') /\ Agree(y, x)
    BY <2>1, <2>4, <1>c DEF RowTrue, Agree, AuditRows, AttemptTypes
  <2>8. x.did = Row(e).did \/ \A c \in x.did : conf[c] = "low"
    BY <2>1, <2>4 DEF AuditRows
  <2> HIDE DEF x, y
  <2>9. QED
    BY <1>a, <2>1, <2>2, <2>3, <2>4, <2>5, <2>6, <2>7, <2>8, RowChanged
<1>10. ASSUME NEW e \in Attempts, AuditSuccess(e) PROVE IInv'
  <2> DEFINE x == [Row(e) EXCEPT !.status = "succeeded",
                                !.promoted = att[e].got]
  <2> DEFINE y == [att[e] EXCEPT !.pc = "recorded"]
  <2>1. /\ att[e].pc = "raised" /\ Active(e)
        /\ conf' = conf
        /\ att[e] \in AttemptTypes /\ Row(e) \in AuditRows
        /\ Agree(att[e], Row(e)) /\ RowTrue(Row(e), conf)
    BY <1>10, <1>b, <1>d DEF AuditSuccess, Active
  <2>2. audit' = [audit EXCEPT ![att[e].id] = x]
    BY <1>10, <2>1, <1>a, RowUpdates DEF AuditSuccess, Did, Row
  <2>3. att' = [att EXCEPT ![e] = y]
    BY <1>10 DEF AuditSuccess, Goto, Returns
  <2>4. Monotone 
    BY <2>1, <1>e DEF Monotone
  <2>5. x \in AuditRows /\ y \in AttemptTypes
    BY <2>1, <2>4, <1>c DEF AuditRows, AttemptTypes, Statuses
  <2>6. /\ y.pc \notin {"selected", "opened"} /\ (y.pc # "idle" => y.id = att[e].id)
    BY <2>1, <1>c DEF AttemptTypes
  <2>7. RowTrue(x, conf') /\ Agree(y, x)
    BY <2>1, <2>4, <1>c DEF RowTrue, Agree, AuditRows, AttemptTypes
  <2>8. x.did = Row(e).did \/ \A c \in x.did : conf[c] = "low"
    BY <2>1, <2>4 DEF AuditRows
  <2> HIDE DEF x, y
  <2>9. QED
    BY <1>a, <2>1, <2>2, <2>3, <2>4, <2>5, <2>6, <2>7, <2>8, RowChanged
<1>11. ASSUME NEW e \in Attempts, Complete(e) PROVE IInv'
  BY <1>11, <1>a, <1>c, AttemptRests DEF Complete
<1>12. ASSUME NEW e \in Attempts, Throws(e) PROVE IInv'
  <2> DEFINE x == [Row(e) EXCEPT !.hit = TRUE]
  <2> DEFINE y == [att[e] EXCEPT !.pc = "failing"]
  <2>1. /\ att[e].pc \in {"opened", "raised", "recorded"} /\ Active(e)
        /\ conf' = conf
        /\ att[e] \in AttemptTypes /\ Row(e) \in AuditRows
        /\ Agree(att[e], Row(e)) /\ RowTrue(Row(e), conf)
    BY <1>12, <1>b, <1>d DEF Throws, Active
  <2>2. audit' = [audit EXCEPT ![att[e].id] = x]
    BY <1>12, <2>1, <1>a, RowUpdates DEF Throws, Did, Row
  <2>3. att' = [att EXCEPT ![e] = y]
    BY <1>12 DEF Throws, Goto, Returns
  <2>4. Monotone 
    BY <2>1, <1>e DEF Monotone
  <2>5. x \in AuditRows /\ y \in AttemptTypes
    BY <2>1, <2>4, <1>c DEF AuditRows, AttemptTypes, Statuses
  <2>6. /\ y.pc \notin {"selected", "opened"} /\ (y.pc # "idle" => y.id = att[e].id)
    BY <2>1, <1>c DEF AttemptTypes
  <2>7. RowTrue(x, conf') /\ Agree(y, x)
    BY <2>1, <2>4, <1>c DEF RowTrue, Agree, AuditRows, AttemptTypes
  <2>8. x.did = Row(e).did \/ \A c \in x.did : conf[c] = "low"
    BY <2>1, <2>4 DEF AuditRows
  <2> HIDE DEF x, y
  <2>9. QED
    BY <1>a, <2>1, <2>2, <2>3, <2>4, <2>5, <2>6, <2>7, <2>8, RowChanged
<1>13. ASSUME NEW e \in Attempts, AuditFailure(e) PROVE IInv'
  <2> DEFINE x == [Row(e) EXCEPT !.status = "failed", !.promoted = {}]
  <2> DEFINE y == Idle
  <2>1. /\ att[e].pc = "failing" /\ Active(e)
        /\ conf' = conf
        /\ att[e] \in AttemptTypes /\ Row(e) \in AuditRows
        /\ Agree(att[e], Row(e)) /\ RowTrue(Row(e), conf)
    BY <1>13, <1>b, <1>d DEF AuditFailure, Active
  <2>2. audit' = [audit EXCEPT ![att[e].id] = x]
    BY <1>13, <2>1, <1>a, RowUpdates DEF AuditFailure, Did, Row
  <2>3. att' = [att EXCEPT ![e] = y]
    BY <1>13 DEF AuditFailure, Goto, Returns
  <2>4. Monotone 
    BY <2>1, <1>e DEF Monotone
  <2>5. x \in AuditRows /\ y \in AttemptTypes
    BY <2>1, <2>4, <1>c DEF AuditRows, AttemptTypes, Statuses
  <2>6. /\ y.pc \notin {"selected", "opened"} /\ (y.pc # "idle" => y.id = att[e].id)
    BY <2>1, <1>c DEF AttemptTypes
  <2>7. RowTrue(x, conf') /\ Agree(y, x)
    BY <2>1, <2>4, <1>c DEF RowTrue, Agree, AuditRows, AttemptTypes
  <2>8. x.did = Row(e).did \/ \A c \in x.did : conf[c] = "low"
    BY <2>1, <2>4 DEF AuditRows
  <2> HIDE DEF x, y
  <2>9. QED
    BY <1>a, <2>1, <2>2, <2>3, <2>4, <2>5, <2>6, <2>7, <2>8, RowChanged
<1>14. ASSUME NEW e \in Attempts, Dies(e) PROVE IInv'
  <2>0. CASE att[e].pc = "selected"
    BY <1>14, <2>0, <1>a, <1>c, AttemptRests DEF Dies
  <2>a. CASE att[e].pc # "selected"
    <3> DEFINE x == [Row(e) EXCEPT !.hit = TRUE]
    <3> DEFINE y == Idle
    <3>1. /\ att[e].pc # "idle" /\ Active(e)
          /\ conf' = conf
          /\ att[e] \in AttemptTypes /\ Row(e) \in AuditRows
          /\ Agree(att[e], Row(e)) /\ RowTrue(Row(e), conf)
      BY <1>14, <2>a, <1>b, <1>d DEF Dies, Active
    <3>2. audit' = [audit EXCEPT ![att[e].id] = x]
      BY <1>14, <2>a, <3>1, <1>a, RowUpdates DEF Dies, Did, Row
    <3>3. att' = [att EXCEPT ![e] = y]
      BY <1>14, <2>a DEF Dies, Goto, Returns
    <3>4. Monotone 
      BY <3>1, <1>e DEF Monotone
    <3>5. x \in AuditRows /\ y \in AttemptTypes
      BY <3>1, <3>4, <1>c DEF AuditRows, AttemptTypes, Statuses
    <3>6. /\ y.pc \notin {"selected", "opened"}
          /\ (y.pc # "idle" => y.id = att[e].id)
      BY <3>1, <1>c DEF AttemptTypes
    <3>7. RowTrue(x, conf') /\ Agree(y, x)
      BY <3>1, <3>4, <1>c DEF RowTrue, Agree, AuditRows, AttemptTypes
    <3>8. x.did = Row(e).did \/ \A c \in x.did : conf[c] = "low"
      BY <3>1, <3>4 DEF AuditRows
    <3> HIDE DEF x, y
    <3>9. QED
      BY <1>a, <3>1, <3>2, <3>3, <3>4, <3>5, <3>6, <3>7, <3>8, RowChanged
  <2>b. QED
    BY <2>0, <2>a
<1>15. CASE UNCHANGED vars
  BY <1>15, <1>a, AuditUntouched DEF vars, Monotone
<1>16. QED
  BY <1>1, <1>2, <1>3, <1>4, <1>4a, <1>4b, <1>5, <1>6, <1>7, <1>8, <1>9,
     <1>10, <1>11, <1>12, <1>13, <1>14, <1>15
  DEF Next, Judges, AttemptStep, AttemptFault

LEMMA PromotionInvariant == Spec => []IInv
BY IInvInit, IInvStep, PTL DEF Spec

-----------------------------------------------------------------------------
(* The rules *)

LEMMA OnRecordInit == Init => OnRecord
BY DEF Init, OnRecord, AtRest

\* A run records what it decided before it applies it, and a decision goes only
\* with its call.
LEMMA OnRecordStep == TypeOK /\ OnRecord /\ [Next]_vars => OnRecord'
<1> SUFFICES ASSUME TypeOK, OnRecord, [Next]_vars PROVE OnRecord'
  OBVIOUS
<1> USE DEF rules, verifier, promotion
<1>1. ASSUME NEW v \in Validators, NEW c \in Calls, RulesRecord(v, c)
      PROVE  OnRecord'
  <2>1. /\ conf' = conf
        /\ \A k \in Calls : ruled[k] \subseteq ruled'[k]
        /\ conf[c] # "gone" => Ruling(v, c) \in ruled'[c]
    BY <1>1 DEF RulesRecord, TypeOK
  <2>2. /\ val'[v].due = val[v].due /\ val'[v].todo = val[v].todo \ {c}
        /\ \A w \in Validators \ {v} : val'[w] = val[w]
        /\ \A w \in Validators : val[w].due \subseteq Calls
    BY <1>1 DEF RulesRecord, TypeOK
  <2>3. QED
    BY <2>1, <2>2 DEF OnRecord, Ruling
<1>2. ASSUME NEW v \in Validators, RulesSelect(v) \/ RulesApply(v) \/ RulesDie(v)
      PROVE  OnRecord'
  <2>1. /\ ruled' = ruled
        /\ \A c \in Calls : conf'[c] = "gone" <=> conf[c] = "gone"
    BY <1>2 DEF RulesSelect, RulesApply, RulesDie, TypeOK
  <2>2. /\ \A w \in Validators \ {v} : val'[w] = val[w]
        /\ val'[v].due \ val'[v].todo \subseteq val[v].due \ val[v].todo
        /\ \A w \in Validators : val[w].due \subseteq Calls
    BY <1>2 DEF RulesSelect, RulesApply, RulesDie, TypeOK, AtRest
  <2>3. QED
    BY <2>1, <2>2 DEF OnRecord
<1>3. ASSUME NEW c \in Calls, Replace(c) PROVE OnRecord'
  BY <1>3 DEF Replace, OnRecord, TypeOK
<1>4. ASSUME NEW e \in Attempts, conf' = Raised(e), UNCHANGED <<ruled, val>>
      PROVE  OnRecord'
  BY <1>4 DEF OnRecord, Raised, Raises, TypeOK
<1>5. CASE UNCHANGED <<conf, ruled, val>>
  BY <1>5 DEF OnRecord
<1>6. QED
  BY <1>1, <1>2, <1>3, <1>4, <1>5
  DEF Next, Judges, RulesStep, AttemptStep, AttemptFault, BatchStart, BatchJudge,
      BatchThrows, Turn, AttemptStart, AuditStart, AuditStartTwice, Promote,
      PromoteLost, AuditSuccess, Complete, Throws, AuditFailure, Dies, vars

LEMMA RulesInvariant == Spec => [](IInv /\ OnRecord)
<1>1. IInv => TypeOK
  BY DEF IInv
<1>2. QED
  BY <1>1, PromotionInvariant, OnRecordInit, OnRecordStep, PTL DEF Spec

\* An audit row names no call that its attempt has not raised, and no two rows
\* name the same call, whatever is lost, repeated or cut off.
THEOREM AuditIsNoOverstatement == Spec => []AuditNeverOverstates
<1>1. IInv => AuditNeverOverstates
  BY DEF IInv, RowsTrue, RowTrue, RowsDisjoint, AuditNeverOverstates
<1>2. QED
  BY <1>1, PromotionInvariant, PTL

\* The row of an attempt that no fault has struck names every call it raised.
THEOREM AuditIsCompleteUnlessHit == Spec => []AuditTellsUnlessHit
<1>1. IInv => AuditTellsUnlessHit
  BY DEF IInv, RowsTrue, RowTrue, AuditTellsUnlessHit
<1>2. QED
  BY <1>1, PromotionInvariant, PTL

-----------------------------------------------------------------------------
(* Raising *)

\* A run of the rules is about to raise the call, with its PROMOTE on record.
RulesRaise(c) ==
    \E v \in Validators : /\ val[v].todo = {} /\ c \in val[v].due
                          /\ "promote" \in ruled[c]

\* Only the UPDATE of an attempt that holds a running row and that of the rules
\* raise a call.
LEMMA RaisedByTwo ==
  ASSUME IInv, OnRecord, [Next]_vars,
         NEW c \in Calls, conf[c] = "low", conf'[c] = "high"
  PROVE  \/ \E e \in Attempts : /\ att[e].pc = "opened"
                                /\ c \in att[e].cands /\ Approved(e, c)
         \/ RulesRaise(c)
<1> USE DEF rules, verifier, promotion
<1>a. conf \in [Calls -> {"low", "high", "gone"}]
  BY DEF IInv, TypeOK
<1>1. ASSUME NEW e \in Attempts, att[e].pc = "opened", conf' = Raised(e)
      PROVE  c \in att[e].cands /\ Approved(e, c)
  BY <1>1 DEF Raised, Raises
<1>2. ASSUME NEW k \in Calls, Replace(k) PROVE FALSE
  BY <1>2, <1>a DEF Replace
<1>3. ASSUME NEW v \in Validators, RulesApply(v) PROVE RulesRaise(c)
  BY <1>3 DEF RulesApply, RulesRaise, OnRecord
<1>4. \/ conf' = conf
      \/ \E k \in Calls : Replace(k)
      \/ \E v \in Validators : RulesApply(v)
      \/ \E e \in Attempts : Promote(e) \/ PromoteLost(e)
  BY DEF Next, Judges, RulesStep, AttemptStep, AttemptFault, BatchStart,
         BatchJudge, BatchThrows, Turn, RulesSelect, RulesRecord, RulesDie,
         AttemptStart, AuditStart, AuditStartTwice, AuditSuccess,
         Complete, Throws, AuditFailure, Dies, vars
<1>5. CASE \E e \in Attempts : Promote(e) \/ PromoteLost(e)
  BY <1>1, <1>5 DEF Promote, PromoteLost
<1>6. QED
  BY <1>2, <1>3, <1>4, <1>5

\* A call is raised only while a model the attempt accepts approves it,
\* although the candidates were read before (promoteCandidates), or else by the
\* rules of the pipeline, which ask no model but have put PROMOTE on record for
\* it (persistValidationDecisions before applyAuditResults).
RaisesOnlyApproved ==
    [][\A c \in Calls :
        conf[c] = "low" /\ conf'[c] = "high" =>
            \/ \E e \in Attempts : att[e].pc = "opened" /\ c \in att[e].cands
                                   /\ Approved(e, c)
            \/ RulesRaise(c)]_vars

\* Whatever verdicts change, runs and attempts overlap and die.
THEOREM OnlyApprovedAreRaised == Spec => RaisesOnlyApproved
<1>1. ASSUME IInv, OnRecord, [Next]_vars
      PROVE  [\A c \in Calls :
        conf[c] = "low" /\ conf'[c] = "high" =>
            \/ \E e \in Attempts : att[e].pc = "opened" /\ c \in att[e].cands
                                   /\ Approved(e, c)
            \/ RulesRaise(c)]_vars
  BY <1>1, RaisedByTwo
<1>2. QED
  BY <1>1, RulesInvariant, PTL DEF Spec, RaisesOnlyApproved

\* Before the promotion raises a call there is an audit row that is running and
\* names it as a candidate: "Records every ... promotion attempt before any call
\* confidence mutation can occur" (migrations/014-ml-promotion-audit.sql).  What
\* the rules raise is in no row; only their decision tells of it.
AuditedBeforeRaised ==
    [][\A c \in Calls :
        conf[c] = "low" /\ conf'[c] = "high" =>
            \/ \E i \in DOMAIN audit : audit[i].status = "running"
                                       /\ c \in audit[i].cands
            \/ RulesRaise(c)]_vars

\* Also when rows are repeated and attempts fail.
THEOREM NoneRaisedUnaudited == Spec => AuditedBeforeRaised
<1>1. ASSUME IInv, OnRecord, [Next]_vars, NEW c \in Calls,
             conf[c] = "low", conf'[c] = "high", ~RulesRaise(c)
      PROVE  \E i \in DOMAIN audit : audit[i].status = "running"
                                     /\ c \in audit[i].cands
  <2>1. PICK e \in Attempts : att[e].pc = "opened" /\ c \in att[e].cands
    BY <1>1, RaisedByTwo
  <2>2. Active(e)
    BY <2>1 DEF Active
  <2>3. /\ att[e].id \in DOMAIN audit
        /\ Row(e).status = "running" /\ Row(e).cands = att[e].cands
    BY <1>1, <2>1, <2>2, RowTypes DEF IInv, AttemptsAgree, Agree
  <2>4. QED
    BY <2>1, <2>3 DEF Row
<1>2. ASSUME IInv, OnRecord, [Next]_vars
      PROVE  [\A c \in Calls :
        conf[c] = "low" /\ conf'[c] = "high" =>
            \/ \E i \in DOMAIN audit : audit[i].status = "running"
                                       /\ c \in audit[i].cands
            \/ RulesRaise(c)]_vars
  BY <1>1, <1>2
<1>3. QED
  BY <1>2, RulesInvariant, PTL DEF Spec, AuditedBeforeRaised

-----------------------------------------------------------------------------
(* The verifier *)

FreshUnjudged == \A b \in Batches : \A c \in fresh[b] : ~Judged(c)

LEMMA FreshInit == Init => FreshUnjudged
BY DEF Init, FreshUnjudged

LEMMA FreshStep == TypeOK /\ FreshUnjudged /\ [Next]_vars => FreshUnjudged'
<1> SUFFICES ASSUME TypeOK, FreshUnjudged, [Next]_vars PROVE FreshUnjudged'
  OBVIOUS
<1> USE DEF rules, verifier, promotion
<1>1. ASSUME NEW b \in Batches, BatchStart(b) PROVE FreshUnjudged'
  BY <1>1 DEF BatchStart, FreshUnjudged, Unverified, Judged, TypeOK
<1>2. ASSUME NEW b \in Batches, NEW c \in Calls, NEW d \in Decisions,
             BatchJudge(b, c, d)
      PROVE  FreshUnjudged'
  <2>1. \A k \in Calls \ {c} : verdict'[k] = verdict[k]
    BY <1>2 DEF BatchJudge, WithVerdict, TypeOK
  <2>2. \A k \in Batches : fresh'[k] = fresh[k] \ {c} /\ fresh[k] \subseteq Calls
    BY <1>2 DEF BatchJudge, TypeOK
  <2>3. QED
    BY <2>1, <2>2 DEF FreshUnjudged, Judged
<1>3. ASSUME NEW b \in Batches, BatchThrows(b) PROVE FreshUnjudged'
  BY <1>3 DEF BatchThrows, FreshUnjudged, Judged, TypeOK
<1>4. ASSUME NEW c \in Calls, Replace(c) PROVE FreshUnjudged'
  BY <1>4 DEF Replace, FreshUnjudged, Judged, TypeOK
<1>5. CASE UNCHANGED <<verdict, fresh>>
  BY <1>5 DEF FreshUnjudged, Judged
<1>6. QED
  BY <1>1, <1>2, <1>3, <1>4, <1>5
  DEF Next, Judges, AttemptStep, AttemptFault, AttemptStart, AuditStart,
      AuditStartTwice, Promote, PromoteLost, AuditSuccess, Complete, Throws,
      AuditFailure, Dies, Turn, RulesStep, RulesSelect, RulesRecord, RulesApply,
      RulesDie, vars

\* A call is judged again only by a batch that had selected it before it got its
\* first verdict.
THEOREM SecondVerdictsOverlap == Spec => JudgedAgainOnlyByOverlap
<1> DEFINE Again == \A c \in Calls :
        Judged(c) /\ verdict'[c] # verdict[c] /\ conf'[c] # "gone" =>
            \E b \in Batches : c \in batch[b] \ fresh[b]
<1>1. ASSUME TypeOK, FreshUnjudged, [Next]_vars PROVE [Again]_vars
  <2> USE DEF rules, verifier, promotion
  <2>1. ASSUME NEW b \in Batches, NEW c \in Calls, NEW d \in Decisions,
               BatchJudge(b, c, d)
        PROVE  Again
    BY <1>1, <2>1 DEF BatchJudge, WithVerdict, TypeOK, FreshUnjudged
  <2>2. ASSUME NEW c \in Calls, Replace(c) PROVE Again
    BY <1>1, <2>2 DEF Replace, TypeOK
  <2>3. CASE UNCHANGED verdict
    BY <2>3
  <2>4. QED
    BY <1>1, <2>1, <2>2, <2>3
    DEF Next, Judges, AttemptStep, AttemptFault, AttemptStart, AuditStart,
        AuditStartTwice, Promote, PromoteLost, AuditSuccess, Complete, Throws,
        AuditFailure, Dies, BatchStart, BatchThrows, Turn, RulesStep,
        RulesSelect, RulesRecord, RulesApply, RulesDie, vars
<1> HIDE DEF Again
<1>2. Spec => [](TypeOK /\ FreshUnjudged)
  BY TypeInit, TypeStep, FreshInit, FreshStep, PTL DEF Spec
<1>3. Spec => [][Again]_vars
  BY <1>1, <1>2, PTL DEF Spec
<1>4. QED
  BY <1>3 DEF JudgedAgainOnlyByOverlap, Again

-----------------------------------------------------------------------------
(* MlPromotion implements AuditTrail: an attempt is what goes on between    *)
(* the steps of its row, and IInv says that the two agree.                  *)

Cleared == {c \in Calls : "promote" \in ruled[c]}

LEMMA TrailInit == Init => Trail!Init
BY SetsAssumption DEF Init, Trail!Init, Approvals, Decisions

\* The changes of a row that AuditTrail writes field by field.
LEMMA TrailRows ==
  ASSUME NEW s \in Seq(AuditRows), NEW n \in DOMAIN s, NEW S, NEW h \in BOOLEAN, NEW t
  PROVE  /\ [s EXCEPT ![n].did = S, ![n].hit = @ \/ h]
              = [s EXCEPT ![n] = [s[n] EXCEPT !.did = S, !.hit = s[n].hit \/ h]]
         /\ [s EXCEPT ![n].hit = TRUE] = [s EXCEPT ![n] = [s[n] EXCEPT !.hit = TRUE]]
         /\ [s EXCEPT ![n].status = t, ![n].promoted = S]
              = [s EXCEPT ![n] = [s[n] EXCEPT !.status = t, !.promoted = S]]
<1>1. s[n] \in AuditRows
  BY RowRead
<1>2. QED
  BY <1>1 DEF AuditRows

\* A row changes and nothing else does.
LEMMA RowMoves ==
  ASSUME IInv, NEW e \in Attempts, Active(e), UNCHANGED <<conf, verdict, ruled>>,
         \/ audit' = Hit(e, audit) /\ att[e].pc \in {"opened", "raised", "recorded", "failing"}
         \/ AuditSuccess(e)
         \/ AuditFailure(e)
  PROVE  Trail!Next
<1>1. /\ audit \in Seq(AuditRows) /\ att[e].id \in DOMAIN audit
      /\ Row(e) \in AuditRows /\ Agree(att[e], Row(e)) /\ RowTrue(Row(e), conf)
  BY RowTypes DEF IInv, TypeOK, AuditRows, AttemptsAgree, RowsTrue, Row
<1>2. PICK n \in DOMAIN audit : n = att[e].id
  BY <1>1
<1>3. audit[n] = Row(e) /\ UNCHANGED Approvals
  BY <1>2 DEF Row, Approvals
<1>4. CASE audit' = Hit(e, audit) /\ att[e].pc \in {"opened", "raised", "recorded", "failing"}
  <2>1. Trail!Strike(n)
    BY <1>1, <1>2, <1>3, <1>4 DEF Trail!Strike, Hit, Agree
  <2>2. QED
    BY <2>1 DEF Trail!Next
<1>5. CASE AuditSuccess(e)
  <2>1. PICK S \in SUBSET Row(e).did : S = att[e].got
    BY <1>1, <1>5 DEF AuditSuccess, Agree
  <2>2. Row(e).hit \/ S = Row(e).did
    BY <1>1, <1>5, <2>1 DEF AuditSuccess, Agree, AuditRows
  <2>3. Trail!Succeed(n)
    BY <1>1, <1>2, <1>3, <1>5, <2>1, <2>2 DEF AuditSuccess, Trail!Succeed, Agree
  <2>4. QED
    BY <2>3 DEF Trail!Next
<1>6. CASE AuditFailure(e)
  <2>1. Trail!Fail(n)
    BY <1>1, <1>2, <1>3, <1>6 DEF AuditFailure, Trail!Fail, Agree
  <2>2. QED
    BY <2>1 DEF Trail!Next
<1>7. QED
  BY <1>4, <1>5, <1>6

\* The UPDATE takes what is due at that moment to the row of its attempt.
LEMMA RowRaises ==
  ASSUME IInv, NEW e \in Attempts, att[e].pc = "opened", UNCHANGED <<verdict, ruled>>,
         conf' = Raised(e), audit' = Did(e) \/ audit' = Hit(e, Did(e))
  PROVE  Trail!Next
<1>a. Active(e)
  BY DEF Active
<1>1. /\ audit \in Seq(AuditRows) /\ att[e].id \in DOMAIN audit
      /\ Row(e) \in AuditRows /\ Agree(att[e], Row(e))
      /\ att[e].cands \subseteq Calls
  BY <1>a, RowTypes DEF IInv, TypeOK, AuditRows, AttemptsAgree
<1>2. PICK n \in DOMAIN audit : n = att[e].id
  BY <1>1
<1>3. PICK P \in {Accepts[f] : f \in Attempts} : P = Accepts[e]
  OBVIOUS
<1>4. audit[n] = Row(e) /\ UNCHANGED Approvals
  BY <1>2 DEF Row, Approvals
<1>5. P \subseteq Models
  BY <1>3, SetsAssumption
<1>6. \A c \in Calls : Approved(e, c) <=> \E m \in P : <<c, m>> \in Approvals
  BY <1>3, <1>5 DEF Approved, Approvals
<1>7. Trail!Due(n, P) = Raises(e)
  BY <1>1, <1>4, <1>6 DEF Trail!Due, Raises, Agree
<1>8. PICK h \in BOOLEAN : audit' = [audit EXCEPT ![n] =
                  [Row(e) EXCEPT !.did = Raises(e), !.hit = Row(e).hit \/ h]]
  <2>1. CASE audit' = Did(e)
    <3>1. [Row(e) EXCEPT !.did = Raises(e)]
            = [Row(e) EXCEPT !.did = Raises(e), !.hit = Row(e).hit \/ FALSE]
      BY <1>1 DEF AuditRows
    <3>2. audit' = [audit EXCEPT ![n] = [Row(e) EXCEPT !.did = Raises(e)]]
      BY <1>2, <1>a, <2>1, RowUpdates DEF Did, IInv
    <3>3. QED
      BY <3>1, <3>2
  <2>2. CASE audit' = Hit(e, Did(e))
    <3>1. [Row(e) EXCEPT !.did = Raises(e), !.hit = TRUE]
            = [Row(e) EXCEPT !.did = Raises(e), !.hit = Row(e).hit \/ TRUE]
      BY <1>1 DEF AuditRows
    <3>2. audit' = [audit EXCEPT ![n] = [Row(e) EXCEPT !.did = Raises(e), !.hit = TRUE]]
      BY <1>2, <1>a, <2>2, RowUpdates DEF IInv
    <3>3. QED
      BY <3>1, <3>2
  <2>3. QED
    BY <2>1, <2>2
<1>9. audit' = [audit EXCEPT ![n].did = Trail!Due(n, P), ![n].hit = @ \/ h]
  <2> DEFINE D == Raises(e)
  <2> DEFINE r == Row(e)
  <2> HIDE DEF D, r
  <2>1. audit[n] = r /\ Trail!Due(n, P) = D
    BY <1>4, <1>7 DEF D, r
  <2>2. audit' = [audit EXCEPT ![n] = [r EXCEPT !.did = D, !.hit = r.hit \/ h]]
    BY <1>8 DEF D, r
  <2>3. [audit EXCEPT ![n].did = D, ![n].hit = @ \/ h]
          = [audit EXCEPT ![n] = [r EXCEPT !.did = D, !.hit = r.hit \/ h]]
    BY <1>1, <2>1, TrailRows, Zenon
  <2>4. QED
    BY <2>1, <2>2, <2>3, Zenon
<1>10. conf' = [c \in Calls |-> IF c \in Trail!Due(n, P) THEN "high" ELSE conf[c]]
  BY <1>7 DEF Raised
<1>11. Trail!Raise(n, P)
  BY <1>1, <1>4, <1>9, <1>10 DEF Trail!Raise, Agree
<1>12. QED
  BY <1>11 DEF Trail!Next

LEMMA RowsOpen ==
  ASSUME IInv, NEW e \in Attempts, AuditStart(e) \/ AuditStartTwice(e)
  PROVE  Trail!Open
<1> DEFINE y == AuditRow(e, FALSE)
<1> DEFINE z == AuditRow(e, TRUE)
<1>1. audit \in Seq(AuditRows) /\ y \in AuditRows /\ z \in AuditRows
  BY NewRowTypes DEF IInv, TypeOK, AuditRows
<1>2. Trail!NewRow(y) /\ Trail!NewRow(z)
  BY DEF Trail!NewRow, AuditRow, IInv, TypeOK, Kinds
<1>3. audit' = Append(audit, y) \/ audit' = audit \o <<z, y>>
  BY DEF AuditStart, AuditStartTwice
<1>4. UNCHANGED <<conf, verdict, ruled>>
  BY DEF AuditStart, AuditStartTwice, rules, verifier
<1> HIDE DEF y, z
<1>5. /\ Len(audit') \in {Len(audit) + 1, Len(audit) + 2}
      /\ \A i \in DOMAIN audit : audit'[i] = audit[i]
      /\ \A i \in DOMAIN audit' \ DOMAIN audit : audit'[i] \in {y, z}
  <2>1. CASE audit' = Append(audit, y)
    BY <1>1, <2>1, RowAdded
  <2>2. CASE audit' = audit \o <<z, y>>
    BY <1>1, <2>2, TwoRowsAdded
  <2>3. QED
    BY <1>3, <2>1, <2>2
<1>6. UNCHANGED Approvals
  BY <1>4 DEF Approvals
<1>7. QED
  BY <1>2, <1>4, <1>5, <1>6 DEF Trail!Open

\* A call is cleared with the first PROMOTE on record.
LEMMA RulesClear ==
  ASSUME IInv, NEW v \in Validators, NEW c \in Calls, RulesRecord(v, c)
  PROVE  [Trail!Next]_(Trail!vars)
<1> USE DEF rules, verifier, promotion
<1>t. ruled \in [Calls -> SUBSET Rulings]
  BY DEF IInv, TypeOK
<1>1. UNCHANGED <<conf, verdict, audit>> /\ UNCHANGED Approvals
  BY DEF RulesRecord, Approvals
<1>2. CASE conf[c] # "gone" /\ Ruling(v, c) = "promote"
  <2>1. Cleared' = Cleared \cup {c}
    BY <1>t, <1>2 DEF RulesRecord, Cleared
  <2>2. Trail!Clear(c)
    BY <1>1, <1>2, <2>1 DEF Trail!Clear, Cleared
  <2>3. QED
    BY <2>2, Zenon DEF Trail!Next
<1>3. CASE ~(conf[c] # "gone" /\ Ruling(v, c) = "promote")
  <2>1. \A k \in Calls : "promote" \in ruled'[k] <=> "promote" \in ruled[k]
    BY <1>t, <1>3 DEF RulesRecord, Ruling
  <2>2. Cleared' = Cleared
    BY <2>1 DEF Cleared
  <2>3. QED
    BY <1>1, <2>2 DEF Trail!vars, Cleared
<1>4. QED
  BY <1>2, <1>3

\* The rules raise what has been cleared.
LEMMA RulesRaiseCleared ==
  ASSUME IInv, OnRecord, NEW v \in Validators, RulesApply(v)
  PROVE  Trail!Next
<1> USE DEF rules, verifier, promotion
<1>1. UNCHANGED <<verdict, audit, ruled>> /\ UNCHANGED Approvals
      /\ UNCHANGED Cleared
  BY DEF RulesApply, Approvals, Cleared
<1>2. PICK S \in SUBSET Cleared :
        conf' = [c \in Calls |->
                    IF c \in S /\ conf[c] # "gone" THEN "high" ELSE conf[c]]
  <2>1. val[v].todo = {} /\ val[v].due \subseteq Calls
    BY DEF RulesApply, IInv, TypeOK
  <2>2. PICK R \in SUBSET val[v].due :
            conf' = [c \in Calls |->
                    IF c \in R /\ conf[c] # "gone" THEN "high" ELSE conf[c]]
    BY DEF RulesApply
  <2>3. {c \in R : conf[c] # "gone"} \in SUBSET Cleared
    BY <2>1 DEF OnRecord, Cleared
  <2>4. WITNESS {c \in R : conf[c] # "gone"} \in SUBSET Cleared
  <2>5. QED
    BY <2>1, <2>2
<1>3. conf \in [Calls -> {"low", "high", "gone"}]
  BY DEF IInv, TypeOK
<1>4. conf' = [c \in Calls |->
                 IF c \in S /\ conf[c] = "low" THEN "high" ELSE conf[c]]
  BY <1>2, <1>3
<1>5. Trail!RaiseCleared
  BY <1>1, <1>4 DEF Trail!RaiseCleared, Cleared
<1>6. QED
  BY <1>5 DEF Trail!Next

LEMMA TrailStep ==
  ASSUME IInv, OnRecord, [Next]_vars
  PROVE  [Trail!Next]_(Trail!vars)
<1> USE DEF rules, verifier, promotion
<1>a. UNCHANGED <<conf, verdict, audit, ruled>> => UNCHANGED Trail!vars
  BY DEF Trail!vars, Approvals
<1>t. /\ conf \in [Calls -> {"low", "high", "gone"}]
      /\ verdict \in [Calls -> [Models -> Decisions \cup {None}]]
      /\ ruled \in [Calls -> SUBSET Rulings]
      /\ \A e \in Attempts :
            att[e].pc \in {"idle", "selected", "opened", "raised", "recorded", "failing"}
  BY DEF IInv, TypeOK
<1>1. ASSUME NEW b \in Batches, NEW c \in Calls, NEW d \in Decisions,
             BatchJudge(b, c, d)
      PROVE  Trail!Next
  <2>1. PICK m \in Models : m = ModelOf[b]
    BY SetsAssumption
  <2>2. \A k \in Calls, n \in Models :
            verdict'[k][n] = IF k = c /\ n = m THEN d ELSE verdict[k][n]
    BY <1>1, <1>t, <2>1 DEF BatchJudge, WithVerdict
  <2>3. Approvals' = IF d = "approve" THEN Approvals \cup {<<c, m>>}
                                      ELSE Approvals \ {<<c, m>>}
    BY <2>2 DEF Approvals
  <2>4. Trail!Judge(c, m)
    BY <1>1, <2>3 DEF BatchJudge, Trail!Judge
  <2>5. QED
    BY <2>4, Zenon DEF Trail!Next
<1>2. ASSUME NEW c \in Calls, Replace(c) PROVE Trail!Next
  <2>1. \A k \in Calls, n \in Models :
            verdict'[k][n] = IF k = c THEN None ELSE verdict[k][n]
    BY <1>2, <1>t DEF Replace
  <2>2. Approvals' = Approvals \ ({c} \X Models)
    BY <2>1, SetsAssumption DEF Approvals, Decisions
  <2>3. Cleared' = Cleared \ {c}
    BY <1>2, <1>t DEF Replace, Cleared
  <2>5. Trail!Withdraw(c)
    BY <1>2, <2>2, <2>3 DEF Replace, Trail!Withdraw, Cleared
  <2>4. QED
    BY <2>5, Zenon DEF Trail!Next
<1>3. ASSUME NEW e \in Attempts, AuditStart(e) \/ AuditStartTwice(e) PROVE Trail!Next
  BY <1>3, RowsOpen DEF Trail!Next
<1>4. ASSUME NEW e \in Attempts, Promote(e) \/ PromoteLost(e) PROVE Trail!Next
  BY <1>4, RowRaises DEF Promote, PromoteLost
<1>5. ASSUME NEW e \in Attempts,
             AuditSuccess(e) \/ AuditFailure(e) \/ Throws(e)
                \/ (Dies(e) /\ att[e].pc # "selected")
      PROVE  Trail!Next
  BY <1>5, <1>t, RowMoves DEF AuditSuccess, AuditFailure, Throws, Dies, Active
<1>6. ASSUME NEW e \in Attempts, Dies(e), att[e].pc = "selected"
      PROVE  UNCHANGED <<conf, verdict, audit, ruled>>
  BY <1>6 DEF Dies
<1>7. ASSUME NEW v \in Validators, RulesStep(v) PROVE [Trail!Next]_(Trail!vars)
  <2>1. RulesSelect(v) \/ RulesDie(v) => UNCHANGED <<conf, verdict, audit, ruled>>
    BY DEF RulesSelect, RulesDie
  <2>2. QED
    BY <1>7, <1>a, <2>1, RulesClear, RulesRaiseCleared DEF RulesStep
<1>8. ASSUME NEW c \in Calls, NEW T \in Profiles, Turn(c, T)
      PROVE  UNCHANGED <<conf, verdict, audit, ruled>>
  BY <1>8 DEF Turn
<1>9. QED
  BY <1>1, <1>2, <1>3, <1>4, <1>5, <1>6, <1>7, <1>8, <1>a
  DEF Next, Judges, AttemptStep, AttemptFault, BatchStart, BatchThrows,
      AttemptStart, Complete, vars

\* Whatever overlaps, is lost, repeated or cut off, the verifier, the promotion
\* and the rules implement AuditTrail: a call is raised through one running row
\* that names it, and the row accounts for it, or it was cleared by the rules
\* before.
THEOREM TrailIsKept == Spec => KeepsTrail
BY RulesInvariant, TrailInit, TrailStep, PTL DEF Spec, KeepsTrail, Trail!Spec
=============================================================================
