----------------------------- MODULE RecoveryProofs -----------------------------
(***************************************************************************)
(* The recovery ledger for any set of runs and callers: rows are well      *)
(* typed, a successor is named once, lineages end, nothing that was        *)
(* claimed, blocked or withdrawn becomes resumable again, and what a claim *)
(* would be granted on has its body.  The argument goes row by row:        *)
(* RowStep lists what a method may do to one row, and the properties of    *)
(* the rows follow from that list and the invariant.  Those of the bodies  *)
(* need the lineages, which only grow and have one end each.               *)
(***************************************************************************)
EXTENDS RecoveryLedger, TLAPS

\* Calls in flight hold rows that exist, and a row that does not exist is empty.
CallsKnown == \A c \in Callers : call[c].runs \subseteq Known
AbsentIsEmpty == \A r \in Runs \ Known : row[r] = NoRow

\* The inductive invariant.
IInv == TypeOK /\ CallsKnown /\ AbsentIsEmpty /\ LineagesEnd /\ AllowedIsResumable

\* What one method does to one row, whatever the method.
RowStep(r) ==
  \/ row'[r] = row[r]
  \/ \E e \in Times : r \notin Known /\ row'[r] = [NoRow EXCEPT !.base = "resumable", !.allowed = TRUE, !.exp = e]
  \/ \E s \in Runs \ Known : r \in Known /\ row[r].succ \in {NoRun, s} /\ row'[r] = [row[r] EXCEPT !.succ = s]
  \/ \E s \in Runs \ Known : /\ r \in Known /\ row[r].succ = NoRun
                             /\ row'[r] = [row[r] EXCEPT !.succ = s, !.allowed = FALSE, !.over = "claimed"]
  \/ \E b \in Reasons : r \in Known /\ row'[r] = BlockedRow(r, b)
  \/ \E b \in Reasons : r \in Known /\ row'[r] = RetiredRow(r, Phase(r), b)
  \/ \E b \in Reasons : r \in Known /\ Phase(r) = "resumable" /\ row'[r] = RetiredRow(r, "blocked", b)
  \/ r \in Known /\ row'[r] = [row[r] EXCEPT !.allowed = FALSE]

\* The rows of a step: all typed, and each changed in one of those ways.
RowsStep == row' \in [Runs -> Row] /\ \A r \in Runs : RowStep(r)

-----------------------------------------------------------------------------
(* What RowStep implies for the row it changes.                            *)

\* A row that exists keeps existing, an absent one stays or is created with no
\* successor; a successor stays, or becomes a run that has no row; permission implies
\* a resumable phase and no blocker, after the step too.
LEMMA RowEffect ==
  ASSUME TypeOK, AbsentIsEmpty, AllowedIsResumable, NEW r \in Runs, RowStep(r), row' \in [Runs -> Row]
  PROVE  /\ r \in Known => r \in Known'
         /\ r \notin Known => row'[r].succ = NoRun
         /\ r \notin Known' => row'[r] = NoRow
         /\ \/ row'[r].succ = row[r].succ
            \/ row[r].succ = NoRun /\ row'[r].succ \in Runs \ Known
         /\ row'[r].allowed => Phase(r)' = "resumable" /\ row'[r].blocker = NoBlocker
<1> row[r] \in Row /\ row'[r] \in Row  BY DEF TypeOK
<1> r \in Known <=> row[r].base # "absent"  BY DEF Known
<1> r \in Known' <=> row'[r].base # "absent"  BY DEF Known
<1> r \notin Known => row[r] = NoRow  BY DEF AbsentIsEmpty
<1> NoRow.succ = NoRun /\ NoRow.base = "absent" /\ NoRow.allowed = FALSE  BY DEF NoRow
<1> row[r].allowed => Phase(r) = "resumable" /\ row[r].blocker = NoBlocker  BY DEF AllowedIsResumable
<1>1. CASE row'[r] = row[r]
  BY <1>1 DEF Phase
<1>2. CASE \E e \in Times : r \notin Known /\ row'[r] = [NoRow EXCEPT !.base = "resumable", !.allowed = TRUE, !.exp = e]
  BY <1>2 DEF Phase, NoRow
<1>3. CASE \E s \in Runs \ Known : r \in Known /\ row[r].succ \in {NoRun, s} /\ row'[r] = [row[r] EXCEPT !.succ = s]
  BY <1>3 DEF Phase, Row
<1>4. CASE \E s \in Runs \ Known : /\ r \in Known /\ row[r].succ = NoRun
                                   /\ row'[r] = [row[r] EXCEPT !.succ = s, !.allowed = FALSE, !.over = "claimed"]
  BY <1>4 DEF Phase, Row
<1>5. CASE \E b \in Reasons : r \in Known /\ row'[r] = BlockedRow(r, b)
  BY <1>5 DEF Phase, Row, BlockedRow
<1>6. CASE \E b \in Reasons : r \in Known /\ row'[r] = RetiredRow(r, Phase(r), b)
  BY <1>6 DEF Phase, Row, RetiredRow
<1>7. CASE \E b \in Reasons : r \in Known /\ Phase(r) = "resumable" /\ row'[r] = RetiredRow(r, "blocked", b)
  BY <1>7 DEF Phase, Row, RetiredRow
<1>8. CASE r \in Known /\ row'[r] = [row[r] EXCEPT !.allowed = FALSE]
  BY <1>8 DEF Phase, Row
<1>9. QED  BY <1>1, <1>2, <1>3, <1>4, <1>5, <1>6, <1>7, <1>8 DEF RowStep

\* A run that left the resumable phase, or lost its permission, does not get it back.
LEMMA RowFinal ==
  ASSUME TypeOK, NEW r \in Known, RowStep(r), row' \in [Runs -> Row]
  PROVE  /\ Phase(r) # "resumable" => Phase(r)' # "resumable"
         /\ ~row[r].allowed => ~row'[r].allowed
BY DEF TypeOK, RowStep, Known, Row, NoRow, BlockedRow, RetiredRow, Phases, Overrides, Phase

-----------------------------------------------------------------------------
(* Each method changes the rows only in those ways.                        *)

LEMMA CreateRows ==
  ASSUME TypeOK, NEW r \in Runs, NEW p \in Runs \cup {NoRun}, NEW e \in Times,
         CreateRecoveryRecord(r, p, e)
  PROVE  RowsStep
<1> USE DEF CreateRecoveryRecord
<1> NoRun \notin Runs  BY RunAssumption
<1> [NoRow EXCEPT !.base = "resumable", !.allowed = TRUE, !.exp = e] \in Row
  BY DEF NoRow, Row, Phases, Overrides, Reasons
<1> row \in [Runs -> Row]  BY DEF TypeOK
<1>1. ASSUME NEW q \in Runs  PROVE row'[q] \in Row /\ RowStep(q)
  <2>1. CASE q = r  BY <2>1 DEF RowStep
  <2>2. CASE q # r /\ q = p
    <3>1. row'[q] = [row[q] EXCEPT !.succ = r]  BY <2>2
    <3>2. row'[q] \in Row  BY <3>1 DEF Row
    <3>3. q \in Known /\ row[q].succ \in {NoRun, r} /\ r \in Runs \ Known  BY <2>2
    <3>4. QED  BY <3>1, <3>2, <3>3 DEF RowStep
  <2>3. CASE q # r /\ q # p  BY <2>3 DEF RowStep
  <2>4. QED  BY <2>1, <2>2, <2>3
<1>2. row' \in [Runs -> Row]  BY <1>1
<1>3. QED  BY <1>1, <1>2 DEF RowsStep

\* A method that rewrites one existing row.
LEMMA OneRow ==
  ASSUME TypeOK, NEW t \in Known, NEW new, row' = [row EXCEPT ![t] = new],
         new \in Row, row'[t] = new => RowStep(t)
  PROVE  RowsStep
<1> row \in [Runs -> Row] /\ t \in Runs  BY DEF TypeOK, Known
<1>1. row' \in [Runs -> Row]  OBVIOUS
<1>2. ASSUME NEW q \in Runs  PROVE RowStep(q)
  <2>1. CASE q = t  BY <2>1
  <2>2. CASE q # t  BY <2>2 DEF RowStep
  <2>3. QED  BY <2>1, <2>2
<1>3. QED  BY <1>1, <1>2 DEF RowsStep

\* The rows the blocking writes produce are typed.
LEMMA BlockedTyped ==
  ASSUME TypeOK, NEW t \in Runs, NEW b \in Reasons, NEW ph
  PROVE  BlockedRow(t, b) \in Row /\ RetiredRow(t, ph, b) \in Row
BY DEF TypeOK, Row, BlockedRow, RetiredRow, Phases, Overrides

LEMMA ClaimRows ==
  ASSUME TypeOK, NEW t \in Known, Claim(t)
  PROVE  RowsStep
<1> row[t] \in Row /\ t \in Runs  BY DEF TypeOK, Known
<1>1. CASE ClaimExpired(t)
  <2>1. "expired" \in Reasons  BY DEF Reasons
  <2>2. BlockedRow(t, "expired") \in Row  BY <2>1, BlockedTyped
  <2>3. QED  BY <1>1, <2>1, <2>2, OneRow DEF ClaimExpired, RowStep
<1>2. CASE \E s \in Runs : ClaimTerminal(t, s)
  <2>1. PICK s \in Runs : ClaimTerminal(t, s)  BY <1>2
  <2> DEFINE new == [row[t] EXCEPT !.succ = s, !.allowed = FALSE, !.over = "claimed"]
  <2>2. new \in Row  BY DEF Row, Overrides
  <2>3. row' = [row EXCEPT ![t] = new]  BY <2>1 DEF ClaimTerminal, TypeOK, Row
  <2>4. s \in Runs \ Known /\ row[t].succ = NoRun  BY <2>1 DEF ClaimTerminal
  <2>5. row'[t] = new => RowStep(t)  BY <2>4 DEF RowStep
  <2> HIDE DEF new
  <2>6. QED  BY <2>2, <2>3, <2>5, OneRow
<1>3. QED  BY <1>1, <1>2 DEF Claim

LEMMA SingleRows ==
  ASSUME TypeOK, NEW t \in Known,
         \/ DeleteRecoveryRecordBody(t)
         \/ CleanupOnSuccess(t)
         \/ \E b \in Blockers : MarkRecoveryBlocked(t, b)
  PROVE  RowsStep
<1> row[t] \in Row /\ t \in Runs  BY DEF TypeOK, Known
<1>1. CASE DeleteRecoveryRecordBody(t)
  <2> DEFINE b == OrBlocked(row[t].blocker)
  <2>1. b \in Reasons  BY DEF OrBlocked, Reasons, Row
  <2>2. RetiredRow(t, ReportedPhase(t), b) \in Row  BY <2>1, BlockedTyped
  <2>3. row' = [row EXCEPT ![t] = RetiredRow(t, ReportedPhase(t), b)]
    BY <1>1 DEF DeleteRecoveryRecordBody
  <2> HIDE DEF b
  <2>4. ReportedPhase(t) = Phase(t) \/ (ReportedPhase(t) = "blocked" /\ Phase(t) = "resumable")
    BY DEF ReportedPhase
  <2>5. row'[t] = RetiredRow(t, ReportedPhase(t), b) => RowStep(t)
    BY <2>1, <2>4 DEF RowStep
  <2>6. QED  BY <2>2, <2>3, <2>5, OneRow
<1>2. CASE CleanupOnSuccess(t)
  <2> DEFINE new == [row[t] EXCEPT !.allowed = FALSE]
  <2>1. new \in Row  BY DEF Row
  <2>2. row' = [row EXCEPT ![t] = new]  BY <1>2 DEF CleanupOnSuccess, TypeOK, Row
  <2>3. row'[t] = new => RowStep(t)  BY DEF RowStep
  <2> HIDE DEF new
  <2>4. QED  BY <2>1, <2>2, <2>3, OneRow
<1>3. CASE \E b \in Blockers : MarkRecoveryBlocked(t, b)
  <2>1. PICK b \in Blockers : MarkRecoveryBlocked(t, b)  BY <1>3
  <2>2. b \in Reasons  BY DEF Reasons
  <2>3. BlockedRow(t, b) \in Row  BY <2>2, BlockedTyped
  <2>4. QED  BY <2>1, <2>2, <2>3, OneRow DEF MarkRecoveryBlocked, RowStep
<1>4. QED  BY <1>1, <1>2, <1>3

LEMMA PruneRows ==
  ASSUME TypeOK, row' = PrunedRows
  PROVE  RowsStep
<1> row \in [Runs -> Row]  BY DEF TypeOK
<1>1. ASSUME NEW r \in Runs  PROVE row'[r] \in Row /\ RowStep(r)
  <2>1. CASE r \in Lapsed
    <3>1. "expired" \in Reasons /\ r \in Known  BY <2>1 DEF Reasons, Lapsed
    <3>2. row'[r] = RetiredRow(r, Phase(r), "expired")  BY <2>1 DEF PrunedRows
    <3>3. QED  BY <3>1, <3>2, BlockedTyped DEF RowStep
  <2>2. CASE r \notin Lapsed /\ r \in Superseded
    <3> DEFINE b == OrBlocked(row[r].blocker)
    <3>1. b \in Reasons /\ r \in Known  BY <2>2 DEF OrBlocked, Reasons, Row, Superseded
    <3>2. row'[r] = RetiredRow(r, Phase(r), b)  BY <2>2 DEF PrunedRows
    <3> HIDE DEF b
    <3>3. QED  BY <3>1, <3>2, BlockedTyped DEF RowStep
  <2>3. CASE r \notin Lapsed /\ r \notin Superseded  BY <2>3 DEF PrunedRows, RowStep
  <2>4. QED  BY <2>1, <2>2, <2>3
<1>2. row' = [r \in Runs |-> row'[r]]  BY DEF PrunedRows
<1>3. row' \in [Runs -> Row]  BY <1>1, <1>2
<1>4. QED  BY <1>1, <1>3 DEF RowsStep

\* The end of an asynchronous call rewrites the rows it holds.
LEMMA EndRows ==
  ASSUME TypeOK, CallsKnown, NEW c \in Callers, EndDelete(c) \/ EndCleanup(c)
  PROVE  RowsStep
<1> row \in [Runs -> Row] /\ call[c] \in Call  BY DEF TypeOK
<1> call[c].blocker \in Reasons  BY DEF Call
<1> \A r \in call[c].runs : r \in Known  BY DEF CallsKnown
<1>1. CASE EndDelete(c)
  <2>1. ASSUME NEW r \in Runs  PROVE row'[r] \in Row /\ RowStep(r)
    BY <1>1, BlockedTyped DEF EndDelete, RowStep
  <2>2. QED  BY <1>1, <2>1 DEF EndDelete, RowsStep
<1>2. CASE EndCleanup(c)
  <2>1. ASSUME NEW r \in Runs  PROVE row'[r] \in Row /\ RowStep(r)
    <3>1. row[r] \in Row  OBVIOUS
    <3>2. [row[r] EXCEPT !.allowed = FALSE] \in Row  BY <3>1 DEF Row
    <3>3. QED  BY <1>2, <3>1, <3>2 DEF EndCleanup, RowStep
  <2>2. QED  BY <1>2, <2>1 DEF EndCleanup, RowsStep
<1>3. QED  BY <1>1, <1>2

\* Rows that no step touched.
LEMMA SameRows ==
  ASSUME TypeOK, row' = row
  PROVE  RowsStep
BY DEF TypeOK, RowsStep, RowStep

LEMMA NextRows ==
  ASSUME TypeOK, CallsKnown, [Next]_vars
  PROVE  RowsStep
<1> Tails \subseteq Known  BY DEF Tails
<1>1. CASE UNCHANGED vars \/ Tick  BY <1>1, SameRows DEF vars, Tick
<1>2. CASE \E r \in Runs, p \in Runs \cup {NoRun}, e \in Times : CreateRecoveryRecord(r, p, e)
  BY <1>2, CreateRows
<1>3. CASE \E t \in Tails : \/ Claim(t) \/ DeleteRecoveryRecordBody(t) \/ CleanupOnSuccess(t)
                             \/ \E c \in Callers : BeginDelete(c, t) \/ BeginCleanup(c, t)
  BY <1>3, ClaimRows, SingleRows, SameRows DEF BeginDelete, BeginCleanup
<1>4. CASE \E r \in Known, b \in Blockers : MarkRecoveryBlocked(r, b)  BY <1>4, SingleRows
<1>5. CASE PruneExpiredRecoveries  BY <1>5, PruneRows DEF PruneExpiredRecoveries
<1>6. CASE \E c \in Callers : RemoveBody(c) \/ EndDelete(c) \/ EndCleanup(c) \/ BeginPrune(c)
                                \/ \E r \in Runs : PruneBody(c, r)
  BY <1>6, EndRows, PruneRows, SameRows DEF RemoveBody, BeginPrune, PruneBody
<1>7. QED  BY <1>1, <1>2, <1>3, <1>4, <1>5, <1>6 DEF Next

-----------------------------------------------------------------------------
(* The calls in flight and the bodies.                                     *)

LEMMA BeginCall ==
  ASSUME TypeOK, NEW c \in Callers, NEW op, NEW rs \in SUBSET Known, NEW b \in Reasons,
         Begin(c, op, rs, b)
  PROVE  /\ call' \in [Callers -> Call]
         /\ \A d \in Callers : call'[d].runs \subseteq call[d].runs \cup Known
<1> rs \subseteq Runs  BY DEF Known
<1> call \in [Callers -> Call]  BY DEF TypeOK
<1> [op |-> op, stage |-> "body", runs |-> rs, blocker |-> b] \in Call  BY DEF Begin, Call
<1> QED  BY DEF Begin

LEMMA NextCalls ==
  ASSUME TypeOK, [Next]_vars
  PROVE  /\ call' \in [Callers -> Call] /\ bodies' \subseteq Runs /\ now' \in Times
         /\ \A d \in Callers : call'[d].runs \subseteq call[d].runs \cup Known
<1> call \in [Callers -> Call] /\ bodies \subseteq Runs /\ now \in Times  BY DEF TypeOK
<1> Tails \subseteq Known /\ Known \subseteq Runs  BY DEF Tails, Known
<1> NoCall.runs = {}  BY DEF NoCall
<1>1. CASE UNCHANGED vars  BY <1>1 DEF vars
<1>2. CASE Tick  BY <1>2, TimeAssumption DEF Tick, Times
<1>3. CASE \E r \in Runs, p \in Runs \cup {NoRun}, e \in Times : CreateRecoveryRecord(r, p, e)
  BY <1>3 DEF CreateRecoveryRecord
<1>4. CASE \E t \in Tails : Claim(t) \/ DeleteRecoveryRecordBody(t) \/ CleanupOnSuccess(t)
  BY <1>4 DEF Claim, ClaimTerminal, ClaimExpired, DeleteRecoveryRecordBody, CleanupOnSuccess, Remove
<1>5. CASE \E t \in Tails, c \in Callers : BeginDelete(c, t) \/ BeginCleanup(c, t)
  <2>1. PICK t \in Tails, c \in Callers : BeginDelete(c, t) \/ BeginCleanup(c, t)  BY <1>5
  <2>2. row[t] \in Row  BY <2>1 DEF TypeOK
  <2>3. OrBlocked(ReportedBlocker(t)) \in Reasons /\ NoBlocker \in Reasons
    BY <2>2 DEF OrBlocked, ReportedBlocker, Reasons, Row
  <2>4. {t} \in SUBSET Known  BY <2>1
  <2>5. QED  BY <2>1, <2>3, <2>4, BeginCall DEF BeginDelete, BeginCleanup
<1>6. CASE \E r \in Known, b \in Blockers : MarkRecoveryBlocked(r, b)
  BY <1>6 DEF MarkRecoveryBlocked
<1>7. CASE PruneExpiredRecoveries  BY <1>7 DEF PruneExpiredRecoveries, Remove
<1>8. CASE \E c \in Callers : BeginPrune(c)
  <2>1. PICK c \in Callers : BeginPrune(c)  BY <1>8
  <2>2. Prunable \in SUBSET Known /\ NoBlocker \in Reasons
    BY DEF Prunable, Lapsed, Superseded, Reasons
  <2>3. QED  BY <2>1, <2>2, BeginCall DEF BeginPrune
<1>9. CASE \E c \in Callers : RemoveBody(c) \/ EndDelete(c) \/ EndCleanup(c)
                              \/ \E r \in Runs : PruneBody(c, r)
  <2>1. NoCall \in Call  BY DEF Call, NoCall, Reasons
  <2>2. PICK c \in Callers : RemoveBody(c) \/ EndDelete(c) \/ EndCleanup(c)
                             \/ \E r \in Runs : PruneBody(c, r)  BY <1>9
  <2>3. call[c] \in Call  OBVIOUS
  <2>4. CASE RemoveBody(c)
    <3>1. [call[c] EXCEPT !.stage = "row"] \in Call  BY <2>3 DEF Call
    <3>2. call' = [call EXCEPT ![c] = [call[c] EXCEPT !.stage = "row"]]
      BY <2>3, <2>4 DEF RemoveBody, Call
    <3>3. [call[c] EXCEPT !.stage = "row"].runs = call[c].runs  BY <2>3 DEF Call
    <3>4. QED  BY <2>4, <3>1, <3>2, <3>3 DEF RemoveBody, Remove
  <2>5. CASE EndDelete(c) \/ EndCleanup(c)  BY <2>1, <2>5 DEF EndDelete, EndCleanup
  <2>6. CASE \E r \in Runs : PruneBody(c, r)
    <3>1. PICK r \in Runs : PruneBody(c, r)  BY <2>6
    <3> DEFINE new == IF call[c].runs = {r} THEN NoCall ELSE [call[c] EXCEPT !.runs = @ \ {r}]
    <3>2. new \in Call /\ new.runs \subseteq call[c].runs  BY <2>1, <2>3 DEF Call
    <3>3. call' = [call EXCEPT ![c] = new]  BY <3>1 DEF PruneBody
    <3> HIDE DEF new
    <3>4. QED  BY <3>1, <3>2, <3>3 DEF PruneBody, Remove
  <2>7. QED  BY <2>2, <2>4, <2>5, <2>6
<1>10. QED  BY <1>1, <1>2, <1>3, <1>4, <1>5, <1>6, <1>7, <1>8, <1>9 DEF Next

-----------------------------------------------------------------------------
(* The inductive invariant.                                                *)

\* A set of rows with a row of the step's has one whose successor lies outside it.
LEMMA LineagesStep ==
  ASSUME IInv, RowsStep
  PROVE  LineagesEnd'
<1> USE DEF IInv, RowsStep
<1>1. SUFFICES ASSUME NEW S \in SUBSET Known', S # {}
               PROVE  \E r \in S : row'[r].succ \notin S
  BY DEF LineagesEnd
<1>2. S \subseteq Runs  BY <1>1 DEF Known
<1>3. CASE \E r \in S : r \notin Known
  <2>1. PICK r \in S : r \notin Known  BY <1>3
  <2>2. row'[r].succ = NoRun  BY <1>2, <2>1, RowEffect
  <2>3. QED  BY <1>2, <2>1, <2>2, RunAssumption
<1>4. CASE S \subseteq Known
  <2>1. PICK r \in S : row[r].succ \notin S  BY <1>1, <1>4 DEF LineagesEnd
  <2>2. row'[r].succ = row[r].succ \/ row'[r].succ \in Runs \ Known  BY <1>2, <2>1, RowEffect
  <2>3. QED  BY <1>4, <2>1, <2>2
<1>5. QED  BY <1>3, <1>4

LEMMA InitInv == Init => IInv
<1> SUFFICES ASSUME Init PROVE IInv  OBVIOUS
<1> NoRow \in Row /\ 0 \in Times
  BY TimeAssumption DEF NoRow, Row, Phases, Overrides, Reasons, Times
<1> NoCall \in Call  BY DEF NoCall, Call, Reasons
<1>1. TypeOK  BY DEF Init, TypeOK
<1>2. Known = {}  BY DEF Init, Known, NoRow
<1>3. CallsKnown  BY DEF Init, CallsKnown, NoCall
<1>4. QED  BY <1>1, <1>2, <1>3 DEF IInv, Init, AbsentIsEmpty, LineagesEnd, AllowedIsResumable, NoRow

LEMMA StepInv == IInv /\ [Next]_vars => IInv'
<1> SUFFICES ASSUME IInv, [Next]_vars PROVE IInv'  OBVIOUS
<1> USE DEF IInv
<1>1. RowsStep  BY NextRows
<1>2. TypeOK'  BY <1>1, NextCalls DEF TypeOK, RowsStep, Row, Call, Times
<1>3. Known \subseteq Known'
  <2>1. Known \subseteq Runs  BY DEF Known
  <2>2. QED  BY <1>1, <2>1, RowEffect DEF RowsStep
<1>4. CallsKnown'  BY <1>3, NextCalls DEF CallsKnown
<1>5. AbsentIsEmpty'  BY <1>1, RowEffect DEF AbsentIsEmpty, RowsStep
<1>6. LineagesEnd'  BY <1>1, LineagesStep
<1>7. AllowedIsResumable'  BY <1>1, RowEffect DEF AllowedIsResumable, RowsStep
<1>8. QED  BY <1>2, <1>4, <1>5, <1>6, <1>7

\* The invariant holds of every behaviour of the ledger.
THEOREM Invariant == Spec => []IInv
<1>1. Init => IInv  BY InitInv
<1>2. IInv /\ [Next]_vars => IInv'  BY StepInv
<1>3. QED  BY <1>1, <1>2, PTL DEF Spec

\* Rows, bodies, calls and the clock stay well typed.
THEOREM TypeCorrect == Spec => []TypeOK
BY Invariant, PTL DEF IInv

\* Whatever is created, claimed and pruned, following successors terminates.
THEOREM LineagesAlwaysEnd == Spec => []LineagesEnd
BY Invariant, PTL DEF IInv

\* A row that allows a resume is resumable in both columns and has no blocker.
THEOREM AllowedAlwaysResumable == Spec => []AllowedIsResumable
BY Invariant, PTL DEF IInv

\* A successor once named is never renamed.
THEOREM SuccessorUnique == Spec => OneSuccessor
<1>1. IInv /\ [Next]_vars =>
        [\A r \in Runs : row[r].succ # NoRun => row'[r].succ = row[r].succ]_vars
  <2> SUFFICES ASSUME IInv, [Next]_vars, NEW r \in Runs, row[r].succ # NoRun
               PROVE  row'[r].succ = row[r].succ
    OBVIOUS
  <2>1. RowsStep  BY NextRows DEF IInv
  <2>2. QED  BY <2>1, RowEffect DEF RowsStep, IInv
<1>2. QED  BY <1>1, Invariant, PTL DEF OneSuccessor, Spec

\* A claimed or blocked run is never resumable again, nor a permission given back.
THEOREM NeverAgainResumable == Spec => NeverReopened
<1>1. IInv /\ [Next]_vars =>
        [\A r \in Known : /\ Phase(r) # "resumable" => Phase(r)' # "resumable"
                          /\ ~row[r].allowed => ~row'[r].allowed]_vars
  <2> SUFFICES ASSUME IInv, [Next]_vars, NEW r \in Known
               PROVE  /\ Phase(r) # "resumable" => Phase(r)' # "resumable"
                      /\ ~row[r].allowed => ~row'[r].allowed
    OBVIOUS
  <2>1. RowsStep /\ r \in Runs  BY NextRows DEF IInv, Known
  <2>2. QED  BY <2>1, RowFinal DEF RowsStep, IInv
<1>2. QED  BY <1>1, Invariant, PTL DEF NeverReopened, Spec

-----------------------------------------------------------------------------
(* The lineages.  Lineage(r) is the least set that contains r and follows   *)
(* successors; it has one end, which is Latest(r).                          *)

LEMMA LineageFollows ==
  ASSUME NEW r \in Runs
  PROVE  r \in Lineage(r) /\ Lineage(r) \subseteq Runs /\ Followed(Lineage(r))
<1>1. r \in Lineage(r) /\ Lineage(r) \subseteq Runs  BY DEF Lineage
<1>2. ASSUME NEW s \in Lineage(r), row[s].succ \in Known  PROVE row[s].succ \in Lineage(r)
  <2>1. row[s].succ \in Runs  BY <1>2 DEF Known
  <2>2. SUFFICES ASSUME NEW S \in SUBSET Runs, r \in S, Followed(S)  PROVE row[s].succ \in S
    BY <2>1 DEF Lineage
  <2>3. s \in S  BY <2>2 DEF Lineage
  <2>4. QED  BY <1>2, <2>2, <2>3 DEF Followed
<1>3. QED  BY <1>1, <1>2 DEF Followed

\* It is the least such set.
LEMMA LineageLeast ==
  ASSUME NEW r \in Runs, NEW S \in SUBSET Runs, r \in S, Followed(S)
  PROVE  Lineage(r) \subseteq S
BY DEF Lineage

\* What a run leads to is itself or what its successor leads to, if that has a row.
LEMMA LineageSplit ==
  ASSUME NEW r \in Runs
  PROVE  /\ row[r].succ \notin Known => Lineage(r) = {r}
         /\ row[r].succ \in Known => Lineage(r) \subseteq {r} \cup Lineage(row[r].succ)
<1>1. ASSUME row[r].succ \notin Known  PROVE Lineage(r) = {r}
  <2>1. Followed({r})  BY <1>1 DEF Followed
  <2>2. QED  BY <2>1, LineageFollows, LineageLeast
<1>2. ASSUME row[r].succ \in Known  PROVE Lineage(r) \subseteq {r} \cup Lineage(row[r].succ)
  <2> DEFINE s == row[r].succ
             S == {r} \cup Lineage(s)
  <2>1. s \in Runs  BY <1>2 DEF Known
  <2>2. s \in Lineage(s) /\ Lineage(s) \subseteq Runs /\ Followed(Lineage(s))
    BY <2>1, LineageFollows
  <2>3. S \in SUBSET Runs /\ r \in S /\ Followed(S)  BY <2>2 DEF Followed
  <2> HIDE DEF S
  <2>4. Lineage(r) \subseteq S  BY <2>3, LineageLeast
  <2>5. QED  BY <2>4 DEF S
<1>3. QED  BY <1>1, <1>2

\* An end of a lineage is its only one, and the latest member.
LEMMA OneEnd ==
  ASSUME NEW r \in Runs, NEW t \in Lineage(r), row[t].succ \notin Known
  PROVE  Latest(r) = t
<1> DEFINE S == {x \in Lineage(r) : t \in Lineage(x)}
<1>1. r \in Lineage(r) /\ Lineage(r) \subseteq Runs /\ Followed(Lineage(r))  BY LineageFollows
<1>2. S \in SUBSET Runs /\ r \in S  BY <1>1
<1>3. ASSUME NEW x \in S, row[x].succ \in Known  PROVE row[x].succ \in S
  <2>1. x \in Runs /\ t \in Lineage(x) /\ x # t  BY <1>1, <1>3
  <2>2. t \in Lineage(row[x].succ)  BY <1>3, <2>1, LineageSplit
  <2>3. row[x].succ \in Lineage(r)  BY <1>1, <1>3 DEF Followed
  <2>4. QED  BY <2>2, <2>3
<1>4. Followed(S)  BY <1>3 DEF Followed
<1> HIDE DEF S
<1>5. Lineage(r) \subseteq S  BY <1>2, <1>4, LineageLeast
<1>6. ASSUME NEW u \in Lineage(r), row[u].succ \notin Known  PROVE u = t
  <2>1. u \in Runs /\ t \in Lineage(u)  BY <1>1, <1>5 DEF S
  <2>2. QED  BY <1>6, <2>1, LineageSplit
<1>7. QED  BY <1>6 DEF Latest

\* The same of every run, in any state, and so in the next one.
EndsAreLatest == \A r \in Runs : \A t \in Lineage(r) : row[t].succ \notin Known => Latest(r) = t

LEMMA AllEnds == EndsAreLatest
BY OneEnd DEF EndsAreLatest

LEMMA AllEndsNext == EndsAreLatest'
BY AllEnds, PTL

\* A run with a row leads to an end, because lineages end.
LEMMA LatestIsAnEnd ==
  ASSUME LineagesEnd, NEW r \in Known
  PROVE  Latest(r) \in Lineage(r) /\ row[Latest(r)].succ \notin Known
<1>1. Known \in SUBSET Runs /\ r \in Runs /\ Followed(Known)  BY DEF Known, Followed
<1>2. Lineage(r) \in SUBSET Known  BY <1>1, LineageLeast
<1>3. r \in Lineage(r) /\ Followed(Lineage(r))  BY <1>1, LineageFollows
<1>4. PICK t \in Lineage(r) : row[t].succ \notin Lineage(r)  BY <1>2, <1>3 DEF LineagesEnd
<1>5. row[t].succ \notin Known  BY <1>3, <1>4 DEF Followed
<1>6. QED  BY <1>5 DEF Latest

-----------------------------------------------------------------------------
(* What can be claimed has its body.                                       *)

\* What the asynchronous pruning still has to visit is blocked.
VisitedAreBlocked == \A c \in Callers : call[c].op = "prune" => \A r \in call[c].runs : row[r].base = "blocked"

\* A call in flight is about to withdraw the run; pruning another run of its lineage took
\* its body.
Withdrawn(r) == \E c \in Callers : call[c].op \in {"delete", "cleanup"} /\ r \in call[c].runs
LostToAncestor(r) == \E q \in Superseded : row[q].base = "blocked" /\ Latest(q) = r

BInv == IInv /\ VisitedAreBlocked /\ ClaimableHasBody

\* A step keeps the rows, the successors that lead to a row, and what is blocked.
LEMMA RowsKept ==
  ASSUME IInv, RowsStep, NEW r \in Known
  PROVE  /\ r \in Known'
         /\ row[r].succ # NoRun => row'[r].succ = row[r].succ
         /\ row[r].base = "blocked" => row'[r].base = "blocked"
<1> r \in Runs /\ RowStep(r) /\ row[r] \in Row /\ NoRun \notin Runs
  BY RunAssumption DEF Known, RowsStep, IInv, TypeOK
<1>1. r \in Known' /\ (row[r].succ # NoRun => row'[r].succ = row[r].succ)
  BY RowEffect DEF IInv, RowsStep
<1>2. row[r].base = "blocked" => row'[r].base = "blocked"
  BY DEF RowStep, Row, BlockedRow, RetiredRow
<1>3. QED  BY <1>1, <1>2

\* A lineage only grows.
LEMMA LineageGrows ==
  ASSUME IInv, RowsStep, NEW r \in Known
  PROVE  Lineage(r) \subseteq Lineage(r)'
<1>1. SUFFICES ASSUME NEW x \in Lineage(r), NEW S \in SUBSET Runs, r \in S, Followed(S)'
               PROVE  x \in S
  BY DEF Lineage
<1>2. Followed(S)
  <2>1. ASSUME NEW s \in S, row[s].succ \in Known  PROVE row[s].succ \in S
    <3>1. row[s].succ \in Runs  BY <2>1 DEF Known
    <3>2. row[s].succ # NoRun  BY <3>1, RunAssumption
    <3>3. s \in Known  BY <3>2 DEF IInv, AbsentIsEmpty, NoRow
    <3>4. row'[s].succ = row[s].succ  BY <3>2, <3>3, RowsKept
    <3>5. row[s].succ \in Known'  BY <2>1, RowsKept
    <3>6. QED  BY <1>1, <3>4, <3>5 DEF Followed
  <2>2. QED  BY <2>1 DEF Followed
<1>3. QED  BY <1>1, <1>2 DEF Lineage

\* A run that lost its body to an ancestor's pruning stays so while it is the latest.
LEMMA LostStays ==
  ASSUME IInv, RowsStep, NEW r \in Runs, LostToAncestor(r), row'[r].succ = NoRun
  PROVE  LostToAncestor(r)'
<1>1. PICK q \in Superseded : row[q].base = "blocked" /\ Latest(q) = r  BY DEF LostToAncestor
<1>2. q \in Known /\ q \in Runs /\ row[q].succ # NoRun  BY DEF Superseded, Known
<1>3. q \in Known' /\ row'[q].succ # NoRun /\ row'[q].base = "blocked"  BY <1>1, <1>2, RowsKept
<1>4. r \in Lineage(q)'
  <2>1. r \in Lineage(q)  BY <1>1, <1>2, LatestIsAnEnd DEF IInv
  <2>2. QED  BY <1>2, <2>1, LineageGrows
<1>5. NoRun \notin Known'  BY RunAssumption DEF Known
<1>6. (row[r].succ \notin Known)'  BY <1>5
<1>7. (Latest(q) = r)'  BY <1>2, <1>4, <1>6, AllEndsNext DEF EndsAreLatest
<1>8. q \in Superseded'  BY <1>3 DEF Superseded
<1>9. QED  BY <1>3, <1>7, <1>8 DEF LostToAncestor

\* Permission to claim implies that the row was never blocked.
LEMMA ClaimableIsFresh ==
  ASSUME TypeOK, NEW r \in Runs, Claimable(r)
  PROVE  r \in Known /\ row[r].base = "resumable" /\ row[r].succ = NoRun /\ row[r].allowed
<1>1. row[r] \in Row  BY DEF TypeOK
<1>2. QED  BY <1>1 DEF Claimable, Phase, Row, Phases, Overrides

\* A claim is granted after a step on what it was granted on before, or on a new row.
LEMMA ClaimableBefore ==
  ASSUME IInv, RowsStep, now \in Nat, now' \in Nat, now <= now', NEW r \in Known, Claimable(r)'
  PROVE  Claimable(r)
<1> r \in Runs /\ RowStep(r) /\ row[r] \in Row /\ row'[r] \in Row /\ NoRun \notin Runs
  BY RunAssumption DEF Known, RowsStep, IInv, TypeOK
<1>1. r \in Known' /\ row'[r].allowed /\ row'[r].succ = NoRun /\ Phase(r)' = "resumable" /\ ~Expired(r)'
  BY DEF Claimable
<1>2. row[r].allowed /\ Phase(r) = "resumable"  BY <1>1, RowFinal DEF IInv, RowsStep
<1>3. row[r].succ = NoRun  BY <1>1, RowEffect DEF IInv, RowsStep
<1>4. row'[r] = row[r]
  BY <1>1, <1>2 DEF RowStep, Known, Row, BlockedRow, RetiredRow
<1>5. ~Expired(r)
  <2>1. row[r].exp \in Nat  BY TimeAssumption DEF Row, Times
  <2>2. QED  BY <1>1, <1>4, <2>1 DEF Expired
<1>6. QED  BY <1>2, <1>3, <1>5 DEF Claimable

\* Time only passes.
LEMMA ClockForward ==
  ASSUME TypeOK, [Next]_vars
  PROVE  now \in Nat /\ now' \in Nat /\ now <= now'
<1>1. now \in Nat  BY TimeAssumption DEF TypeOK, Times
<1>2. now' = now \/ now' = now + 1
  BY DEF Next, vars, Tick, CreateRecoveryRecord, Claim, ClaimExpired, ClaimTerminal,
         DeleteRecoveryRecordBody, CleanupOnSuccess, BeginDelete, BeginCleanup, MarkRecoveryBlocked,
         PruneExpiredRecoveries, RemoveBody, EndDelete, EndCleanup, BeginPrune, PruneBody
<1>3. QED  BY <1>1, <1>2

\* Only a creation makes a row, and it writes the body.
LEMMA NewHasBody ==
  ASSUME IInv, [Next]_vars, NEW r \in Runs \ Known, r \in Known'
  PROVE  r \in bodies'
<1> row \in [Runs -> Row] /\ row[r].base = "absent" /\ row'[r].base # "absent"
  BY DEF Known, IInv, TypeOK
<1> row'[r] # row[r]  OBVIOUS
<1> Tails \subseteq Known  BY DEF Tails
<1>1. CASE \E q \in Runs, p \in Runs \cup {NoRun}, e \in Times : CreateRecoveryRecord(q, p, e)
  <2>1. PICK q \in Runs, p \in Runs \cup {NoRun}, e \in Times : CreateRecoveryRecord(q, p, e)
    BY <1>1
  <2>2. NoRun \notin Runs  BY RunAssumption
  <2>3. r = q  BY <2>1, <2>2 DEF CreateRecoveryRecord
  <2>4. QED  BY <2>1, <2>3 DEF CreateRecoveryRecord
<1>2. CASE UNCHANGED vars \/ Tick  BY <1>2 DEF vars, Tick
<1>3. CASE \E t \in Tails : \/ Claim(t) \/ DeleteRecoveryRecordBody(t) \/ CleanupOnSuccess(t)
                             \/ \E c \in Callers : BeginDelete(c, t) \/ BeginCleanup(c, t)
  <2>1. PICK t \in Tails : \/ Claim(t) \/ DeleteRecoveryRecordBody(t) \/ CleanupOnSuccess(t)
                           \/ \E c \in Callers : BeginDelete(c, t) \/ BeginCleanup(c, t)
    BY <1>3
  <2>2. t # r  BY <2>1
  <2>3. QED  BY <2>1, <2>2 DEF Claim, ClaimExpired, ClaimTerminal, DeleteRecoveryRecordBody,
                              CleanupOnSuccess, BeginDelete, BeginCleanup
<1>4. CASE \E t \in Known, b \in Blockers : MarkRecoveryBlocked(t, b)
  BY <1>4 DEF MarkRecoveryBlocked
<1>5. CASE row' = PrunedRows
  <2>1. r \notin Lapsed /\ r \notin Superseded  BY DEF Lapsed, Superseded
  <2>2. QED  BY <1>5, <2>1 DEF PrunedRows
<1>6. CASE \E c \in Callers : EndDelete(c) \/ EndCleanup(c)
  BY <1>6 DEF EndDelete, EndCleanup, CallsKnown, IInv
<1>7. CASE row' = row  BY <1>7
<1>8. QED
  BY <1>1, <1>2, <1>3, <1>4, <1>5, <1>6, <1>7
  DEF Next, PruneExpiredRecoveries, BeginPrune, RemoveBody, PruneBody

\* A body is removed by a method that withdraws the row in the same step, by a call
\* that will withdraw it, or by the pruning of a run that leads to it.
LEMMA BodyLoss ==
  ASSUME IInv, [Next]_vars, NEW r \in bodies, r \notin bodies'
  PROVE  \/ ~row'[r].allowed
         \/ \E c \in Callers : RemoveBody(c) /\ r \in call[c].runs
         \/ \E c \in Callers, q \in Runs : PruneBody(c, q) /\ Latest(q) = r
<1> r \in Runs /\ row \in [Runs -> Row]  BY DEF IInv, TypeOK
<1> Tails \subseteq Known /\ Known \subseteq Runs  BY DEF Tails, Known
<1>1. CASE \E t \in Tails : DeleteRecoveryRecordBody(t) \/ CleanupOnSuccess(t)
  <2>1. PICK t \in Tails : DeleteRecoveryRecordBody(t) \/ CleanupOnSuccess(t)  BY <1>1
  <2>2. r = t /\ row[r] \in Row  BY <2>1 DEF DeleteRecoveryRecordBody, CleanupOnSuccess, Remove
  <2>3. QED  BY <2>1, <2>2 DEF DeleteRecoveryRecordBody, CleanupOnSuccess, RetiredRow, Row
<1>2. CASE PruneExpiredRecoveries
  <2>1. r \in Prunable /\ row[r] \in Row  BY <1>2 DEF PruneExpiredRecoveries, Remove
  <2>2. row'[r].allowed = FALSE
    BY <1>2, <2>1 DEF PruneExpiredRecoveries, PrunedRows, Prunable, RetiredRow, Row
  <2>3. QED  BY <2>2
<1>3. CASE \E c \in Callers : RemoveBody(c)
  BY <1>3 DEF RemoveBody, Remove
<1>4. CASE \E c \in Callers, q \in Runs : PruneBody(c, q)
  BY <1>4 DEF PruneBody, Remove
<1>5. CASE bodies \subseteq bodies'  BY <1>5
<1>6. QED
  <2>1. \/ bodies \subseteq bodies'
        \/ \E t \in Tails : DeleteRecoveryRecordBody(t) \/ CleanupOnSuccess(t)
        \/ PruneExpiredRecoveries
        \/ \E c \in Callers : RemoveBody(c) \/ \E q \in Runs : PruneBody(c, q)
    BY DEF Next, vars, Tick, CreateRecoveryRecord, Claim, ClaimExpired, ClaimTerminal, BeginDelete,
           BeginCleanup, MarkRecoveryBlocked, EndDelete, EndCleanup, BeginPrune
  <2>2. QED  BY <1>1, <1>2, <1>3, <1>4, <1>5, <2>1

\* A deletion or a cleanup in flight ends only by withdrawing the rows it holds.
LEMMA WithdrawnStays ==
  ASSUME IInv, [Next]_vars, NEW r \in Runs, Withdrawn(r)
  PROVE  ~row'[r].allowed \/ Withdrawn(r)'
<1> row \in [Runs -> Row] /\ call \in [Callers -> Call]  BY DEF IInv, TypeOK
<1>1. PICK c \in Callers : call[c].op \in {"delete", "cleanup"} /\ r \in call[c].runs
  BY DEF Withdrawn
<1>2. CASE call'[c] = call[c]  BY <1>1, <1>2 DEF Withdrawn
<1>3. CASE \E d \in Callers : EndDelete(d) \/ EndCleanup(d)
  <2>1. PICK d \in Callers : EndDelete(d) \/ EndCleanup(d)  BY <1>3
  <2>2. CASE d # c  BY <1>2, <2>1, <2>2 DEF EndDelete, EndCleanup
  <2>3. CASE d = c
    <3>1. row[r] \in Row  OBVIOUS
    <3>2. row'[r].allowed = FALSE
      BY <1>1, <2>1, <2>3, <3>1 DEF EndDelete, EndCleanup, BlockedRow, Row
    <3>3. QED  BY <3>2
  <2>4. QED  BY <2>2, <2>3
<1>4. CASE \E d \in Callers : RemoveBody(d)
  <2>1. PICK d \in Callers : RemoveBody(d)  BY <1>4
  <2>2. call[c] \in Call  OBVIOUS
  <2>3. call'[c].op = call[c].op /\ call'[c].runs = call[c].runs
    BY <2>1, <2>2 DEF RemoveBody, Call
  <2>4. QED  BY <1>1, <2>3 DEF Withdrawn
<1>5. CASE \E d \in Callers : BeginPrune(d) \/ \E t \in Tails : BeginDelete(d, t) \/ BeginCleanup(d, t)
  BY <1>1, <1>2, <1>5 DEF BeginPrune, BeginDelete, BeginCleanup, Begin
<1>6. CASE \E d \in Callers, q \in Runs : PruneBody(d, q)
  BY <1>1, <1>2, <1>6 DEF PruneBody
<1>7. CASE call' = call  BY <1>2, <1>7
<1>8. QED
  BY <1>3, <1>4, <1>5, <1>6, <1>7
  DEF Next, vars, Tick, CreateRecoveryRecord, Claim, ClaimExpired, ClaimTerminal, MarkRecoveryBlocked,
      DeleteRecoveryRecordBody, CleanupOnSuccess, PruneExpiredRecoveries

\* Pruning starts with blocked rows, and blocked rows stay blocked.
LEMMA VisitedStep ==
  ASSUME IInv, VisitedAreBlocked, [Next]_vars
  PROVE  VisitedAreBlocked'
<1> row \in [Runs -> Row] /\ call \in [Callers -> Call]  BY DEF IInv, TypeOK
<1>1. RowsStep  BY NextRows DEF IInv
<1>2. SUFFICES ASSUME NEW c \in Callers, call'[c].op = "prune", NEW r \in call'[c].runs
               PROVE  row'[r].base = "blocked"
  BY DEF VisitedAreBlocked
<1>3. CASE call[c].op = "prune" /\ r \in call[c].runs
  <2>1. r \in Known /\ row[r].base = "blocked"  BY <1>3 DEF VisitedAreBlocked, CallsKnown, IInv
  <2>2. QED  BY <1>1, <2>1, RowsKept
<1>4. CASE BeginPrune(c)
  <2>1. r \in Prunable /\ row' = PrunedRows  BY <1>4 DEF BeginPrune, Begin
  <2>2. r \in Runs /\ row[r] \in Row  BY <2>1 DEF Prunable, Lapsed, Superseded, Known
  <2>3. QED  BY <2>1, <2>2 DEF PrunedRows, Prunable, RetiredRow, Row
<1>5. QED
  <2>1. \/ call'[c] = call[c]
        \/ \E d \in Callers : \/ RemoveBody(d) \/ EndDelete(d) \/ EndCleanup(d) \/ BeginPrune(d)
                              \/ \E q \in Runs : PruneBody(d, q)
                              \/ \E t \in Tails : BeginDelete(d, t) \/ BeginCleanup(d, t)
    BY DEF Next, vars, Tick, CreateRecoveryRecord, Claim, ClaimExpired, ClaimTerminal,
           MarkRecoveryBlocked, DeleteRecoveryRecordBody, CleanupOnSuccess, PruneExpiredRecoveries
  <2>2. CASE call'[c] = call[c]  BY <1>2, <1>3, <2>2
  <2>3. ASSUME NEW d \in Callers, call'[c] # call[c], RemoveBody(d)  PROVE FALSE
    <3>1. d = c /\ call[c] \in Call  BY <2>3 DEF RemoveBody
    <3>2. call'[c].op = call[c].op  BY <2>3, <3>1 DEF RemoveBody, Call
    <3>3. QED  BY <1>2, <2>3, <3>1, <3>2 DEF RemoveBody
  <2>4. ASSUME NEW d \in Callers, call'[c] # call[c], EndDelete(d) \/ EndCleanup(d)  PROVE FALSE
    BY <1>2, <2>4 DEF EndDelete, EndCleanup, NoCall
  <2>5. ASSUME NEW d \in Callers, call'[c] # call[c], BeginPrune(d)  PROVE row'[r].base = "blocked"
    <3>1. d = c  BY <2>5 DEF BeginPrune, Begin
    <3>2. QED  BY <1>4, <2>5, <3>1
  <2>6. ASSUME NEW d \in Callers, call'[c] # call[c], NEW q \in Runs, PruneBody(d, q)
        PROVE  row'[r].base = "blocked"
    <3>1. d = c /\ call[c] \in Call /\ call[c].op = "prune"  BY <2>6 DEF PruneBody
    <3>2. call[c].runs # {q}  BY <1>2, <2>6, <3>1 DEF PruneBody, NoCall
    <3>3. call'[c] = [call[c] EXCEPT !.runs = @ \ {q}]  BY <2>6, <3>1, <3>2 DEF PruneBody
    <3>4. r \in call[c].runs  BY <1>2, <3>1, <3>3 DEF Call
    <3>5. QED  BY <1>3, <3>1, <3>4
  <2>7. ASSUME NEW d \in Callers, call'[c] # call[c], NEW t \in Tails, BeginDelete(d, t) \/ BeginCleanup(d, t)
        PROVE  FALSE
    BY <1>2, <2>7 DEF BeginDelete, BeginCleanup, Begin
  <2>8. QED  BY <2>1, <2>2, <2>3, <2>4, <2>5, <2>6, <2>7

\* Whichever way a claimable run stands to its body, it has one of them after the step.
LEMMA ClaimableStep ==
  ASSUME BInv, [Next]_vars
  PROVE  ClaimableHasBody'
<1> USE DEF BInv
<1>1. RowsStep  BY NextRows DEF IInv
<1>2. SUFFICES ASSUME NEW r \in Runs, Claimable(r)'
               PROVE  r \in bodies' \/ Withdrawn(r)' \/ LostToAncestor(r)'
  BY DEF ClaimableHasBody, Withdrawn, LostToAncestor
<1>3. r \in Known' /\ row'[r].allowed /\ row'[r].succ = NoRun  BY <1>2 DEF Claimable
<1>4. CASE r \notin Known  BY <1>3, <1>4, NewHasBody
<1>5. CASE r \in Known
  <2>1. Claimable(r)  BY <1>1, <1>2, <1>5, ClockForward, ClaimableBefore DEF IInv
  <2>2. r \in bodies \/ Withdrawn(r) \/ LostToAncestor(r)
    BY <2>1 DEF ClaimableHasBody, Withdrawn, LostToAncestor
  <2>3. CASE LostToAncestor(r)  BY <1>1, <1>3, <2>3, LostStays
  <2>4. CASE Withdrawn(r)  BY <1>3, <2>4, WithdrawnStays
  <2>5. CASE r \in bodies /\ r \notin bodies'
    <3>1. CASE \E c \in Callers : RemoveBody(c) /\ r \in call[c].runs
      <4>1. Withdrawn(r)  BY <3>1 DEF RemoveBody, Withdrawn
      <4>2. QED  BY <2>4, <4>1
    \* The run pruned is not r, which was never blocked, so it has a successor.
    <3>2. CASE \E c \in Callers, q \in Runs : PruneBody(c, q) /\ Latest(q) = r
      <4>1. PICK c \in Callers, q \in Runs : PruneBody(c, q) /\ Latest(q) = r  BY <3>2
      <4>2. q \in Known /\ row[q].base = "blocked"
        BY <4>1 DEF PruneBody, VisitedAreBlocked, CallsKnown, IInv
      <4>3. q # r  BY <2>1, <4>2, ClaimableIsFresh DEF IInv
      <4>4. row[q].succ # NoRun
        <5>1. SUFFICES ASSUME row[q].succ = NoRun PROVE FALSE  OBVIOUS
        <5>2. row[q].succ \notin Known  BY <5>1, RunAssumption DEF Known
        <5>3. Latest(q) = q  BY <5>2, LineageFollows, OneEnd
        <5>4. QED  BY <4>1, <4>3, <5>3
      <4>5. LostToAncestor(r)  BY <4>1, <4>2, <4>4 DEF LostToAncestor, Superseded
      <4>6. QED  BY <2>3, <4>5
    <3>3. QED  BY <1>3, <2>5, <3>1, <3>2, BodyLoss DEF IInv
  <2>6. QED  BY <2>2, <2>3, <2>4, <2>5
<1>6. QED  BY <1>4, <1>5

\* The invariant with the bodies.
THEOREM BodyInvariant == Spec => []BInv
<1>1. Init => BInv
  <2> SUFFICES ASSUME Init PROVE BInv  OBVIOUS
  <2>1. Known = {}  BY DEF Init, Known, NoRow
  <2>2. ClaimableHasBody  BY <2>1 DEF ClaimableHasBody, Claimable
  <2>3. VisitedAreBlocked  BY DEF Init, NoCall, VisitedAreBlocked
  <2>4. QED  BY <2>2, <2>3, InitInv DEF BInv
<1>2. BInv /\ [Next]_vars => BInv'  BY StepInv, VisitedStep, ClaimableStep DEF BInv
<1>3. QED  BY <1>1, <1>2, PTL DEF Spec

\* A run a claim would be granted on has its body, unless a call in flight is about to
\* withdraw it or an earlier run of its lineage was pruned: for any runs and callers,
\* over every interleaving of removals with claims.
THEOREM ClaimableKeepsBody == Spec => []ClaimableHasBody
BY BodyInvariant, PTL DEF BInv
=============================================================================
