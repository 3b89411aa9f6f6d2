----------------------------- MODULE RecoveryLedger -----------------------------
(***************************************************************************)
(* The standalone recovery ledger (ledger/store.ts): one row per failed    *)
(* run, linked into a lineage by successor identities, claimed once,       *)
(* blocked, expired and pruned; and the continuation body each row refers  *)
(* to.  A synchronous method is one transaction; an asynchronous one is a  *)
(* begin and an end, with the removal of the body between them.            *)
(***************************************************************************)
EXTENDS Naturals, FiniteSets

CONSTANTS Runs,      \* run identities
          NoRun,     \* no run: the successor column is null
          Callers,   \* processes with at most one asynchronous call in flight
          AsyncOps,  \* which of them are used: subset of {"delete", "cleanup", "prune"}
          Blockers,  \* reasons markRecoveryBlocked is called with
          MaxTime    \* bound: the clock stops here

ASSUME AsyncAssumption == AsyncOps \subseteq {"delete", "cleanup", "prune"}
ASSUME RunAssumption == NoRun \notin Runs
ASSUME TimeAssumption == MaxTime \in Nat

NoBlocker == "none"

VARIABLES row,     \* standalone_recovery and its status overrides
          bodies,  \* runs whose continuation body file exists
          call,    \* the asynchronous call of each caller
          now

vars == <<row, bodies, call, now>>

-----------------------------------------------------------------------------
Phases == {"absent", "resumable", "blocked"}
Overrides == {"none", "claimed", "blocked"}
Reasons == Blockers \cup {"expired", "blocked", NoBlocker}
Times == 0..MaxTime

Row == [base : Phases, over : Overrides, allowed : BOOLEAN, blocker : Reasons,
        succ : Runs \cup {NoRun}, exp : Times]
NoRow == [base |-> "absent", over |-> "none", allowed |-> FALSE, blocker |-> NoBlocker,
          succ |-> NoRun, exp |-> 0]
Call == [op : AsyncOps \cup {"none"}, stage : {"body", "row"}, runs : SUBSET Runs, blocker : Reasons]
NoCall == [op |-> "none", stage |-> "body", runs |-> {}, blocker |-> NoBlocker]

Known == {r \in Runs : row[r].base # "absent"}
Phase(r) == IF row[r].over # "none" THEN row[r].over ELSE row[r].base
Expired(r) == row[r].exp <= now

\* The runs that following successors from r passes, as long as their rows exist.
Followed(S) == \A s \in S : row[s].succ \in Known => row[s].succ \in S
Lineage(r) == {q \in Runs : \A S \in SUBSET Runs : r \in S /\ Followed(S) => q \in S}

\* The latest member of a lineage, where following successors ends.
Latest(r) == CHOOSE t \in Lineage(r) : row[t].succ \notin Known

\* A status read reports an expired resumable row as blocked, without writing it.
ReportedPhase(r) == IF Phase(r) = "resumable" /\ Expired(r) THEN "blocked" ELSE Phase(r)
ReportedBlocker(r) ==
  IF Phase(r) = "resumable" /\ Expired(r) THEN "expired" ELSE row[r].blocker

BlockedRow(r, b) == [row[r] EXCEPT !.base = "blocked", !.over = "blocked", !.allowed = FALSE, !.blocker = b]

\* Shared by deletion and pruning: the row keeps a claim, but can be claimed no more.
RetiredRow(r, phase, b) ==
  [row[r] EXCEPT !.base = "blocked", !.allowed = FALSE, !.blocker = b,
                 !.over = IF phase = "resumable" THEN "blocked" ELSE @]

OrBlocked(b) == IF b = NoBlocker THEN "blocked" ELSE b

\* A removal that fails is ignored by the code and leaves a file nothing refers to.
Remove(rs) == bodies' = bodies \ rs

Init ==
  /\ row = [r \in Runs |-> NoRow]
  /\ bodies = {}
  /\ call = [c \in Callers |-> NoCall]
  /\ now = 0

-----------------------------------------------------------------------------
\* Mutant: a row that exists is written over.
CreateAgain(r, p, exp) ==
  /\ p \in Known \cup {NoRun}
  /\ p # NoRun => row[p].succ \in {NoRun, r}
  /\ row' = [row EXCEPT ![r] = [NoRow EXCEPT !.base = "resumable", !.allowed = TRUE, !.exp = exp]]
  /\ bodies' = bodies \cup {r}
  /\ UNCHANGED <<call, now>>

\* The body of a run is written before its row.  A predecessor is linked forward;
\* a row that has another successor refuses, and so does the cycle check, which
\* can only fail on such a row.
CreateRecoveryRecord(r, p, exp) ==
  /\ r \notin Known
  /\ p \in Known \cup {NoRun}
  /\ p # NoRun => row[p].succ \in {NoRun, r}
  /\ row' = [q \in Runs |->
               IF q = r THEN [NoRow EXCEPT !.base = "resumable", !.allowed = TRUE, !.exp = exp]
               ELSE IF q = p THEN [row[q] EXCEPT !.succ = r]
               ELSE row[q]]
  /\ bodies' = bodies \cup {r}
  /\ UNCHANGED <<call, now>>

\* Mutant: the claim does not look at the successor's identity.
ClaimAnySuccessor(t, s) ==
  /\ ~Expired(t) /\ row[t].blocker = NoBlocker /\ row[t].allowed
  /\ row[t].succ = NoRun /\ Phase(t) = "resumable"
  /\ row' = [row EXCEPT ![t].succ = s, ![t].allowed = FALSE, ![t].over = "claimed"]
  /\ UNCHANGED <<bodies, call, now>>

\* Mutant: the update is not conditional on the successor and the flag.
ClaimTwice(t, s) ==
  /\ ~Expired(t) /\ row[t].blocker = NoBlocker
  /\ s \notin Known
  /\ row' = [row EXCEPT ![t].succ = s, ![t].allowed = FALSE, ![t].over = "claimed"]
  /\ UNCHANGED <<bodies, call, now>>

\* t is the latest member of the lineage the caller named, s the identity it
\* wants for the successor.
ClaimTerminal(t, s) ==
  /\ ~Expired(t) /\ row[t].blocker = NoBlocker /\ row[t].allowed
  /\ s \notin Known
  /\ row[t].succ = NoRun /\ Phase(t) = "resumable"
  /\ row' = [row EXCEPT ![t].succ = s, ![t].allowed = FALSE, ![t].over = "claimed"]
  /\ UNCHANGED <<bodies, call, now>>

\* An expired latest member is blocked, whatever its phase.
ClaimExpired(t) ==
  /\ Expired(t)
  /\ row' = [row EXCEPT ![t] = BlockedRow(t, "expired")]
  /\ UNCHANGED <<bodies, call, now>>

MarkRecoveryBlocked(r, b) ==
  /\ row' = [row EXCEPT ![r] = BlockedRow(r, b)]
  /\ UNCHANGED <<bodies, call, now>>

\* Mutant: the body goes and the row stays as it was.
DeleteBodyOnly(t) ==
  /\ Remove({t})
  /\ UNCHANGED <<row, call, now>>

DeleteRecoveryRecordBody(t) ==
  /\ Remove({t})
  /\ row' = [row EXCEPT ![t] = RetiredRow(t, ReportedPhase(t), OrBlocked(row[t].blocker))]
  /\ UNCHANGED <<call, now>>

CleanupOnSuccess(t) ==
  /\ Remove({t})
  /\ row' = [row EXCEPT ![t].allowed = FALSE]
  /\ UNCHANGED <<call, now>>

-----------------------------------------------------------------------------
(* Pruning.  No method completes a recovery row, so the class of completed  *)
(* rows is empty.                                                           *)

Lapsed == {r \in Known : Expired(r) /\ Phase(r) = "resumable"}
Superseded == {r \in Known : row[r].succ # NoRun}
Prunable == Lapsed \cup Superseded

PrunedRows ==
  [r \in Runs |->
     IF r \in Lapsed THEN RetiredRow(r, Phase(r), "expired")
     ELSE IF r \in Superseded THEN RetiredRow(r, Phase(r), OrBlocked(row[r].blocker))
     ELSE row[r]]

PruneExpiredRecoveries ==
  /\ Prunable # {}
  /\ row' = PrunedRows
  /\ Remove(Prunable)
  /\ UNCHANGED <<call, now>>

-----------------------------------------------------------------------------
(* The asynchronous variants.                                              *)

Begin(c, op, rs, b) ==
  /\ call[c].op = "none" /\ op \in AsyncOps
  /\ call' = [call EXCEPT ![c] = [op |-> op, stage |-> "body", runs |-> rs, blocker |-> b]]

\* The status is read once, before the body is removed.
BeginDelete(c, t) ==
  /\ Begin(c, "delete", {t}, OrBlocked(ReportedBlocker(t)))
  /\ UNCHANGED <<row, bodies, now>>

BeginCleanup(c, t) ==
  /\ Begin(c, "cleanup", {t}, NoBlocker)
  /\ UNCHANGED <<row, bodies, now>>

RemoveBody(c) ==
  /\ call[c].op \in {"delete", "cleanup"} /\ call[c].stage = "body"
  /\ Remove(call[c].runs)
  /\ call' = [call EXCEPT ![c].stage = "row"]
  /\ UNCHANGED <<row, now>>

EndDelete(c) ==
  /\ call[c].op = "delete" /\ call[c].stage = "row"
  /\ row' = [r \in Runs |-> IF r \in call[c].runs THEN BlockedRow(r, call[c].blocker) ELSE row[r]]
  /\ call' = [call EXCEPT ![c] = NoCall]
  /\ UNCHANGED <<bodies, now>>

EndCleanup(c) ==
  /\ call[c].op = "cleanup" /\ call[c].stage = "row"
  /\ row' = [r \in Runs |-> IF r \in call[c].runs THEN [row[r] EXCEPT !.allowed = FALSE] ELSE row[r]]
  /\ call' = [call EXCEPT ![c] = NoCall]
  /\ UNCHANGED <<bodies, now>>

\* The rows are pruned first, with no store to remove bodies from.
BeginPrune(c) ==
  /\ Prunable # {}
  /\ Begin(c, "prune", Prunable, NoBlocker)
  /\ row' = PrunedRows
  /\ UNCHANGED <<bodies, now>>

\* For each pruned run a fresh status names the body to remove, and a status
\* names the latest member of the lineage.
PruneBody(c, r) ==
  /\ call[c].op = "prune" /\ r \in call[c].runs
  /\ Remove({Latest(r)})
  /\ call' = [call EXCEPT ![c] = IF call[c].runs = {r} THEN NoCall ELSE [call[c] EXCEPT !.runs = @ \ {r}]]
  /\ UNCHANGED <<row, now>>

-----------------------------------------------------------------------------
Tick == now < MaxTime /\ now' = now + 1 /\ UNCHANGED <<row, bodies, call>>

\* The latest members of the lineages: claims, deletions and cleanups act on
\* the one the named run leads to.
Tails == {t \in Known : Latest(t) = t}

Claim(t) == ClaimExpired(t) \/ \E s \in Runs : ClaimTerminal(t, s)

Next ==
  \/ Tick
  \/ \E r \in Runs, p \in Runs \cup {NoRun}, e \in Times : CreateRecoveryRecord(r, p, e)
  \/ \E t \in Tails : \/ Claim(t) \/ DeleteRecoveryRecordBody(t) \/ CleanupOnSuccess(t)
                       \/ \E c \in Callers : BeginDelete(c, t) \/ BeginCleanup(c, t)
  \/ \E r \in Known, b \in Blockers : MarkRecoveryBlocked(r, b)
  \/ PruneExpiredRecoveries
  \/ \E c \in Callers : RemoveBody(c) \/ EndDelete(c) \/ EndCleanup(c) \/ BeginPrune(c)
                        \/ \E r \in Runs : PruneBody(c, r)

Spec == Init /\ [][Next]_vars

-----------------------------------------------------------------------------
TypeOK ==
  /\ row \in [Runs -> Row]
  /\ bodies \subseteq Runs
  /\ call \in [Callers -> Call]
  /\ now \in Times

\* "There is never more than one direct successor per failed run": over any claims,
\* creations, deletions and prunings, a successor once named is never renamed.
OneSuccessor == [][\A r \in Runs : row[r].succ # NoRun => row'[r].succ = row[r].succ]_vars

\* Lineages end: every set of rows has one whose successor lies outside it, so
\* following successors terminates although successors are named before they exist.
LineagesEnd == \A S \in SUBSET Known : S # {} => \E r \in S : row[r].succ \notin S

\* Fail closed: a row that still allows a resume is resumable in both of its
\* columns and carries no blocker, whichever method touched it last.
AllowedIsResumable ==
  \A r \in Runs : row[r].allowed => Phase(r) = "resumable" /\ row[r].blocker = NoBlocker

\* A run that was claimed or blocked is never resumable again, and a permission
\* once withdrawn is never given back, also by the end of an asynchronous call
\* that read the row before it was claimed.
NeverReopened ==
  [][\A r \in Known : /\ Phase(r) # "resumable" => Phase(r)' # "resumable"
                      /\ ~row[r].allowed => ~row'[r].allowed]_vars

\* A claim would be granted on r.
Claimable(r) ==
  r \in Known /\ Phase(r) = "resumable" /\ row[r].allowed /\ row[r].succ = NoRun /\ ~Expired(r)

\* What a claim would be granted on still has the body a resume needs, except while
\* a call that is about to withdraw the row is in flight, or when an earlier run of
\* its lineage was pruned (see PruneTakesItsBody).
ClaimableHasBody ==
  \A r \in Runs : Claimable(r) =>
    \/ r \in bodies
    \/ \E c \in Callers : call[c].op \in {"delete", "cleanup"} /\ r \in call[c].runs
    \/ \E q \in Superseded : row[q].base = "blocked" /\ Latest(q) = r

\* "Each pruned row becomes non-resumable and its continuation body is deleted": the
\* removal made for a pruned run takes that run's body, and no other.
PruneTakesItsBody ==
  [][\A c \in Callers, r \in Runs : PruneBody(c, r) => bodies' = bodies \ {r}]_vars
=============================================================================
