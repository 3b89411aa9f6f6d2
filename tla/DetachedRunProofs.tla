---------------------------- MODULE DetachedRunProofs ----------------------------
(***************************************************************************)
(* Proofs about DetachedRun and its routes, for any items, commands, fixes    *)
(* and workers, and whatever fails: what a route calls a success, what it     *)
(* may never merge or sweep, and what a reader of the files is told.          *)
(***************************************************************************)
EXTENDS DetachedRun, SequenceTheorems, TLAPS

Disks == [request : BOOLEAN, live : BOOLEAN, manifest : BOOLEAN,
          failure : {"none", "worker", "review", "parallel"}, stray : BOOLEAN]

-----------------------------------------------------------------------------
(* The files of the run.                                                    *)

\* What any step may do to the files: put more on record, and take the heartbeat away
\* only when an end is on record.
FilesGrow ==
  /\ disk' \in Disks
  /\ disk.request => disk'.request
  /\ disk.manifest => disk'.manifest
  /\ disk.failure # "none" => disk'.failure # "none"
  /\ disk.live => disk'.live \/ disk'.manifest \/ disk'.failure # "none"

LEMMA ManifestGrows ==
  ASSUME disk \in Disks, writeManifest
  PROVE  FilesGrow /\ disk'.manifest /\ disk'.failure = disk.failure /\ disk'.request = disk.request
BY DEF writeManifest, Disks, FilesGrow

LEMMA FailureGrows ==
  ASSUME disk \in Disks, NEW kind \in {"worker", "review", "parallel"}, writeFailureArtifact(kind)
  PROVE  /\ FilesGrow /\ disk'.manifest = disk.manifest /\ disk'.failure = kind /\ disk'.request = disk.request
BY DEF writeFailureArtifact, Disks, FilesGrow

LEMMA FilesStay ==
  ASSUME disk \in Disks, UNCHANGED disk
  PROVE  FilesGrow
BY DEF FilesGrow

-----------------------------------------------------------------------------
(* One worker.                                                              *)

Singles == [pc : {"idle", "working", "salvage", "verify", "reviewing", "fixing", "finishing", "ended"},
            review : BOOLEAN, baseline : [Commands -> {"green", "red"}],
            results : [Commands -> {"pass", "identical", "new"}], suspects : SUBSET Commands,
            rev : Nat, wip : BOOLEAN, diff : Nat, checked : Nat \X BOOLEAN, blockers : BOOLEAN, fixes : Nat,
            outcome : {"none", "success", "failed", "threw"}, caveat : BOOLEAN,
            leftover : {"none", "described", "snapshot", "swept"}]

\* The reviewer's diff is of the revision the gate is about to see, and has seen.
SingleInv ==
  /\ single \in Singles
  /\ single.outcome # "none" => single.pc \in {"finishing", "ended"}
  /\ single.pc \in {"verify", "reviewing"} => single.diff = single.rev
  /\ single.pc = "reviewing" => single.checked = <<single.rev, single.wip>>
  /\ single.outcome \in {"success", "failed"} => disk.manifest
  /\ ShipIsReviewed

\* What a session leaves, and what becomes of it when its edits are rescued.
LEMMA LeftOf ==
  ASSUME single \in Singles, NEW s \in Left
  PROVE  /\ s \in Singles /\ s.outcome = single.outcome /\ s.pc = single.pc /\ s.review = single.review
         /\ s.fixes = single.fixes
<1>1. PICK rev \in {single.rev, single.rev + 1}, wip \in BOOLEAN : s = LeftAt(rev, wip)
  BY DEF Left
<1>2. rev \in Nat  BY <1>1 DEF Singles
<1>3. QED  BY <1>1, <1>2 DEF Singles, LeftAt

LEMMA RescuedOf ==
  ASSUME NEW s \in Singles, NEW t \in Rescued(s)
  PROVE  t \in Singles /\ t.outcome = s.outcome /\ t.pc = s.pc
<1>1. CASE t = s  BY <1>1
<1>2. CASE t = [s EXCEPT !.rev = @ + 1, !.wip = FALSE]
  <2> DEFINE n == s.rev + 1
  <2>1. n \in Nat  BY DEF Singles
  <2>2. t = [s EXCEPT !.rev = n, !.wip = FALSE]  BY <1>2
  <2> HIDE DEF n
  <2>3. QED  BY <2>1, <2>2 DEF Singles
<1>3. QED  BY <1>1, <1>2 DEF Rescued

LEMMA VerifiedOf ==
  ASSUME single \in Singles, NEW s \in Verified
  PROVE  /\ s \in Singles /\ s.checked = <<s.rev, s.wip>> /\ s.rev = single.rev /\ s.wip = single.wip
         /\ s.diff = single.diff /\ s.review = single.review /\ s.outcome = single.outcome /\ s.pc = single.pc
<1>1. PICK r \in Gates : s = [single EXCEPT !.results = r, !.checked = <<single.rev, single.wip>>]  BY DEF Verified
<1>2. r \in [Commands -> {"pass", "identical", "new"}]  BY DEF Gates
<1>3. <<single.rev, single.wip>> \in Nat \X BOOLEAN  BY DEF Singles
<1>4. QED  BY <1>1, <1>2, <1>3 DEF Singles

\* What a step of the route leaves decided, and what it tells the reader.
SingleTells ==
  /\ FilesGrow /\ disk'.request = disk.request
  /\ disk'.manifest => disk.manifest \/ single'.outcome \in {"success", "failed"}
  /\ single.outcome \in {"success", "failed"} => single'.outcome = single.outcome

\* A step that leaves the run undecided.
LEMMA SingleGoesOn ==
  ASSUME disk \in Disks, SingleInv, FilesGrow, disk'.manifest = disk.manifest, disk'.request = disk.request,
         single.outcome = "none", single' \in Singles, single'.outcome \in {"none", "threw"},
         single'.outcome = "threw" => single'.pc \in {"finishing", "ended"},
         single'.pc \in {"verify", "reviewing"} => single'.diff = single'.rev,
         single'.pc = "reviewing" => single'.checked = <<single'.rev, single'.wip>>
  PROVE  SingleInv' /\ SingleTells
BY DEF SingleInv, SingleTells, ShipIsReviewed

\* A step that decides it.
LEMMA SingleDecides ==
  ASSUME disk \in Disks, SingleInv, writeManifest, single.outcome = "none", single' \in Singles,
         single'.pc = "finishing", single'.outcome \in {"success", "failed"},
         single'.outcome = "success" =>
           /\ passed(single') /\ single'.checked = <<single'.rev, single'.wip>>
           /\ single'.review /\ ~single'.caveat => single'.diff = single'.rev /\ ~single'.blockers
  PROVE  SingleInv' /\ SingleTells
<1>1. FilesGrow /\ disk'.manifest /\ disk'.request = disk.request  BY ManifestGrows
<1>2. QED  BY <1>1 DEF SingleInv, SingleTells, ShipIsReviewed, passed

LEMMA SingleFails ==
  ASSUME disk \in Disks, SingleInv, single.outcome = "none", NEW left, left \subseteq Singles, FailsAfterRescue(left)
  PROVE  SingleInv' /\ SingleTells
<1>1. PICK s \in left : \E t \in Rescued(s) : single' = [t EXCEPT !.pc = "finishing", !.outcome = "threw"]
  BY DEF FailsAfterRescue
<1>2. PICK t \in Rescued(s) : single' = [t EXCEPT !.pc = "finishing", !.outcome = "threw"]  BY <1>1
<1>3. t \in Singles  BY <1>2, RescuedOf
<1>4. single' \in Singles /\ single'.pc = "finishing" /\ single'.outcome = "threw"  BY <1>2, <1>3 DEF Singles
<1>5. FilesGrow /\ disk'.manifest = disk.manifest /\ disk'.request = disk.request
  BY FailureGrows DEF FailsAfterRescue
<1>6. QED  BY <1>4, <1>5, SingleGoesOn

LEMMA SingleKeeps ==
  ASSUME disk \in Disks, SingleInv, StartSingle \/ SingleStep
  PROVE  SingleInv' /\ SingleTells
<1> DEFINE Goal == SingleInv' /\ SingleTells
<1>0. single \in Singles  BY DEF SingleInv
<1>1. CASE StartSingle
  <2>1. single.outcome = "none" /\ FilesGrow /\ UNCHANGED disk
    BY <1>1, FilesStay DEF StartSingle, At, SingleInv
  <2>2. CASE single' = [single EXCEPT !.pc = "ended", !.outcome = "threw"]
    <3>1. single' \in Singles /\ single'.pc = "ended" /\ single'.outcome = "threw"  BY <1>0, <2>2 DEF Singles
    <3>2. QED  BY <2>1, <3>1, SingleGoesOn
  <2>3. CASE \E review \in BOOLEAN, baseline \in [Commands -> {"green", "red"}] :
               single' = [single EXCEPT !.pc = "working", !.review = review, !.baseline = baseline]
    <3>1. PICK review \in BOOLEAN, baseline \in [Commands -> {"green", "red"}] :
            single' = [single EXCEPT !.pc = "working", !.review = review, !.baseline = baseline]
      BY <2>3
    <3>2. single' \in Singles /\ single'.pc = "working" /\ single'.outcome = "none"
      BY <1>0, <2>1, <3>1 DEF Singles
    <3>3. QED  BY <2>1, <3>2, SingleGoesOn
  <2>4. QED  BY <1>1, <2>2, <2>3 DEF StartSingle
<1>2. CASE WorkerYields
  <2>1. single.outcome = "none" /\ FilesGrow /\ UNCHANGED disk
    BY <1>2, FilesStay DEF WorkerYields, At, SingleInv
  <2>2. PICK s \in Left : \/ single' = [s EXCEPT !.pc = "verify", !.diff = s.rev]
                          \/ s.review /\ single' = [s EXCEPT !.pc = "finishing", !.outcome = "threw"]
    BY <1>2 DEF WorkerYields
  <2>3. s \in Singles /\ s.outcome = "none" /\ s.rev \in Nat
    <3>1. s \in Singles /\ s.outcome = "none"  BY <1>0, <2>1, LeftOf
    <3>2. QED  BY <3>1 DEF Singles
  <2>4. CASE single' = [s EXCEPT !.pc = "verify", !.diff = s.rev]
    <3>1. single' \in Singles /\ single'.pc = "verify" /\ single'.outcome = "none" /\ single'.diff = single'.rev
      BY <2>3, <2>4 DEF Singles
    <3>2. QED  BY <2>1, <3>1, SingleGoesOn
  <2>5. CASE single' = [s EXCEPT !.pc = "finishing", !.outcome = "threw"]
    <3>1. single' \in Singles /\ single'.pc = "finishing" /\ single'.outcome = "threw"  BY <2>3, <2>5 DEF Singles
    <3>2. QED  BY <2>1, <3>1, SingleGoesOn
  <2>6. QED  BY <2>2, <2>4, <2>5
<1>3. CASE WorkerFails
  <2>1. single.outcome = "none"  BY <1>3 DEF WorkerFails, At, SingleInv
  <2>2. Left \subseteq Singles  BY <1>0, LeftOf
  <2>3. QED  BY <1>3, <2>1, <2>2, SingleFails DEF WorkerFails
<1>4. CASE WorkerIncomplete
  <2>1. single.outcome = "none" /\ FilesGrow /\ UNCHANGED disk
    BY <1>4, FilesStay DEF WorkerIncomplete, At, SingleInv
  <2>2. PICK s \in Left : \E t \in Rescued(s) : single' = [t EXCEPT !.pc = "salvage"]
    BY <1>4 DEF WorkerIncomplete
  <2>3. PICK t \in Rescued(s) : single' = [t EXCEPT !.pc = "salvage"]  BY <2>2
  <2>4. s \in Singles /\ s.outcome = "none"  BY <1>0, <2>1, <2>2, LeftOf
  <2>5. t \in Singles /\ t.outcome = "none"  BY <2>3, <2>4, RescuedOf
  <2>6. single' \in Singles /\ single'.pc = "salvage" /\ single'.outcome = "none"  BY <2>3, <2>5 DEF Singles
  <2>7. QED  BY <2>1, <2>6, SingleGoesOn
<1>5. CASE Salvage
  <2>1. single.outcome = "none"  BY <1>5 DEF Salvage, At, SingleInv
  <2>2. PICK s \in Verified :
          \/ /\ passed(s) /\ writeManifest
             /\ single' = [s EXCEPT !.pc = "finishing", !.outcome = "success", !.caveat = TRUE]
          \/ ~passed(s) /\ FailsAfterRescue({s})
    BY <1>5 DEF Salvage
  <2>3. s \in Singles /\ s.checked = <<s.rev, s.wip>>  BY <1>0, VerifiedOf
  <2>4. CASE /\ passed(s) /\ writeManifest
             /\ single' = [s EXCEPT !.pc = "finishing", !.outcome = "success", !.caveat = TRUE]
    <3>1. /\ single' \in Singles /\ single'.pc = "finishing" /\ single'.outcome = "success" /\ single'.caveat
          /\ single'.results = s.results /\ single'.checked = s.checked /\ single'.rev = s.rev /\ single'.wip = s.wip
      BY <2>3, <2>4 DEF Singles
    <3>2. passed(single')  BY <2>4, <3>1 DEF passed
    <3>3. QED  BY <2>1, <2>3, <2>4, <3>1, <3>2, SingleDecides
  <2>5. CASE FailsAfterRescue({s})
    <3>1. {s} \subseteq Singles  BY <2>3
    <3>2. QED  BY <2>1, <2>5, <3>1, SingleFails
  <2>6. QED  BY <2>2, <2>4, <2>5
<1>6. CASE VerifyWork
  <2>1. single.outcome = "none" /\ single.diff = single.rev  BY <1>6 DEF VerifyWork, At, SingleInv
  <2>2. PICK s \in Verified :
          LET t == [s EXCEPT !.suspects = @ \cup specDefectSuspected(s)]
          IN  IF s.review /\ (passed(s) \/ actionable(s) # {})
              THEN single' = [t EXCEPT !.pc = "reviewing"] /\ UNCHANGED disk
              ELSE /\ single' = [t EXCEPT !.pc = "finishing", !.outcome = IF passed(s) THEN "success" ELSE "failed"]
                   /\ writeManifest
    BY <1>6 DEF VerifyWork
  <2>3. /\ s \in Singles /\ s.checked = <<s.rev, s.wip>> /\ s.diff = s.rev /\ s.outcome = "none"
    BY <1>0, <2>1, VerifiedOf
  <2> DEFINE t == [s EXCEPT !.suspects = @ \cup specDefectSuspected(s)]
  <2>4. /\ t \in Singles /\ t.checked = <<t.rev, t.wip>> /\ t.diff = t.rev /\ t.outcome = "none"
        /\ t.results = s.results /\ t.review = s.review
    <3> DEFINE u == s.suspects \cup specDefectSuspected(s)
    <3>1. u \in SUBSET Commands  BY <2>3 DEF Singles, specDefectSuspected
    <3>2. t = [s EXCEPT !.suspects = u]  OBVIOUS
    <3> HIDE DEF u, t
    <3>3. QED  BY <2>3, <3>1, <3>2 DEF Singles
  <2>5. /\ s.review /\ (passed(s) \/ actionable(s) # {}) => single' = [t EXCEPT !.pc = "reviewing"] /\ UNCHANGED disk
        /\ ~(s.review /\ (passed(s) \/ actionable(s) # {})) =>
             /\ single' = [t EXCEPT !.pc = "finishing", !.outcome = IF passed(s) THEN "success" ELSE "failed"]
             /\ writeManifest
    BY <2>2
  <2> HIDE DEF t
  <2>6. CASE s.review /\ (passed(s) \/ actionable(s) # {})
    <3>1. /\ single' \in Singles /\ single'.pc = "reviewing" /\ single'.outcome = "none"
          /\ single'.diff = single'.rev /\ single'.checked = <<single'.rev, single'.wip>>
      BY <2>4, <2>5, <2>6 DEF Singles
    <3>2. FilesGrow /\ UNCHANGED disk  BY <2>5, <2>6, FilesStay
    <3>3. QED  BY <2>1, <3>1, <3>2, SingleGoesOn
  <2>7. CASE ~(s.review /\ (passed(s) \/ actionable(s) # {}))
    <3> DEFINE o == IF passed(s) THEN "success" ELSE "failed"
    <3>1. single' = [t EXCEPT !.pc = "finishing", !.outcome = o] /\ writeManifest  BY <2>5, <2>7
    <3>2. o \in {"success", "failed"} /\ (o = "success" => passed(s))  OBVIOUS
    <3> HIDE DEF o
    <3>3. /\ single' \in Singles /\ single'.pc = "finishing" /\ single'.outcome = o /\ single'.review = t.review
          /\ single'.results = t.results /\ single'.checked = <<single'.rev, single'.wip>>
      BY <2>4, <3>1, <3>2 DEF Singles
    <3>4. o = "success" => passed(single') /\ ~single'.review
      BY <2>4, <2>7, <3>2, <3>3 DEF passed
    <3>5. QED  BY <2>1, <3>1, <3>2, <3>3, <3>4, SingleDecides
  <2>8. QED  BY <2>6, <2>7
<1>7. CASE ReviewFails
  <2>1. single.outcome = "none"  BY <1>7 DEF ReviewFails, At, SingleInv
  <2>2. single' \in Singles /\ single'.pc = "finishing" /\ single'.outcome = "threw"
    BY <1>0, <1>7 DEF ReviewFails, Finishes, Singles
  <2>3. FilesGrow /\ disk'.manifest = disk.manifest /\ disk'.request = disk.request
    BY <1>7, FailureGrows DEF ReviewFails
  <2>4. QED  BY <2>1, <2>2, <2>3, SingleGoesOn
<1>8. CASE Review
  <2>1. /\ single.outcome = "none" /\ single.diff = single.rev /\ single.checked = <<single.rev, single.wip>>
    BY <1>8 DEF Review, At, SingleInv
  <2>2. PICK blockers \in BOOLEAN :
          LET decision == decideFixLoop(blockers)
          IN  IF decision = "fix"
              THEN single' = [single EXCEPT !.pc = "fixing", !.blockers = blockers] /\ UNCHANGED disk
              ELSE /\ single' = [Finishes(IF decision = "ship" THEN "success" ELSE "failed") EXCEPT !.blockers = blockers]
                   /\ writeManifest
    BY <1>8 DEF Review
  <2>3. CASE decideFixLoop(blockers) = "fix"
    <3>1. single' = [single EXCEPT !.pc = "fixing", !.blockers = blockers] /\ UNCHANGED disk  BY <2>2, <2>3
    <3>2. single' \in Singles /\ single'.pc = "fixing" /\ single'.outcome = "none"
      BY <1>0, <2>1, <3>1 DEF Singles
    <3>3. QED  BY <2>1, <3>1, <3>2, FilesStay, SingleGoesOn
  <2>4. CASE decideFixLoop(blockers) # "fix"
    <3> DEFINE o == IF decideFixLoop(blockers) = "ship" THEN "success" ELSE "failed"
               f == Finishes(o)
    <3>1. single' = [f EXCEPT !.blockers = blockers] /\ writeManifest  BY <2>2, <2>4
    <3>2. o \in {"success", "failed"} /\ (o = "success" => passed(single) /\ ~blockers)  BY DEF decideFixLoop
    <3> HIDE DEF o
    <3>3. /\ f \in Singles /\ f.pc = "finishing" /\ f.outcome = o /\ f.results = single.results
          /\ f.checked = single.checked /\ f.rev = single.rev /\ f.wip = single.wip /\ f.diff = single.diff
      BY <1>0, <3>2 DEF Finishes, Singles
    <3> HIDE DEF f
    <3>4. /\ single' \in Singles /\ single'.pc = "finishing" /\ single'.outcome = o /\ single'.results = single.results
          /\ single'.checked = single.checked /\ single'.rev = single.rev /\ single'.wip = single.wip
          /\ single'.diff = single.diff /\ single'.blockers = blockers
      BY <3>1, <3>3 DEF Singles
    <3>5. o = "success" => passed(single')  BY <3>2, <3>4 DEF passed
    <3>6. QED  BY <2>1, <3>1, <3>2, <3>4, <3>5, SingleDecides
  <2>5. QED  BY <2>3, <2>4
<1>9. CASE FixYields
  <2>1. single.outcome = "none" /\ FilesGrow /\ UNCHANGED disk
    BY <1>9, FilesStay DEF FixYields, At, SingleInv
  <2>2. PICK s \in Left : \/ single' = [s EXCEPT !.pc = "verify", !.fixes = @ + 1, !.diff = s.rev]
                          \/ single' = [s EXCEPT !.pc = "finishing", !.fixes = @ + 1, !.outcome = "threw"]
    BY <1>9 DEF FixYields
  <2>3. s \in Singles /\ s.outcome = "none" /\ s.rev \in Nat /\ s.fixes + 1 \in Nat
    <3>1. s \in Singles /\ s.outcome = "none"  BY <1>0, <2>1, LeftOf
    <3>2. QED  BY <3>1 DEF Singles
  <2> DEFINE n == s.fixes + 1
  <2>4. CASE single' = [s EXCEPT !.pc = "verify", !.fixes = @ + 1, !.diff = s.rev]
    <3>1. single' = [s EXCEPT !.pc = "verify", !.fixes = n, !.diff = s.rev]  BY <2>4
    <3> HIDE DEF n
    <3>2. single' \in Singles /\ single'.pc = "verify" /\ single'.outcome = "none" /\ single'.diff = single'.rev
      BY <2>3, <3>1 DEF Singles, n
    <3>3. QED  BY <2>1, <3>2, SingleGoesOn
  <2>5. CASE single' = [s EXCEPT !.pc = "finishing", !.fixes = @ + 1, !.outcome = "threw"]
    <3>1. single' = [s EXCEPT !.pc = "finishing", !.fixes = n, !.outcome = "threw"]  BY <2>5
    <3>2. single' \in Singles /\ single'.pc = "finishing" /\ single'.outcome = "threw"
      BY <2>3, <3>1 DEF Singles
    <3>3. QED  BY <2>1, <3>2, SingleGoesOn
  <2>6. QED  BY <2>2, <2>4, <2>5
<1>10. CASE FixFails
  <2>1. single.outcome = "none"  BY <1>10 DEF FixFails, At, SingleInv
  <2>2. PICK s \in Left : single' = [s EXCEPT !.pc = "finishing", !.outcome = "threw"]  BY <1>10 DEF FixFails
  <2>3. s \in Singles  BY <1>0, <2>2, LeftOf
  <2>4. single' \in Singles /\ single'.pc = "finishing" /\ single'.outcome = "threw"  BY <2>2, <2>3 DEF Singles
  <2>5. FilesGrow /\ disk'.manifest = disk.manifest /\ disk'.request = disk.request
    BY <1>10, FailureGrows DEF FixFails
  <2>6. QED  BY <2>1, <2>4, <2>5, SingleGoesOn
<1>11. CASE Restore
  <2> DEFINE l == IF ~single.wip THEN "none" ELSE IF single.rev = 0 THEN "described" ELSE "snapshot"
  <2>1. single' = [single EXCEPT !.pc = "ended", !.leftover = l] /\ UNCHANGED disk  BY <1>11 DEF Restore
  <2>2. l \in {"none", "described", "snapshot"}  OBVIOUS
  <2> HIDE DEF l
  <2>3. /\ single' \in Singles /\ single'.pc = "ended" /\ single'.outcome = single.outcome
        /\ single'.results = single.results /\ single'.checked = single.checked /\ single'.rev = single.rev
        /\ single'.wip = single.wip /\ single'.review = single.review /\ single'.caveat = single.caveat
        /\ single'.diff = single.diff /\ single'.blockers = single.blockers
    BY <1>0, <2>1, <2>2 DEF Singles
  <2>4. QED  BY <2>1, <2>3, FilesStay DEF SingleInv, SingleTells, ShipIsReviewed, passed
<1>12. QED
  BY <1>1, <1>2, <1>3, <1>4, <1>5, <1>6, <1>7, <1>8, <1>9, <1>10, <1>11 DEF SingleStep

LEMMA NextDispatchKeeps ==
  ASSUME SingleInv, NextDispatch
  PROVE  SingleInv' /\ UNCHANGED disk /\ single'.outcome = single.outcome
<1>1. single' = [single EXCEPT !.leftover = "swept"] /\ UNCHANGED disk  BY DEF NextDispatch
<1>2. /\ single' \in Singles /\ single'.pc = single.pc /\ single'.outcome = single.outcome
      /\ single'.results = single.results /\ single'.checked = single.checked /\ single'.rev = single.rev
      /\ single'.wip = single.wip /\ single'.review = single.review /\ single'.caveat = single.caveat
      /\ single'.diff = single.diff /\ single'.blockers = single.blockers
  BY <1>1 DEF SingleInv, Singles
<1>3. QED  BY <1>1, <1>2 DEF SingleInv, ShipIsReviewed, passed

LEMMA SingleStays ==
  ASSUME SingleInv, FilesGrow, UNCHANGED single
  PROVE  SingleInv'
BY DEF SingleInv, FilesGrow, ShipIsReviewed, passed

-----------------------------------------------------------------------------
(* Several workers.                                                         *)

Runs == [pc : {"idle", "adding", "working", "rescuing", "stacking", "forgetting", "merging", "gating", "verifying",
               "cleaning", "reporting", "ended"},
         next : Int, swap : BOOLEAN, incomplete : SUBSET Workers, failed : BOOLEAN, expected : SUBSET Workers, landed : BOOLEAN,
         conflicts : BOOLEAN, verdict : {"none", "pass", "fail", "skipped"}, forget : SUBSET Int,
         outcome : {"none", "threw", "unresolved", "success", "failed"}]

\* All have ended, none of those that failed mid-work, and the unfinished ones are known.
Settled ==
  /\ \A i \in Workers : session[i] \in {"yielded", "failed"}
  /\ \A i \in Workers : session[i] = "failed" => relay[i] # "some"
  /\ run.incomplete = failures

\* The run merges, or has merged, and no error has stopped it.
OnMerge == run.pc \in {"merging", "gating", "verifying", "reporting"} \/ (run.pc = "cleaning" /\ run.outcome # "threw")
Gated == run.pc \in {"verifying", "reporting"} \/ (run.pc = "cleaning" /\ run.outcome # "threw")

ParallelInv ==
  /\ session \in [Workers -> {"none", "running", "yielded", "failed"}]
  /\ relay \in [Workers -> {"none", "some", "all"}]
  /\ work \in [Workers -> {"none", "own", "base", "stack"}]
  /\ run \in Runs
  /\ run.outcome # "none" => run.pc \in {"cleaning", "ended"}
  /\ run.pc = "cleaning" => run.outcome \in {"none", "threw"}
  /\ run.pc \in {"idle", "adding", "working", "rescuing"} => \A i \in Workers : work[i] \in {"none", "own"}
  /\ run.pc \in {"stacking", "forgetting"} => \A i \in Workers : work[i] # "base"
  /\ OnMerge => Settled /\ \A i \in Workers : work[i] # "stack"
  /\ run.pc = "gating" => run.landed
  /\ Gated => run.landed /\ \A i \in run.expected : work[i] # "own"
  /\ run.pc \in {"reporting"} \/ (run.pc = "cleaning" /\ run.outcome # "threw") =>
       run.verdict # "none" /\ (run.conflicts => run.verdict = "skipped")
  /\ (\E i \in Workers : work[i] = "base") => run.pc \notin {"idle", "adding", "working", "rescuing"}
  /\ run.outcome \in {"success", "failed"} => disk.manifest
  /\ PartialNeverMerged
  /\ GreenIsIntegrated

ParallelTells ==
  /\ FilesGrow /\ disk'.request = disk.request
  /\ disk'.manifest => disk.manifest \/ run'.outcome \in {"success", "failed"}
  /\ run.outcome \in {"success", "failed"} => run'.outcome = run.outcome

\* A step that leaves what the workers showed and did as it is, and decides no result.
LEMMA RunGoesOn ==
  ASSUME disk \in Disks, ParallelInv, UNCHANGED <<session, relay, work>>, FilesGrow, disk'.request = disk.request,
         disk'.manifest = disk.manifest,
         run' \in Runs, run.pc # "ended", run'.pc # "gating", run'.outcome \notin {"success", "failed"},
         run'.outcome # "none" => run'.pc \in {"cleaning", "ended"},
         run'.pc = "cleaning" => run'.outcome \in {"none", "threw"},
         run'.incomplete = run.incomplete,
         run'.pc \in {"idle", "adding", "working", "rescuing"} => run.pc \in {"idle", "adding", "working", "rescuing"},
         run'.pc \in {"stacking", "forgetting"} => run.pc \in {"rescuing", "stacking", "forgetting"},
         OnMerge' => OnMerge,
         Gated' => Gated /\ run'.landed /\ run'.expected = run.expected,
         run'.pc \in {"reporting"} \/ (run'.pc = "cleaning" /\ run'.outcome # "threw") =>
           run'.verdict # "none" /\ (run'.conflicts => run'.verdict = "skipped")
  PROVE  ParallelInv' /\ ParallelTells
<1>1. run.outcome \notin {"success", "failed"}  BY DEF ParallelInv
<1>2. OnMerge' => Settled' /\ \A i \in Workers : work'[i] # "stack"
  BY DEF ParallelInv, Settled, failures
<1>3. Gated' => run'.landed /\ \A i \in run'.expected : work'[i] # "own"
  BY DEF ParallelInv
<1>4. PartialNeverMerged'  BY DEF ParallelInv, PartialNeverMerged
<1>5. GreenIsIntegrated'  BY DEF GreenIsIntegrated
<1>6. ParallelTells  BY <1>1 DEF ParallelTells
<1>7. run'.pc \in {"idle", "adding", "working", "rescuing"} => \A i \in Workers : work'[i] \in {"none", "own"}
  BY DEF ParallelInv
<1>8. run'.pc \in {"stacking", "forgetting"} => \A i \in Workers : work'[i] # "base"  BY DEF ParallelInv
<1>9. (\E i \in Workers : work'[i] = "base") => run'.pc \notin {"idle", "adding", "working", "rescuing"}
  BY <1>7
<1>10. QED  BY <1>2, <1>3, <1>4, <1>5, <1>6, <1>7, <1>8, <1>9 DEF ParallelInv

LEMMA MergeErrorKeeps ==
  ASSUME disk \in Disks, ParallelInv, MergeError, UNCHANGED <<session, relay>>,
         run.pc \in {"merging", "gating", "verifying"},
         work' \in [Workers -> {"none", "own", "base", "stack"}]
  PROVE  ParallelInv' /\ ParallelTells
<1>1. /\ run' \in Runs /\ run'.pc = "cleaning" /\ run'.outcome = "threw"
  BY DEF MergeError, ParallelInv, Runs
<1>2. FilesGrow /\ disk'.manifest = disk.manifest /\ disk'.request = disk.request  BY FailureGrows DEF MergeError
<1>3. \A i \in Workers : session[i] = "failed" => relay[i] # "some"  BY DEF ParallelInv, OnMerge, Settled
<1>4. PartialNeverMerged' /\ GreenIsIntegrated'  BY <1>1, <1>3 DEF PartialNeverMerged, GreenIsIntegrated
<1>5. ~OnMerge' /\ ~Gated'  BY <1>1 DEF OnMerge, Gated
<1>6. run.outcome = "none"  BY DEF ParallelInv
<1>7. QED  BY <1>1, <1>2, <1>4, <1>5, <1>6 DEF ParallelInv, ParallelTells

LEMMA WorkersKeep ==
  ASSUME disk \in Disks, ParallelInv, NEW i \in Workers, WorkerStep(i)
  PROVE  ParallelInv' /\ ParallelTells
<1>1. run.pc = "working" /\ run.outcome = "none" /\ UNCHANGED disk
  BY DEF ParallelInv, WorkerStep, Edits, Commits, Ticks, Yields, Fails, Running
<1>2. /\ session' \in [Workers -> {"none", "running", "yielded", "failed"}]
      /\ relay' \in [Workers -> {"none", "some", "all"}]
      /\ work' \in [Workers -> {"none", "own", "base", "stack"}]
      /\ \A j \in Workers : work'[j] \in {"none", "own"}
  <2>1. CASE Edits(i)    BY <1>1, <2>1 DEF Edits, ParallelInv
  <2>2. CASE Commits(i)  BY <1>1, <2>2 DEF Commits, ParallelInv
  <2>3. CASE Ticks(i)
    <3>1. PICK r \in {"some", "all"} : relay' = [relay EXCEPT ![i] = r]  BY <2>3 DEF Ticks
    <3>2. QED  BY <1>1, <2>3, <3>1 DEF Ticks, ParallelInv
  <2>4. CASE Yields(i)   BY <1>1, <2>4 DEF Yields, ParallelInv
  <2>5. CASE Fails(i)    BY <1>1, <2>5 DEF Fails, ParallelInv
  <2>6. QED  BY <2>1, <2>2, <2>3, <2>4, <2>5 DEF WorkerStep
<1>3. run' \in Runs /\ run'.pc = "working" /\ run'.outcome = "none"
  <2>1. CASE UNCHANGED run  BY <1>1, <2>1 DEF ParallelInv
  <2>2. CASE Fails(i)
    <3>1. PICK swap \in BOOLEAN : run' = [run EXCEPT !.swap = @ \/ swap]  BY <2>2 DEF Fails
    <3> DEFINE b == run.swap \/ swap
    <3>2. run' = [run EXCEPT !.swap = b] /\ b \in BOOLEAN  BY <3>1
    <3> HIDE DEF b
    <3>3. QED  BY <1>1, <3>2 DEF ParallelInv, Runs
  <2>3. QED  BY <2>1, <2>2 DEF WorkerStep, Edits, Commits, Ticks, Yields
<1>4. ~OnMerge' /\ ~Gated'  BY <1>3 DEF OnMerge, Gated
<1>5. PartialNeverMerged' /\ GreenIsIntegrated'  BY <1>2, <1>3 DEF PartialNeverMerged, GreenIsIntegrated
<1>6. FilesGrow  BY <1>1, FilesStay
<1>7. QED  BY <1>1, <1>2, <1>3, <1>4, <1>5, <1>6 DEF ParallelInv, ParallelTells

LEMMA SettlingKeeps ==
  ASSUME disk \in Disks, ParallelInv, AllSettled
  PROVE  ParallelInv' /\ ParallelTells
<1> DEFINE p == IF run.swap THEN "cleaning" ELSE IF failures = {} \/ Merges THEN "merging" ELSE "rescuing"
           o == IF run.swap THEN "threw" ELSE run.outcome
           u == IF ~run.swap /\ Merges THEN failures ELSE {}
<1>1. /\ run.pc = "working" /\ run.outcome = "none" /\ UNCHANGED <<session, relay, work, disk>>
      /\ \A i \in Workers : session[i] \in {"yielded", "failed"}
      /\ run' = [run EXCEPT !.pc = p, !.outcome = o, !.incomplete = u]
  BY DEF AllSettled, Phase, ParallelInv, workerVars
<1>2. failures \subseteq Workers  BY DEF failures
<1>3. /\ p \in {"cleaning", "merging", "rescuing"} /\ o \in {"none", "threw"} /\ u \in SUBSET Workers
      /\ (p = "cleaning") <=> (o = "threw")
      /\ p = "merging" => ~run.swap /\ (failures = {} \/ Merges)
  BY <1>1, <1>2
<1>4. p = "merging" => u = failures  BY <1>3
<1> HIDE DEF p, o, u
<1>5. run' \in Runs /\ run'.pc = p /\ run'.outcome = o /\ run'.incomplete = u
  BY <1>1, <1>3 DEF ParallelInv, Runs
<1>6. p = "merging" => \A i \in Workers : session[i] = "failed" => relay[i] # "some"
  <2>1. SUFFICES ASSUME p = "merging", NEW i \in Workers, session[i] = "failed", relay[i] = "some"  PROVE FALSE
    OBVIOUS
  <2>2. i \in failures  BY <2>1 DEF failures
  <2>3. Merges  BY <1>3, <2>1, <2>2
  <2>4. QED  BY <2>1, <2>2, <2>3 DEF Merges
<1>7. OnMerge' => Settled' /\ \A i \in Workers : work'[i] # "stack"
  <2>1. OnMerge' => p = "merging"  BY <1>3, <1>5 DEF OnMerge
  <2>2. \A i \in Workers : work[i] # "stack"  BY <1>1 DEF ParallelInv
  <2>3. failures' = failures  BY <1>1 DEF failures
  <2>4. QED  BY <1>1, <1>4, <1>5, <1>6, <2>1, <2>2, <2>3 DEF Settled
<1>8. ~Gated' /\ ~(run'.pc = "reporting" \/ (run'.pc = "cleaning" /\ run'.outcome # "threw"))
  BY <1>3, <1>5 DEF Gated
<1>9. PartialNeverMerged' /\ GreenIsIntegrated'
  BY <1>1, <1>3, <1>5 DEF ParallelInv, PartialNeverMerged, GreenIsIntegrated
<1>10. FilesGrow  BY <1>1, FilesStay
<1>11. \A i \in Workers : work'[i] \in {"none", "own"}  BY <1>1 DEF ParallelInv
<1>12. run'.pc \in {"cleaning", "merging", "rescuing"} /\ run'.outcome \in {"none", "threw"}
       /\ (run'.outcome # "none" => run'.pc = "cleaning")
  BY <1>3, <1>5
<1>13. ParallelTells  BY <1>1, <1>10, <1>12 DEF ParallelTells
<1>14. QED  BY <1>1, <1>5, <1>7, <1>8, <1>9, <1>11, <1>12, <1>13 DEF ParallelInv

LEMMA AddingKeeps ==
  ASSUME disk \in Disks, ParallelInv, createWorkspace
  PROVE  ParallelInv' /\ ParallelTells
<1>1. run.pc = "adding" /\ run.outcome = "none" /\ UNCHANGED <<relay, work, disk>>
  BY DEF createWorkspace, Phase, ParallelInv
<1>2. session' \in [Workers -> {"none", "running", "yielded", "failed"}]
  BY DEF createWorkspace, ParallelInv
<1>3. run' \in Runs /\ \/ run'.pc = "ended" /\ run'.outcome = "threw"
                       \/ run'.pc \in {"adding", "working"} /\ run'.outcome = "none"
  <2> DEFINE n == run.next + 1
  <2>1. \/ run' = [run EXCEPT !.pc = "ended", !.outcome = "threw"]
        \/ run' = [run EXCEPT !.next = n]
        \/ run' = [run EXCEPT !.pc = "working", !.next = 1]
    BY DEF createWorkspace
  <2>2. n \in Int  BY DEF ParallelInv, Runs
  <2> HIDE DEF n
  <2>3. run \in Runs  BY DEF ParallelInv
  <2>4. CASE run' = [run EXCEPT !.pc = "ended", !.outcome = "threw"]  BY <2>3, <2>4 DEF Runs
  <2>5. CASE run' = [run EXCEPT !.next = n]  BY <1>1, <2>2, <2>3, <2>5 DEF Runs
  <2>6. CASE run' = [run EXCEPT !.pc = "working", !.next = 1]
    <3> DEFINE one == 1
    <3>1. one \in Int /\ run' = [run EXCEPT !.pc = "working", !.next = one]  BY <2>6
    <3> HIDE DEF one
    <3>2. QED  BY <1>1, <2>3, <3>1 DEF Runs
  <2>7. QED  BY <2>1, <2>4, <2>5, <2>6
<1>4. ~OnMerge' /\ ~Gated'  BY <1>3 DEF OnMerge, Gated
<1>5. \A i \in Workers : work'[i] \in {"none", "own"}  BY <1>1 DEF ParallelInv
<1>6. PartialNeverMerged' /\ GreenIsIntegrated'  BY <1>3, <1>5 DEF PartialNeverMerged, GreenIsIntegrated
<1>7. FilesGrow  BY <1>1, FilesStay
<1>8. QED  BY <1>1, <1>2, <1>3, <1>4, <1>5, <1>6, <1>7 DEF ParallelInv, ParallelTells

LEMMA Next1Of ==
  ASSUME run \in Runs, NEW label \in {"stacking", "forgetting"}
  PROVE  /\ Next1(label) \in Runs /\ Next1(label).pc \in {run.pc, label} /\ Next1(label).outcome = run.outcome
<1> DEFINE n == run.next + 1
<1>1. n \in Int  BY DEF Runs
<1>2. Next1(label) = [run EXCEPT !.next = n] \/ Next1(label) = [run EXCEPT !.pc = label, !.next = 1]  BY DEF Next1
<1> HIDE DEF n
<1>3. CASE Next1(label) = [run EXCEPT !.next = n]  BY <1>1, <1>3 DEF Runs
<1>4. CASE Next1(label) = [run EXCEPT !.pc = label, !.next = 1]
  <2> DEFINE one == 1
  <2>1. one \in Int /\ Next1(label) = [run EXCEPT !.pc = label, !.next = one]  BY <1>4
  <2> HIDE DEF one
  <2>2. QED  BY <2>1 DEF Runs
<1>5. QED  BY <1>2, <1>3, <1>4

LEMMA RescuingKeeps ==
  ASSUME disk \in Disks, ParallelInv, rescueWorkspaceState
  PROVE  ParallelInv' /\ ParallelTells
<1>1. run.pc = "rescuing" /\ run.outcome = "none" /\ UNCHANGED <<session, relay, disk>> /\ run' = Next1("stacking")
  BY DEF rescueWorkspaceState, Phase, ParallelInv
<1>2. run' \in Runs /\ run'.pc \in {"rescuing", "stacking"} /\ run'.outcome = "none"
  BY <1>1, Next1Of DEF ParallelInv
<1>3. work' = work \/ work' = [work EXCEPT ![run.next] = "own"]  BY DEF rescueWorkspaceState
<1>4. work' \in [Workers -> {"none", "own", "base", "stack"}] /\ \A i \in Workers : work'[i] \in {"none", "own"}
  BY <1>1, <1>3 DEF ParallelInv
<1>5. ~OnMerge' /\ ~Gated'  BY <1>2 DEF OnMerge, Gated
<1>6. PartialNeverMerged' /\ GreenIsIntegrated'  BY <1>2, <1>4 DEF PartialNeverMerged, GreenIsIntegrated
<1>7. FilesGrow  BY <1>1, FilesStay
<1>8. QED  BY <1>1, <1>2, <1>4, <1>5, <1>6, <1>7 DEF ParallelInv, ParallelTells

LEMMA StackingKeeps ==
  ASSUME disk \in Disks, ParallelInv, Stack
  PROVE  ParallelInv' /\ ParallelTells
<1> DEFINE x == Next1("forgetting")
           g == [x EXCEPT !.forget = @ \cup {run.next}]
<1>1. run.pc = "stacking" /\ run.outcome = "none" /\ UNCHANGED <<session, relay, disk>>
  BY DEF Stack, Phase, ParallelInv
<1>2. x \in Runs /\ x.pc \in {"stacking", "forgetting"} /\ x.outcome = "none"
  BY <1>1, Next1Of DEF ParallelInv
<1>3. run' = g \/ run' = x  BY DEF Stack
<1> HIDE DEF x
<1>4. run' \in Runs /\ run'.pc \in {"stacking", "forgetting"} /\ run'.outcome = "none"
  <2> DEFINE f == x.forget \cup {run.next}
  <2>1. f \in SUBSET Int  BY <1>2 DEF ParallelInv, Runs
  <2>2. g = [x EXCEPT !.forget = f]  OBVIOUS
  <2> HIDE DEF f
  <2>3. QED  BY <1>2, <1>3, <2>1, <2>2 DEF Runs
<1>5. work' = work \/ work' = [work EXCEPT ![run.next] = "stack"]  BY DEF Stack
<1>6. work' \in [Workers -> {"none", "own", "base", "stack"}] /\ \A i \in Workers : work'[i] # "base"
  BY <1>1, <1>5 DEF ParallelInv
<1>7. ~OnMerge' /\ ~Gated'  BY <1>4 DEF OnMerge, Gated
<1>8. PartialNeverMerged' /\ GreenIsIntegrated'  BY <1>4, <1>6 DEF PartialNeverMerged, GreenIsIntegrated
<1>9. FilesGrow  BY <1>1, FilesStay
<1>10. QED  BY <1>1, <1>4, <1>6, <1>7, <1>8, <1>9 DEF ParallelInv, ParallelTells

LEMMA ForgettingKeeps ==
  ASSUME disk \in Disks, ParallelInv, ForgetStacked
  PROVE  ParallelInv' /\ ParallelTells
<1>1. /\ run.pc = "forgetting" /\ run' = [run EXCEPT !.pc = "cleaning", !.failed = TRUE, !.outcome = "threw"]
      /\ UNCHANGED <<session, relay, work>> /\ writeFailureArtifact("parallel")
  BY DEF ForgetStacked, Phase
<1>2. run' \in Runs /\ run'.pc = "cleaning" /\ run'.outcome = "threw" /\ run'.incomplete = run.incomplete
  BY <1>1 DEF ParallelInv, Runs
<1>3. FilesGrow /\ disk'.manifest = disk.manifest /\ disk'.request = disk.request  BY <1>1, FailureGrows
<1>4. ~OnMerge' /\ ~Gated'  BY <1>2 DEF OnMerge, Gated
<1>5. QED  BY <1>1, <1>2, <1>3, <1>4, RunGoesOn

LEMMA MergingKeeps ==
  ASSUME disk \in Disks, ParallelInv, mergeWorkspacesAtomic
  PROVE  ParallelInv' /\ ParallelTells
<1>1. run.pc = "merging" /\ run.outcome = "none" /\ UNCHANGED <<session, relay>>
  BY DEF mergeWorkspacesAtomic, Phase, ParallelInv
<1>2. PICK who \in SUBSET Workers, files \in SUBSET {i \in Workers : Has(i)} :
        /\ Squashed(who)
        /\ \/ MergeError
           \/ run' = [run EXCEPT !.pc = "gating", !.landed = TRUE, !.expected = files] /\ UNCHANGED disk
  BY DEF mergeWorkspacesAtomic
<1>3. work' = [i \in Workers |-> IF i \in who /\ Has(i) THEN "base" ELSE work[i]]  BY <1>2 DEF Squashed
<1>4. work' \in [Workers -> {"none", "own", "base", "stack"}]  BY <1>3 DEF ParallelInv
<1>5. CASE MergeError  BY <1>1, <1>4, <1>5, MergeErrorKeeps
<1>6. CASE run' = [run EXCEPT !.pc = "gating", !.landed = TRUE, !.expected = files] /\ UNCHANGED disk
  <2>1. /\ run' \in Runs /\ run'.pc = "gating" /\ run'.outcome = "none" /\ run'.incomplete = run.incomplete
        /\ run'.landed
    <3>1. run \in Runs /\ files \in SUBSET Workers  BY DEF ParallelInv
    <3>2. QED  BY <1>1, <1>6, <3>1 DEF Runs
  <2>2. Settled /\ \A i \in Workers : work[i] # "stack"  BY <1>1 DEF ParallelInv, OnMerge
  <2>3. \A i \in Workers : work'[i] # "stack"  BY <1>3, <2>2
  <2>4. Settled'  BY <1>1, <2>1, <2>2 DEF Settled, failures
  <2>5. ~Gated'  BY <2>1 DEF Gated
  <2>6. PartialNeverMerged' /\ GreenIsIntegrated'
    BY <1>1, <2>1, <2>2 DEF Settled, PartialNeverMerged, GreenIsIntegrated
  <2>7. FilesGrow /\ UNCHANGED disk  BY <1>6, FilesStay
  <2>8. QED  BY <1>1, <1>4, <2>1, <2>3, <2>4, <2>5, <2>6, <2>7 DEF ParallelInv, ParallelTells
<1>7. QED  BY <1>2, <1>5, <1>6

LEMMA GatingKeeps ==
  ASSUME disk \in Disks, ParallelInv, GateMerged
  PROVE  ParallelInv' /\ ParallelTells
<1>1. run.pc = "gating" /\ run.outcome = "none" /\ UNCHANGED <<session, relay, work>>
  BY DEF GateMerged, Phase, ParallelInv, workerVars
<1>2. CASE MergeError
  <2>1. work' \in [Workers -> {"none", "own", "base", "stack"}]  BY <1>1 DEF ParallelInv
  <2>2. QED  BY <1>1, <1>2, <2>1, MergeErrorKeeps
<1>3. CASE ~MergeError
  <2>1. PICK conflicts \in BOOLEAN :
          /\ run' = [run EXCEPT !.pc = "verifying", !.conflicts = conflicts]
          /\ IF conflicts THEN writeFailureArtifact("parallel") ELSE UNCHANGED disk
    BY <1>3 DEF GateMerged
  <2>2. \A i \in run.expected : work[i] # "own"  BY <1>3 DEF GateMerged, assertMerged
  <2>3. /\ run' \in Runs /\ run'.pc = "verifying" /\ run'.outcome = "none" /\ run'.incomplete = run.incomplete
        /\ run'.landed = run.landed /\ run'.expected = run.expected
    BY <1>1, <2>1 DEF ParallelInv, Runs
  <2>4. FilesGrow /\ disk'.manifest = disk.manifest /\ disk'.request = disk.request
    <3>1. CASE conflicts  BY <2>1, <3>1, FailureGrows
    <3>2. CASE ~conflicts  BY <2>1, <3>2, FilesStay
    <3>3. QED  BY <3>1, <3>2
  <2>5. Settled /\ \A i \in Workers : work[i] # "stack"  BY <1>1 DEF ParallelInv, OnMerge
  <2>6. Settled'  BY <1>1, <2>3, <2>5 DEF Settled, failures
  <2>7. run.landed  BY <1>1 DEF ParallelInv
  <2>8. PartialNeverMerged' /\ GreenIsIntegrated'
    BY <1>1, <2>3, <2>5 DEF Settled, PartialNeverMerged, GreenIsIntegrated
  <2>9. QED  BY <1>1, <2>2, <2>3, <2>4, <2>5, <2>6, <2>7, <2>8 DEF ParallelInv, ParallelTells
<1>4. QED  BY <1>2, <1>3

LEMMA VerifyingKeeps ==
  ASSUME disk \in Disks, ParallelInv, VerifyMerged
  PROVE  ParallelInv' /\ ParallelTells
<1>1. run.pc = "verifying" /\ run.outcome = "none" /\ UNCHANGED <<session, relay, work>>
  BY DEF VerifyMerged, Phase, ParallelInv, workerVars
<1>2. PICK verdict \in IF run.conflicts THEN {"skipped"} ELSE {"pass", "fail"} :
        IF verdict = "fail" /\ run.incomplete # {}
        THEN /\ run' = [run EXCEPT !.pc = "cleaning", !.verdict = verdict, !.failed = TRUE, !.outcome = "threw"]
             /\ writeFailureArtifact("parallel")
        ELSE /\ run' = [run EXCEPT !.pc = "cleaning", !.verdict = verdict]
             /\ UNCHANGED disk
  BY DEF VerifyMerged
<1>3. verdict \in {"skipped", "pass", "fail"} /\ (run.conflicts => verdict = "skipped")  BY <1>2
<1>4. /\ run' \in Runs /\ run'.pc = "cleaning" /\ run'.outcome \in {"none", "threw"} /\ run'.verdict = verdict
      /\ run'.incomplete = run.incomplete /\ run'.landed = run.landed /\ run'.conflicts = run.conflicts
      /\ run'.expected = run.expected
  <2>0. run \in Runs  BY DEF ParallelInv
  <2>1. CASE run' = [run EXCEPT !.pc = "cleaning", !.verdict = verdict, !.failed = TRUE, !.outcome = "threw"]
    BY <1>3, <2>0, <2>1 DEF Runs
  <2>2. CASE run' = [run EXCEPT !.pc = "cleaning", !.verdict = verdict]  BY <1>1, <1>3, <2>0, <2>2 DEF Runs
  <2>3. QED  BY <1>2, <2>1, <2>2
<1>5. FilesGrow /\ disk'.manifest = disk.manifest /\ disk'.request = disk.request
  <2>1. CASE writeFailureArtifact("parallel")  BY <2>1, FailureGrows
  <2>2. CASE UNCHANGED disk  BY <2>2, FilesStay
  <2>3. QED  BY <1>2, <2>1, <2>2
<1>6. OnMerge /\ Gated /\ run.landed  BY <1>1 DEF OnMerge, Gated, ParallelInv
<1>7. QED  BY <1>1, <1>3, <1>4, <1>5, <1>6, RunGoesOn

LEMMA CleaningKeeps ==
  ASSUME disk \in Disks, ParallelInv, CleanUp
  PROVE  ParallelInv' /\ ParallelTells
<1> DEFINE p == IF run.outcome = "threw" THEN "ended" ELSE "reporting"
<1>1. run.pc = "cleaning" /\ UNCHANGED <<session, relay, work, disk>> /\ run' = [run EXCEPT !.pc = p]
  BY DEF CleanUp, Phase
<1>2. run.outcome \in {"none", "threw"}  BY <1>1 DEF ParallelInv
<1>3. /\ run' \in Runs /\ run'.pc = p /\ run'.outcome = run.outcome /\ run'.incomplete = run.incomplete
      /\ run'.landed = run.landed /\ run'.verdict = run.verdict /\ run'.conflicts = run.conflicts
      /\ run'.expected = run.expected
  <2>1. p \in {"ended", "reporting"}  OBVIOUS
  <2> HIDE DEF p
  <2>2. QED  BY <1>1, <2>1 DEF ParallelInv, Runs
<1>4. FilesGrow  BY <1>1, FilesStay
<1>5. CASE run.outcome = "threw"
  <2>1. p = "ended"  BY <1>5
  <2> HIDE DEF p
  <2>2. ~OnMerge' /\ ~Gated'  BY <1>3, <2>1 DEF OnMerge, Gated
  <2>3. QED  BY <1>1, <1>2, <1>3, <1>4, <2>1, <2>2, RunGoesOn
<1>6. CASE run.outcome = "none"
  <2>1. p = "reporting"  BY <1>6
  <2> HIDE DEF p
  <2>2. OnMerge /\ Gated  BY <1>1, <1>6 DEF OnMerge, Gated
  <2>3. run.landed /\ run.verdict # "none" /\ (run.conflicts => run.verdict = "skipped")
    BY <1>1, <1>6, <2>2 DEF ParallelInv
  <2>4. QED  BY <1>1, <1>2, <1>3, <1>4, <1>6, <2>1, <2>2, <2>3, RunGoesOn
<1>7. QED  BY <1>2, <1>5, <1>6

LEMMA ReportingKeeps ==
  ASSUME disk \in Disks, ParallelInv, ReportFails \/ Report
  PROVE  ParallelInv' /\ ParallelTells
<1>1. run.pc = "reporting" /\ run.outcome = "none" /\ UNCHANGED <<session, relay, work>>
  BY DEF ReportFails, Report, Phase, ParallelInv, workerVars
<1>2. ASSUME NEW o \in {"threw", "unresolved"}, run' = [run EXCEPT !.pc = "ended", !.outcome = o], UNCHANGED disk
      PROVE  ParallelInv' /\ ParallelTells
  <2>1. run' \in Runs /\ run'.pc = "ended" /\ run'.outcome = o /\ run'.incomplete = run.incomplete
    BY <1>2 DEF ParallelInv, Runs
  <2>2. ~OnMerge' /\ ~Gated'  BY <2>1 DEF OnMerge, Gated
  <2>3. QED  BY <1>1, <1>2, <2>1, <2>2, FilesStay, RunGoesOn
<1>3. CASE ReportFails  BY <1>2, <1>3 DEF ReportFails
<1>4. CASE Report /\ run.incomplete # {}  BY <1>2, <1>4 DEF Report
<1>5. CASE Report /\ run.incomplete = {}
  <2> DEFINE o == IF run.verdict = "pass" /\ ~run.conflicts THEN "success" ELSE "failed"
  <2>1. run' = [run EXCEPT !.pc = "ended", !.outcome = o] /\ writeManifest  BY <1>5 DEF Report
  <2>2. o \in {"success", "failed"} /\ (o = "success" => run.verdict = "pass" /\ ~run.conflicts)  OBVIOUS
  <2> HIDE DEF o
  <2>3. /\ run' \in Runs /\ run'.pc = "ended" /\ run'.outcome = o /\ run'.landed = run.landed
        /\ run'.verdict = run.verdict /\ run'.conflicts = run.conflicts /\ run'.expected = run.expected
    BY <2>1, <2>2 DEF ParallelInv, Runs
  <2>4. FilesGrow /\ disk'.manifest /\ disk'.request = disk.request  BY <2>1, ManifestGrows
  <2>5. Settled /\ run.landed /\ \A i \in run.expected : work[i] # "own"
    BY <1>1 DEF ParallelInv, OnMerge, Gated
  <2>6. \A i \in Workers : session[i] = "yielded" \/ (session[i] = "failed" /\ relay[i] # "some")
    BY <2>5 DEF Settled
  <2>7. GreenIsIntegrated'  BY <1>1, <2>2, <2>3, <2>4, <2>5, <2>6 DEF GreenIsIntegrated
  <2>8. PartialNeverMerged'  BY <1>1 DEF ParallelInv, PartialNeverMerged
  <2>9. ~OnMerge' /\ ~Gated'  BY <2>3 DEF OnMerge, Gated
  <2>10. QED  BY <1>1, <2>2, <2>3, <2>4, <2>7, <2>8, <2>9 DEF ParallelInv, ParallelTells
<1>6. QED  BY <1>3, <1>4, <1>5

LEMMA ParallelKeeps ==
  ASSUME disk \in Disks, ParallelInv, ParallelNext
  PROVE  ParallelInv' /\ ParallelTells
<1>1. CASE StartParallel
  <2>1. /\ run.pc = "idle" /\ run.outcome = "none" /\ UNCHANGED <<session, relay, work, disk>>
        /\ \/ run' = [run EXCEPT !.pc = "ended", !.outcome = "threw"]
           \/ run' = [run EXCEPT !.pc = "adding"]
    BY <1>1 DEF StartParallel, Phase, ParallelInv, workerVars
  <2>2. /\ run' \in Runs /\ run'.incomplete = run.incomplete
        /\ \/ run'.pc = "ended" /\ run'.outcome = "threw"
           \/ run'.pc = "adding" /\ run'.outcome = "none"
    <3>0. run \in Runs  BY DEF ParallelInv
    <3>1. CASE run' = [run EXCEPT !.pc = "ended", !.outcome = "threw"]  BY <3>0, <3>1 DEF Runs
    <3>2. CASE run' = [run EXCEPT !.pc = "adding"]  BY <2>1, <3>0, <3>2 DEF Runs
    <3>3. QED  BY <2>1, <3>1, <3>2
  <2>3. ~OnMerge' /\ ~Gated'  BY <2>2 DEF OnMerge, Gated
  <2>4. QED  BY <2>1, <2>2, <2>3, FilesStay, RunGoesOn
<1>2. CASE MergeFails
  <2>1. run.pc = "merging" /\ MergeError /\ UNCHANGED <<session, relay, work>>
    BY <1>2 DEF MergeFails, Phase, workerVars
  <2>2. work' \in [Workers -> {"none", "own", "base", "stack"}]  BY <2>1 DEF ParallelInv
  <2>3. QED  BY <2>1, <2>2, MergeErrorKeeps
<1>3. QED
  BY <1>1, <1>2, AddingKeeps, SettlingKeeps, RescuingKeeps, StackingKeeps, ForgettingKeeps, MergingKeeps,
     GatingKeeps, VerifyingKeeps, CleaningKeeps, ReportingKeeps, WorkersKeep
  DEF ParallelNext, RunStep

LEMMA ParallelStays ==
  ASSUME ParallelInv, FilesGrow, UNCHANGED <<session, relay, work, run>>
  PROVE  ParallelInv'
BY DEF ParallelInv, FilesGrow, OnMerge, Gated, Settled, failures, PartialNeverMerged, GreenIsIntegrated

-----------------------------------------------------------------------------
(* The batch lane.                                                          *)

Answers == {"none", "completed", "invalid", "failed", "missing"}
Jobs == [items : SUBSET Items, phase : {"in_progress", "completed", "failed"}, outcome : [Items -> Answers]]
JobFiles == [status : {"none", "submitting", "in_progress", "failed", "aborted", "completed"}, job : Nat,
             items : [Items -> Answers \cup {"pending"}]]
Codes == {"refused", "dirty", "commit_failed"} \cup BatchErrors
Lanes == [pc : {"idle", "submitting", "resuming", "polling", "collecting", "applying", "committing", "verifying", "ended"},
          recovery : BOOLEAN, items : SUBSET Items, sent : Nat, job : Nat, signal : BOOLEAN, late : BOOLEAN,
          code : {"none", "green"} \cup Codes]
Trees == [user : {"none", "early", "late"}, files : SUBSET Items, committed : SUBSET Items,
          swept : {"none", "early", "late"}]

\* A job that completed, and what it answered.
Done(j) == j \in DOMAIN jobs /\ jobs[j].phase = "completed"
Completed(j) == {i \in Items : jobs[j].outcome[i] = "completed"}

Typed == lane \in Lanes /\ file \in JobFiles /\ jobs \in Seq(Jobs) /\ tree \in Trees

\* The jobs the file and the lane name exist; a completed one has answered each of its items.
Named ==
  /\ lane.sent \in 0..Len(jobs) /\ file.job \in 0..Len(jobs)
  /\ \A j \in DOMAIN jobs : jobs[j].phase = "completed" => \A i \in jobs[j].items : jobs[j].outcome[i] # "none"
  /\ HandleKept

\* What each label says of the lane: what it has collected is what it asked for, and only
\* the lane of the run goes on to the tree.
Labels ==
  /\ lane.code # "none" <=> lane.pc = "ended"
  /\ lane.pc \in {"collecting", "applying", "committing", "verifying"} \/ lane.code = "green" => Done(lane.job)
  /\ lane.pc \in {"applying", "committing", "verifying"} \/ lane.code = "green" => lane.items \subseteq Completed(lane.job)
  /\ lane.pc \in {"applying", "committing", "verifying"} => ~lane.recovery
  /\ lane.pc \notin {"idle", "ended"} /\ ~lane.recovery => lane.items = Items
  /\ lane.code = "green" /\ ~lane.recovery => disk.manifest

\* What is in the tree and in the commit.
Tree ==
  /\ tree.committed # {} => \E j \in DOMAIN jobs : Done(j) /\ Items \subseteq Completed(j)
  /\ lane.pc = "committing" => tree.user # "early"
  /\ PollDirtNotSwept

BatchInv == Typed /\ Named /\ Labels /\ Tree

BatchTells ==
  /\ FilesGrow /\ disk'.request = disk.request /\ disk'.failure = disk.failure
  /\ disk'.manifest => disk.manifest \/ lane'.code = "green"
  /\ lane'.recovery = lane.recovery /\ (lane.code = "green" => lane'.code = "green")
  /\ lane.recovery => disk' = disk

LEMMA NamesOf == ASSUME jobs \in Seq(Jobs) PROVE DOMAIN jobs = 1..Len(jobs) /\ Len(jobs) \in Nat
BY LenProperties

LEMMA BatchIsComplete == ASSUME BatchInv PROVE GreenIsComplete
<1>1. lane.code = "green" => lane.items \subseteq Completed(lane.job)  BY DEF BatchInv, Labels
<1>2. tree.committed # {} => \E j \in DOMAIN jobs : Completed(j) = Items  BY DEF BatchInv, Tree, Completed
<1>3. QED  BY <1>1, <1>2 DEF GreenIsComplete, Completed

\* What a lane leaves when it ends with an error.
LEMMA EndsOf ==
  ASSUME disk \in Disks, lane \in Lanes, NEW code \in Codes \cup {"green"}, Ends(code)
  PROVE  /\ lane' \in Lanes /\ lane'.pc = "ended" /\ lane'.code = code /\ lane'.job = lane.job
         /\ lane'.items = lane.items /\ lane'.sent = lane.sent /\ lane'.recovery = lane.recovery
         /\ FilesGrow /\ disk'.request = disk.request /\ disk'.failure = disk.failure
         /\ disk'.manifest = disk.manifest /\ (lane.recovery => disk' = disk)
<1>1. lane' = [lane EXCEPT !.pc = "ended", !.code = code]  BY DEF Ends
<1>2. disk' = disk \/ (disk' = [disk EXCEPT !.stray = TRUE] /\ ~lane.recovery)  BY DEF Ends
<1>3. /\ lane' \in Lanes /\ lane'.pc = "ended" /\ lane'.code = code /\ lane'.job = lane.job
      /\ lane'.items = lane.items /\ lane'.sent = lane.sent /\ lane'.recovery = lane.recovery
  BY <1>1 DEF Lanes, Codes
<1>4. disk' \in Disks /\ disk'.request = disk.request /\ disk'.failure = disk.failure
      /\ disk'.manifest = disk.manifest /\ disk'.live = disk.live
  BY <1>2 DEF Disks
<1>5. QED  BY <1>2, <1>3, <1>4 DEF FilesGrow

LEMMA EndingKeeps ==
  ASSUME disk \in Disks, BatchInv, NEW code \in Codes, Ends(code), UNCHANGED jobs,
         lane.pc \notin {"ended", "resuming"}, lane.pc \in {"idle", "submitting"} => code \in {"refused", "submit_failed"},
         file' \in JobFiles, file'.job = file.job,
         tree' \in Trees, tree'.committed = tree.committed, tree'.swept = tree.swept
  PROVE  BatchInv' /\ BatchTells
<1>1. /\ lane' \in Lanes /\ lane'.pc = "ended" /\ lane'.code = code /\ lane'.job = lane.job
      /\ lane'.items = lane.items /\ lane'.sent = lane.sent /\ lane'.recovery = lane.recovery
      /\ FilesGrow /\ disk'.request = disk.request /\ disk'.failure = disk.failure
      /\ disk'.manifest = disk.manifest /\ (lane.recovery => disk' = disk)
  BY EndsOf DEF BatchInv, Typed
<1>2. code # "green" /\ code # "none"  BY DEF Codes, BatchErrors
<1>3. lane.code = "none"  BY DEF BatchInv, Labels
<1>4. Typed'  BY <1>1 DEF BatchInv, Typed
<1>5. Named'
  <2>1. HandleKept'  BY <1>1, <1>3 DEF BatchInv, Named, HandleKept
  <2>2. QED  BY <1>1, <2>1 DEF BatchInv, Named
<1>6. Labels'  BY <1>1, <1>2 DEF BatchInv, Labels
<1>7. Tree'  BY <1>1 DEF BatchInv, Tree, PollDirtNotSwept, Done, Completed
<1>8. BatchTells  BY <1>1, <1>3 DEF BatchTells
<1>9. QED  BY <1>4, <1>5, <1>6, <1>7, <1>8 DEF BatchInv

\* A lane that goes on: a new label, and perhaps the job it polls.
LEMMA GoingKeeps ==
  ASSUME disk \in Disks, BatchInv, UNCHANGED <<jobs, disk>>, lane' \in Lanes, lane.code = "none", lane'.code = "none",
         lane'.pc # "ended", lane'.recovery = lane.recovery, lane'.items = lane.items, lane'.sent = lane.sent,
         file' \in JobFiles, tree' \in Trees,
         lane.pc # "idle", lane'.pc # "idle",
         lane'.pc \in {"submitting", "resuming"} \/ (file'.job = lane'.job /\ lane'.job \in DOMAIN jobs),
         file'.job \in 0..Len(jobs),
         lane'.pc \in {"collecting", "applying", "committing", "verifying"} => Done(lane'.job),
         lane'.pc \in {"applying", "committing", "verifying"} => lane.items \subseteq Completed(lane'.job) /\ ~lane.recovery,
         tree'.committed # {} => tree.committed # {} \/ (Done(lane'.job) /\ Items \subseteq Completed(lane'.job)),
         lane'.pc = "committing" => tree'.user # "early",
         tree'.swept # "early"
  PROVE  BatchInv' /\ BatchTells
<1>1. Typed'  BY DEF BatchInv, Typed
<1>2. lane.pc # "ended"  BY DEF BatchInv, Labels
<1>3. Named'
  <2>1. HandleKept'  BY DEF HandleKept
  <2>2. QED  BY <2>1 DEF BatchInv, Named
<1>4. Labels'  BY <1>2 DEF BatchInv, Labels, Done, Completed
<1>5. Tree'  BY DEF BatchInv, Tree, PollDirtNotSwept, Done, Completed
<1>6. BatchTells  BY FilesStay DEF BatchTells
<1>7. QED  BY <1>1, <1>3, <1>4, <1>5, <1>6 DEF BatchInv

\* The provider takes a job, or a job ends: what is complete stays as it is.
JobsGrow ==
  /\ jobs' \in Seq(Jobs) /\ Len(jobs') >= Len(jobs)
  /\ \A j \in DOMAIN jobs : jobs[j].phase = "completed" => jobs'[j] = jobs[j]
  /\ \A j \in DOMAIN jobs' : jobs'[j].phase = "completed" => \A i \in jobs'[j].items : jobs'[j].outcome[i] # "none"

LEMMA AcceptGrows ==
  ASSUME BatchInv, Accept
  PROVE  JobsGrow /\ Len(jobs') = Len(jobs) + 1
<1> DEFINE new == [items |-> lane.items, phase |-> "in_progress", outcome |-> NoItems]
<1>1. new \in Jobs  BY DEF BatchInv, Typed, Lanes, Jobs, NoItems, Answers
<1>2. jobs \in Seq(Jobs) /\ jobs' = Append(jobs, new)  BY DEF BatchInv, Typed, Accept
<1>3. new.phase = "in_progress"  OBVIOUS
<1> HIDE DEF new
<1>4. /\ jobs' \in Seq(Jobs) /\ Len(jobs') = Len(jobs) + 1 /\ \A j \in 1..Len(jobs) : jobs'[j] = jobs[j]
      /\ jobs'[Len(jobs) + 1] = new
  BY <1>1, <1>2, AppendProperties
<1>5. DOMAIN jobs = 1..Len(jobs) /\ DOMAIN jobs' = 1..Len(jobs') /\ Len(jobs) \in Nat  BY <1>2, <1>4, LenProperties
<1>6. \A j \in DOMAIN jobs' : j \in DOMAIN jobs \/ j = Len(jobs) + 1  BY <1>4, <1>5
<1>7. ASSUME NEW j \in DOMAIN jobs', jobs'[j].phase = "completed"
      PROVE  \A i \in jobs'[j].items : jobs'[j].outcome[i] # "none"
  <2>1. j \in DOMAIN jobs /\ jobs'[j] = jobs[j]  BY <1>3, <1>4, <1>5, <1>6, <1>7
  <2>2. QED  BY <1>7, <2>1 DEF BatchInv, Named
<1>8. QED  BY <1>4, <1>5, <1>7 DEF JobsGrow

LEMMA JobEndsGrows ==
  ASSUME BatchInv, NEW j \in DOMAIN jobs, JobEnds(j)
  PROVE  JobsGrow
<1>1. jobs \in Seq(Jobs) /\ jobs[j].phase = "in_progress" /\ j \in 1..Len(jobs)
  BY NamesOf DEF BatchInv, Typed, JobEnds
<1>2. jobs[j] \in Jobs  BY <1>1, LenProperties
<1>3. PICK e \in Jobs : /\ jobs' = [jobs EXCEPT ![j] = e]
                        /\ e.phase = "completed" => \A i \in e.items : e.outcome[i] # "none"
  <2>1. CASE jobs' = [jobs EXCEPT ![j] = [@ EXCEPT !.phase = "failed"]]
    <3> DEFINE e == [jobs[j] EXCEPT !.phase = "failed"]
    <3>1. e \in Jobs /\ e.phase # "completed"  BY <1>2 DEF Jobs
    <3>2. jobs' = [jobs EXCEPT ![j] = e]  BY <2>1
    <3> HIDE DEF e
    <3>3. QED  BY <3>1, <3>2
  <2>2. CASE \E outcome \in [jobs[j].items -> {"completed", "invalid", "failed", "missing"}] :
               jobs' = [jobs EXCEPT ![j] = [@ EXCEPT !.phase = "completed", !.outcome =
                          [i \in Items |-> IF i \in jobs[j].items THEN outcome[i] ELSE "none"]]]
    <3>1. PICK outcome \in [jobs[j].items -> {"completed", "invalid", "failed", "missing"}] :
               jobs' = [jobs EXCEPT ![j] = [@ EXCEPT !.phase = "completed", !.outcome =
                          [i \in Items |-> IF i \in jobs[j].items THEN outcome[i] ELSE "none"]]]
      BY <2>2
    <3> DEFINE o == [i \in Items |-> IF i \in jobs[j].items THEN outcome[i] ELSE "none"]
               e == [jobs[j] EXCEPT !.phase = "completed", !.outcome = o]
    <3>2. \A i \in jobs[j].items : i \in Items /\ outcome[i] \in {"completed", "invalid", "failed", "missing"}
      BY <1>2 DEF Jobs
    <3>3. o \in [Items -> Answers]  BY <3>2 DEF Answers
    <3>4. \A i \in jobs[j].items : o[i] # "none"  BY <3>2
    <3>5. jobs' = [jobs EXCEPT ![j] = e]  BY <3>1
    <3> HIDE DEF o
    <3>6. e \in Jobs /\ e.outcome = o /\ e.items = jobs[j].items  BY <1>2, <3>3 DEF Jobs
    <3> HIDE DEF e
    <3>7. QED  BY <3>4, <3>5, <3>6
  <2>3. QED  BY <2>1, <2>2 DEF JobEnds
<1>4. /\ jobs' \in Seq(Jobs) /\ Len(jobs') = Len(jobs)
      /\ \A k \in 1..Len(jobs) : jobs'[k] = IF k = j THEN e ELSE jobs[k]
  <2> DEFINE new == [jobs EXCEPT ![j] = e]
  <2>1. jobs' = new  BY <1>3
  <2>2. /\ new \in Seq(Jobs) /\ Len(new) = Len(jobs)
        /\ \A k \in 1..Len(jobs) : new[k] = IF k = j THEN e ELSE jobs[k]
    BY <1>1, ExceptSeq
  <2> HIDE DEF new
  <2>3. QED  BY <2>1, <2>2
<1>5. DOMAIN jobs = 1..Len(jobs) /\ DOMAIN jobs' = 1..Len(jobs) /\ Len(jobs) \in Nat  BY <1>1, <1>4, LenProperties
<1>6. \A k \in DOMAIN jobs : jobs[k].phase = "completed" => jobs'[k] = jobs[k]  BY <1>1, <1>4, <1>5
<1>7. ASSUME NEW k \in DOMAIN jobs', jobs'[k].phase = "completed"
      PROVE  \A i \in jobs'[k].items : jobs'[k].outcome[i] # "none"
  <2>1. CASE k = j
    <3>1. jobs'[k] = e  BY <1>4, <1>5, <2>1
    <3>2. e.phase = "completed"  BY <1>7, <3>1
    <3>3. \A i \in e.items : e.outcome[i] # "none"  BY <1>3, <3>2
    <3>4. QED  BY <3>1, <3>3
  <2>2. CASE k # j
    <3>1. jobs'[k] = jobs[k] /\ k \in DOMAIN jobs  BY <1>4, <1>5, <2>2
    <3>2. QED  BY <1>7, <3>1 DEF BatchInv, Named
  <2>3. QED  BY <2>1, <2>2
<1>8. QED  BY <1>4, <1>5, <1>6, <1>7 DEF JobsGrow

LEMMA GrowingKeeps ==
  ASSUME disk \in Disks, BatchInv, JobsGrow, UNCHANGED <<file, tree, disk>>,
         lane' \in Lanes, lane'.sent \in 0..Len(jobs'), lane'.pc = lane.pc, lane'.code = lane.code,
         lane'.recovery = lane.recovery, lane'.items = lane.items, lane'.job = lane.job
  PROVE  BatchInv' /\ BatchTells
<1>1. jobs \in Seq(Jobs) /\ jobs' \in Seq(Jobs) /\ Len(jobs') >= Len(jobs)  BY DEF BatchInv, Typed, JobsGrow
<1>2. DOMAIN jobs = 1..Len(jobs) /\ DOMAIN jobs' = 1..Len(jobs') /\ Len(jobs) \in Nat /\ Len(jobs') \in Nat
  BY <1>1, LenProperties
<1>3. DOMAIN jobs \subseteq DOMAIN jobs'  BY <1>1, <1>2
<1>4. \A j : Done(j) => Done(j)' /\ Completed(j)' = Completed(j)  BY <1>3 DEF JobsGrow, Done, Completed
<1>5. Typed'  BY <1>1 DEF BatchInv, Typed
<1>6. Named'
  <2>1. file.job \in 0..Len(jobs')  BY <1>1, <1>2 DEF BatchInv, Named
  <2>2. HandleKept'  BY <1>3 DEF BatchInv, Named, HandleKept
  <2>3. QED  BY <2>1, <2>2 DEF Named, JobsGrow
<1>7. Labels'
  <2>1. PICK j : j = lane.job  OBVIOUS
  <2>2. Done(j) => Done(j)' /\ Completed(j)' = Completed(j)  BY <1>4
  <2>3. lane'.job = j  BY <2>1
  <2>4. QED  BY <2>1, <2>2, <2>3 DEF BatchInv, Labels, Done, Completed
<1>8. Tree'  BY <1>3, <1>4 DEF BatchInv, Tree, PollDirtNotSwept
<1>9. BatchTells  BY FilesStay DEF BatchTells
<1>10. QED  BY <1>5, <1>6, <1>7, <1>8, <1>9 DEF BatchInv

LEMMA BeginningKeeps ==
  ASSUME BatchInv, UNCHANGED <<jobs, tree>>, lane' \in Lanes, lane'.pc \in {"submitting", "resuming"},
         lane'.code = "none", lane'.sent \in 0..Len(jobs), ~lane'.recovery => lane'.items = Items,
         file' = makeState(lane'.items)
  PROVE  BatchInv'
<1>1. file' \in JobFiles /\ file'.job = 0  BY DEF makeState, JobFiles, Answers
<1>2. Len(jobs) \in Nat  BY NamesOf DEF BatchInv, Typed
<1>3. Typed'  BY <1>1 DEF BatchInv, Typed
<1>4. Named'
  <2>1. HandleKept'  BY DEF HandleKept
  <2>2. file'.job \in 0..Len(jobs)  BY <1>1, <1>2
  <2>3. QED  BY <2>1, <2>2 DEF BatchInv, Named
<1>5. Labels'  BY DEF Labels
<1>6. Tree'  BY DEF BatchInv, Tree, PollDirtNotSwept, Done, Completed
<1>7. QED  BY <1>3, <1>4, <1>5, <1>6 DEF BatchInv

\* A process that is lost takes its lane with it, and nothing else.
LEMMA IdleKeeps ==
  ASSUME BatchInv, lane' = Idle, UNCHANGED <<file, jobs, tree>>
  PROVE  BatchInv'
<1>1. /\ lane' \in Lanes /\ lane'.pc = "idle" /\ lane'.code = "none" /\ lane'.sent = 0
  BY DEF Idle, Lanes
<1>2. Len(jobs) \in Nat  BY NamesOf DEF BatchInv, Typed
<1>3. Typed'  BY <1>1 DEF BatchInv, Typed
<1>4. Named'
  <2>1. HandleKept'  BY <1>1 DEF HandleKept
  <2>2. lane'.sent \in 0..Len(jobs)  BY <1>1, <1>2
  <2>3. QED  BY <2>1, <2>2 DEF BatchInv, Named
<1>5. Labels'  BY <1>1 DEF Labels
<1>6. Tree'  BY <1>1 DEF BatchInv, Tree, PollDirtNotSwept, Done, Completed
<1>7. QED  BY <1>3, <1>4, <1>5, <1>6 DEF BatchInv

LEMMA StartKeeps ==
  ASSUME disk \in Disks, BatchInv, lane.pc = "idle", ~lane.recovery, Start
  PROVE  BatchInv' /\ BatchTells
<1>1. CASE Ends("refused") /\ UNCHANGED <<file, jobs, tree>>
  <2>1. "refused" \in Codes  BY DEF Codes
  <2>2. file' \in JobFiles /\ tree' \in Trees  BY <1>1 DEF BatchInv, Typed
  <2>3. QED  BY <1>1, <2>1, <2>2, EndingKeeps
<1>2. CASE Begin([Idle EXCEPT !.pc = "submitting", !.items = Items])
  <2>1. /\ lane' \in Lanes /\ lane'.pc = "submitting" /\ lane'.code = "none" /\ lane'.sent = 0 /\ lane'.items = Items
        /\ ~lane'.recovery
    BY <1>2 DEF Begin, Idle, Lanes
  <2>2. lane'.sent \in 0..Len(jobs)  BY <2>1, NamesOf DEF BatchInv, Typed
  <2>3. UNCHANGED <<jobs, tree, disk>> /\ file' = makeState(lane'.items)  BY <1>2 DEF Begin
  <2>4. BatchInv'  BY <2>1, <2>2, <2>3, BeginningKeeps
  <2>5. lane.code = "none"  BY DEF BatchInv, Labels
  <2>6. BatchTells  BY <2>1, <2>3, <2>5, FilesStay DEF BatchTells, BatchInv, Typed, Lanes
  <2>7. QED  BY <2>4, <2>6
<1>3. QED  BY <1>1, <1>2 DEF Start

LEMMA RecoveringKeeps ==
  ASSUME BatchInv, Resume \/ Resubmit
  PROVE  BatchInv' /\ UNCHANGED disk /\ lane'.recovery
<1>1. CASE Resume
  <2>1. /\ lane' = [Idle EXCEPT !.pc = "resuming", !.items = Items, !.sent = file.job, !.recovery = TRUE]
        /\ file' = makeState(lane'.items) /\ UNCHANGED <<jobs, tree, disk>>
    BY <1>1 DEF Resume, Begin
  <2>2. file.job \in 0..Len(jobs) /\ file.job \in Nat  BY DEF BatchInv, Named, Typed, JobFiles
  <2>3. /\ lane' \in Lanes /\ lane'.pc = "resuming" /\ lane'.code = "none" /\ lane'.sent = file.job /\ lane'.recovery
    BY <2>1, <2>2 DEF Idle, Lanes
  <2>4. QED  BY <2>1, <2>2, <2>3, BeginningKeeps
<1>2. CASE Resubmit
  <2>1. /\ lane' = [Idle EXCEPT !.pc = "submitting", !.items = incompleteItems, !.recovery = TRUE]
        /\ file' = makeState(lane'.items) /\ UNCHANGED <<jobs, tree, disk>>
    BY <1>2 DEF Resubmit, Begin
  <2>2. incompleteItems \in SUBSET Items  BY DEF incompleteItems
  <2>3. /\ lane' \in Lanes /\ lane'.pc = "submitting" /\ lane'.code = "none" /\ lane'.sent = 0 /\ lane'.recovery
    BY <2>1, <2>2 DEF Idle, Lanes
  <2>4. lane'.sent \in 0..Len(jobs)  BY <2>3, NamesOf DEF BatchInv, Typed
  <2>5. QED  BY <2>1, <2>3, <2>4, BeginningKeeps
<1>3. QED  BY <1>1, <1>2

LEMMA EnvironmentKeeps ==
  ASSUME disk \in Disks, BatchInv, LaneEnv
  PROVE  BatchInv' /\ BatchTells /\ UNCHANGED disk
<1>0. lane \in Lanes /\ tree \in Trees /\ file \in JobFiles  BY DEF BatchInv, Typed
<1>1. CASE Accept
  <2>1. JobsGrow /\ Len(jobs') = Len(jobs) + 1  BY <1>1, AcceptGrows
  <2>2. Len(jobs) + 1 \in Nat  BY NamesOf DEF BatchInv, Typed
  <2> DEFINE n == Len(jobs) + 1
  <2>3. lane' = [lane EXCEPT !.sent = n] /\ UNCHANGED <<file, tree, disk>>  BY <1>1 DEF Accept
  <2>4. n \in 0..Len(jobs')  BY <2>1, <2>2
  <2> HIDE DEF n
  <2>5. /\ lane' \in Lanes /\ lane'.sent = n /\ lane'.pc = lane.pc /\ lane'.code = lane.code
        /\ lane'.recovery = lane.recovery /\ lane'.items = lane.items /\ lane'.job = lane.job
    BY <1>0, <2>2, <2>3, <2>4 DEF Lanes, n
  <2>6. QED  BY <2>1, <2>3, <2>4, <2>5, GrowingKeeps
<1>2. CASE \E j \in DOMAIN jobs : JobEnds(j)
  <2>1. PICK j \in DOMAIN jobs : JobEnds(j)  BY <1>2
  <2>2. JobsGrow  BY <2>1, JobEndsGrows
  <2>3. UNCHANGED <<file, lane, tree, disk>>  BY <2>1 DEF JobEnds
  <2>4. lane.sent \in 0..Len(jobs')
    <3>1. Len(jobs) \in Nat /\ Len(jobs') \in Nat /\ Len(jobs') >= Len(jobs) /\ lane.sent \in 0..Len(jobs)
      BY <2>2, LenProperties DEF BatchInv, Typed, Named, JobsGrow
    <3>2. QED  BY <3>1
  <2>5. QED  BY <1>0, <2>2, <2>3, <2>4, GrowingKeeps
<1>3. CASE AbortSignal \/ DeadlinePasses
  <2>1. /\ lane.pc \in {"submitting", "polling", "collecting"} /\ UNCHANGED <<file, jobs, tree, disk>>
        /\ lane' = [lane EXCEPT !.signal = TRUE] \/ lane' = [lane EXCEPT !.late = TRUE]
    BY <1>3 DEF AbortSignal, DeadlinePasses, Polling
  <2>2. /\ lane' \in Lanes /\ lane'.pc = lane.pc /\ lane'.code = lane.code /\ lane'.recovery = lane.recovery
        /\ lane'.items = lane.items /\ lane'.sent = lane.sent /\ lane'.job = lane.job
    BY <1>0, <2>1 DEF Lanes
  <2>3. lane.code = "none"  BY <2>1 DEF BatchInv, Labels
  <2>4. lane.pc # "submitting" => file.job = lane.job /\ lane.job \in DOMAIN jobs
    BY <2>1, <2>3 DEF BatchInv, Named, HandleKept
  <2>5. lane.pc = "collecting" => Done(lane.job)  BY DEF BatchInv, Labels
  <2>6. Done(lane'.job) = Done(lane.job)  BY <2>2 DEF Done
  <2>7. file.job \in 0..Len(jobs) /\ tree.swept # "early"  BY DEF BatchInv, Named, Tree, PollDirtNotSwept
  <2>8. QED  BY <1>0, <2>1, <2>2, <2>3, <2>4, <2>5, <2>6, <2>7, GoingKeeps
<1>4. CASE UserEdits
  <2> DEFINE u == IF lane.pc \in {"committing", "verifying", "ended"} THEN "late" ELSE "early"
  <2>1. tree' = [tree EXCEPT !.user = u] /\ UNCHANGED <<file, jobs, lane, disk>>  BY <1>4 DEF UserEdits
  <2>2. u \in {"late", "early"} /\ (lane.pc = "committing" => u # "early")  OBVIOUS
  <2> HIDE DEF u
  <2>3. /\ tree' \in Trees /\ tree'.user = u /\ tree'.committed = tree.committed /\ tree'.swept = tree.swept
    BY <1>0, <2>1, <2>2 DEF Trees
  <2>4. Typed' /\ Named' /\ Labels'
    BY <2>1, <2>3 DEF BatchInv, Typed, Named, Labels, HandleKept, Done, Completed
  <2>5. Tree'  BY <2>1, <2>2, <2>3 DEF BatchInv, Tree, PollDirtNotSwept, Done, Completed
  <2>6. QED  BY <2>1, <2>4, <2>5, FilesStay DEF BatchInv, BatchTells
<1>5. QED  BY <1>1, <1>2, <1>3, <1>4 DEF LaneEnv

LEMMA PollingKeeps ==
  ASSUME disk \in Disks, BatchInv,
         Submitted \/ SubmitFails \/ PollAborts \/ PollTimesOut \/ PollFails \/ PollCompleted \/ PollFailed \/ CollectFails
  PROVE  BatchInv' /\ BatchTells
<1>0. lane \in Lanes /\ tree \in Trees /\ file \in JobFiles  BY DEF BatchInv, Typed
<1>1. CASE Submitted
  <2>1. /\ lane.pc \in {"submitting", "resuming"} /\ lane.sent # 0 /\ UNCHANGED <<jobs, tree, disk>>
        /\ lane' = [lane EXCEPT !.pc = "polling", !.job = lane.sent]
        /\ file' = [file EXCEPT !.job = lane.sent, !.status = "in_progress"]
    BY <1>1 DEF Submitted
  <2>2. lane.sent \in Nat /\ lane.code = "none"  BY <1>0, <2>1 DEF Lanes, BatchInv, Labels
  <2>3. /\ lane' \in Lanes /\ lane'.pc = "polling" /\ lane'.code = "none" /\ lane'.recovery = lane.recovery
        /\ lane'.items = lane.items /\ lane'.sent = lane.sent /\ lane'.job = lane.sent
    BY <1>0, <2>1, <2>2 DEF Lanes
  <2>4. file' \in JobFiles /\ file'.job = lane.sent  BY <1>0, <2>1, <2>2 DEF JobFiles
  <2>5. lane.sent \in 0..Len(jobs) /\ lane.sent \in DOMAIN jobs  BY <2>1, <2>2, NamesOf DEF BatchInv, Named, Typed
  <2>6. tree.swept # "early"  BY DEF BatchInv, Tree, PollDirtNotSwept
  <2>7. QED  BY <1>0, <2>1, <2>2, <2>3, <2>4, <2>5, <2>6, GoingKeeps
<1>2. CASE SubmitFails
  <2>1. /\ lane.pc = "submitting" /\ file' = [file EXCEPT !.status = "failed"] /\ Ends("submit_failed")
        /\ UNCHANGED <<jobs, tree>>
    BY <1>2 DEF SubmitFails
  <2>2. file' \in JobFiles /\ file'.job = file.job  BY <1>0, <2>1 DEF JobFiles
  <2>3. "submit_failed" \in Codes  BY DEF Codes, BatchErrors
  <2>4. QED  BY <1>0, <2>1, <2>2, <2>3, EndingKeeps
<1>3. ASSUME NEW code \in {"aborted", "poll_timeout", "http_error", "job_failed"}, Ends(code), UNCHANGED <<jobs, tree>>,
             lane.pc \in {"polling", "collecting"},
             \/ UNCHANGED file \/ file' = [file EXCEPT !.status = "aborted"] \/ file' = [file EXCEPT !.status = "failed"]
      PROVE  BatchInv' /\ BatchTells
  <2>1. file' \in JobFiles /\ file'.job = file.job  BY <1>0, <1>3 DEF JobFiles
  <2>2. code \in Codes  BY DEF Codes, BatchErrors
  <2>3. QED  BY <1>0, <1>3, <2>1, <2>2, EndingKeeps
<1>4. CASE PollAborts  BY <1>3, <1>4 DEF PollAborts, Polling
<1>5. CASE PollTimesOut  BY <1>3, <1>5 DEF PollTimesOut, Polling
<1>6. CASE PollFails  BY <1>3, <1>6 DEF PollFails, Asks, Polling
<1>7. CASE PollFailed  BY <1>3, <1>7 DEF PollFailed, Asks, Polling
<1>8. CASE CollectFails  BY <1>3, <1>8 DEF CollectFails
<1>9. CASE PollCompleted
  <2>1. /\ lane.pc = "polling" /\ jobs[lane.job].phase = "completed" /\ UNCHANGED <<file, jobs, tree, disk>>
        /\ lane' = [lane EXCEPT !.pc = "collecting"]
    BY <1>9 DEF PollCompleted, Asks, Polling
  <2>2. lane.code = "none"  BY <2>1 DEF BatchInv, Labels
  <2>3. /\ lane' \in Lanes /\ lane'.pc = "collecting" /\ lane'.code = "none" /\ lane'.recovery = lane.recovery
        /\ lane'.items = lane.items /\ lane'.sent = lane.sent /\ lane'.job = lane.job
    BY <1>0, <2>1, <2>2 DEF Lanes
  <2>4. file.job = lane.job /\ lane.job \in DOMAIN jobs  BY <2>1, <2>2 DEF BatchInv, Named, HandleKept
  <2>5. Done(lane.job)  BY <2>1, <2>4 DEF Done
  <2>6. Done(lane'.job)  BY <2>3, <2>5 DEF Done
  <2>7. file.job \in 0..Len(jobs) /\ tree.swept # "early"  BY DEF BatchInv, Named, Tree, PollDirtNotSwept
  <2>8. QED  BY <1>0, <2>1, <2>2, <2>3, <2>4, <2>6, <2>7, GoingKeeps
<1>10. QED  BY <1>1, <1>2, <1>4, <1>5, <1>6, <1>7, <1>8, <1>9

LEMMA CollectKeeps ==
  ASSUME disk \in Disks, BatchInv, Collect
  PROVE  BatchInv' /\ BatchTells
<1> DEFINE records == Records(lane.job)
           status == IF Incomplete(records) THEN "failed" ELSE "completed"
<1>0. lane \in Lanes /\ tree \in Trees /\ file \in JobFiles  BY DEF BatchInv, Typed
<1>1. lane.pc = "collecting" /\ lane.code = "none" /\ Done(lane.job)  BY DEF Collect, BatchInv, Labels
<1>2. file.job = lane.job /\ lane.job \in DOMAIN jobs  BY <1>1 DEF BatchInv, Named, HandleKept
<1>3. jobs[lane.job] \in Jobs  BY <1>2, LenProperties DEF BatchInv, Typed
<1>4. records \in [Items -> Answers]  BY <1>3 DEF Records, Jobs, Answers
<1>5. ~Incomplete(records) => lane.items \subseteq Completed(lane.job)
  <2>1. SUFFICES ASSUME ~Incomplete(records), NEW i \in lane.items
                 PROVE  i \in Completed(lane.job)
    OBVIOUS
  <2>2. i \in Items  BY <1>0 DEF Lanes
  <2>3. records[i] \in {"none", "completed"}  BY <2>1, <2>2 DEF Incomplete
  <2>4. i \in jobs[lane.job].items /\ records[i] = jobs[lane.job].outcome[i]  BY <2>2, <2>3 DEF Records
  <2>5. jobs[lane.job].outcome[i] # "none"  BY <1>1, <1>2, <2>4 DEF BatchInv, Named, Done
  <2>6. QED  BY <2>2, <2>3, <2>4, <2>5 DEF Completed
<1>6. /\ file' = [file EXCEPT !.items = records, !.status = status] /\ UNCHANGED <<jobs, tree>>
      /\ Incomplete(records) => Ends("items_incomplete")
      /\ ~Incomplete(records) /\ lane.recovery => Ends("green")
      /\ ~Incomplete(records) /\ ~lane.recovery => lane' = [lane EXCEPT !.pc = "applying"] /\ UNCHANGED disk
  BY DEF Collect
<1>7. status \in {"failed", "completed"}  OBVIOUS
<1> HIDE DEF records, status
<1>8. file' \in JobFiles /\ file'.job = file.job  BY <1>0, <1>4, <1>6, <1>7 DEF JobFiles
<1>9. file.job \in 0..Len(jobs) /\ tree.swept # "early"  BY DEF BatchInv, Named, Tree, PollDirtNotSwept
<1>10. CASE Incomplete(records)
  <2>1. "items_incomplete" \in Codes  BY DEF Codes, BatchErrors
  <2>2. QED  BY <1>0, <1>1, <1>6, <1>8, <1>10, <2>1, EndingKeeps
<1>11. CASE ~Incomplete(records) /\ lane.recovery
  <2>1. /\ lane' \in Lanes /\ lane'.pc = "ended" /\ lane'.code = "green" /\ lane'.job = lane.job
        /\ lane'.items = lane.items /\ lane'.sent = lane.sent /\ lane'.recovery = lane.recovery
        /\ FilesGrow /\ disk'.request = disk.request /\ disk'.failure = disk.failure /\ disk' = disk
    BY <1>0, <1>6, <1>11, EndsOf
  <2>2. Typed'  BY <1>6, <1>8, <2>1 DEF BatchInv, Typed
  <2>3. Named'
    <3>1. HandleKept'  BY <1>2, <1>6, <1>8, <2>1 DEF HandleKept
    <3>2. QED  BY <1>6, <1>8, <2>1, <3>1 DEF BatchInv, Named
  <2>4. Labels'  BY <1>1, <1>5, <1>6, <1>11, <2>1 DEF Labels, Done, Completed
  <2>5. Tree'  BY <1>6, <2>1 DEF BatchInv, Tree, PollDirtNotSwept, Done, Completed
  <2>6. BatchTells  BY <1>1, <2>1 DEF BatchTells
  <2>7. QED  BY <2>2, <2>3, <2>4, <2>5, <2>6 DEF BatchInv
<1>12. CASE ~Incomplete(records) /\ ~lane.recovery
  <2>1. /\ lane' \in Lanes /\ lane'.pc = "applying" /\ lane'.code = "none" /\ lane'.recovery = lane.recovery
        /\ lane'.items = lane.items /\ lane'.sent = lane.sent /\ lane'.job = lane.job
    BY <1>0, <1>1, <1>6, <1>12 DEF Lanes
  <2>2. Done(lane'.job) /\ lane.items \subseteq Completed(lane'.job)  BY <1>1, <1>5, <1>12, <2>1 DEF Done, Completed
  <2>3. QED  BY <1>0, <1>1, <1>2, <1>6, <1>8, <1>9, <1>12, <2>1, <2>2, GoingKeeps
<1>13. QED  BY <1>10, <1>11, <1>12

LEMMA ApplyingKeeps ==
  ASSUME disk \in Disks, BatchInv, Apply \/ Commit
  PROVE  BatchInv' /\ BatchTells
<1>0. lane \in Lanes /\ tree \in Trees /\ file \in JobFiles  BY DEF BatchInv, Typed
<1>1. /\ lane.pc \in {"applying", "committing"} /\ lane.code = "none" /\ ~lane.recovery /\ lane.items = Items
      /\ Done(lane.job) /\ lane.items \subseteq Completed(lane.job) /\ UNCHANGED <<file, jobs>>
  BY DEF Apply, Commit, BatchInv, Labels
<1>2. file.job = lane.job /\ lane.job \in DOMAIN jobs  BY <1>1 DEF BatchInv, Named, HandleKept
<1>3. file.job \in 0..Len(jobs) /\ tree.swept # "early"  BY DEF BatchInv, Named, Tree, PollDirtNotSwept
<1>4. ASSUME NEW code \in {"dirty", "invalid_output", "existing_file", "commit_failed"}, Ends(code),
             tree' \in Trees, tree'.committed = tree.committed, tree'.swept = tree.swept
      PROVE  BatchInv' /\ BatchTells
  <2>1. code \in Codes  BY DEF Codes, BatchErrors
  <2>2. QED  BY <1>0, <1>1, <1>4, <2>1, EndingKeeps
<1>5. ASSUME NEW label \in {"committing", "verifying"}, lane' = [lane EXCEPT !.pc = label], UNCHANGED disk,
             tree' \in Trees, tree'.swept # "early", label = "committing" => tree'.user # "early"
      PROVE  BatchInv' /\ BatchTells
  <2>1. /\ lane' \in Lanes /\ lane'.pc = label /\ lane'.code = "none" /\ lane'.recovery = lane.recovery
        /\ lane'.items = lane.items /\ lane'.sent = lane.sent /\ lane'.job = lane.job
    BY <1>0, <1>1, <1>5 DEF Lanes
  <2>2. Done(lane'.job) /\ lane.items \subseteq Completed(lane'.job) /\ Items \subseteq Completed(lane'.job)
    BY <1>1, <2>1 DEF Done, Completed
  <2>3. QED  BY <1>0, <1>1, <1>2, <1>3, <1>5, <2>1, <2>2, GoingKeeps
<1>6. CASE Apply
  <2>1. CASE \E code \in {"dirty", "invalid_output"} : Ends(code) /\ UNCHANGED tree  BY <1>0, <1>4, <2>1
  <2>2. CASE /\ tree.user = "none"
             /\ \E written \in SUBSET Items :
                  /\ tree' = [tree EXCEPT !.files = written]
                  /\ IF written = Items THEN lane' = [lane EXCEPT !.pc = "committing"] /\ UNCHANGED disk
                     ELSE Ends("existing_file")
    <3>1. PICK written \in SUBSET Items :
            /\ tree' = [tree EXCEPT !.files = written]
            /\ IF written = Items THEN lane' = [lane EXCEPT !.pc = "committing"] /\ UNCHANGED disk
               ELSE Ends("existing_file")
      BY <2>2
    <3>2. tree' \in Trees /\ tree'.committed = tree.committed /\ tree'.swept = tree.swept /\ tree'.user = "none"
      BY <1>0, <2>2, <3>1 DEF Trees
    <3>3. CASE written = Items  BY <1>3, <1>5, <3>1, <3>2, <3>3
    <3>4. CASE written # Items  BY <1>4, <3>1, <3>2, <3>4
    <3>5. QED  BY <3>3, <3>4
  <2>3. QED  BY <1>6, <2>1, <2>2 DEF Apply
<1>7. CASE Commit
  <2>1. CASE Ends("commit_failed") /\ UNCHANGED tree  BY <1>0, <1>4, <2>1
  <2>2. CASE /\ tree' = [user |-> "none", files |-> {}, committed |-> tree.files, swept |-> tree.user]
             /\ lane' = [lane EXCEPT !.pc = "verifying"] /\ UNCHANGED disk
    <3>1. lane.pc = "committing" /\ tree.user # "early"  BY <1>7 DEF Commit, BatchInv, Tree
    <3>2. tree' \in Trees /\ tree'.swept # "early"  BY <1>0, <2>2, <3>1 DEF Trees
    <3>3. QED  BY <1>5, <2>2, <3>2
  <2>3. QED  BY <1>7, <2>1, <2>2 DEF Commit
<1>8. QED  BY <1>6, <1>7

LEMMA LaneKeeps ==
  ASSUME disk \in Disks, BatchInv, LaneStep
  PROVE  BatchInv' /\ BatchTells
<1>1. CASE Verify
  <2>0. lane \in Lanes  BY DEF BatchInv, Typed
  <2>1. /\ lane.pc = "verifying" /\ lane.code = "none" /\ ~lane.recovery /\ Done(lane.job)
        /\ lane.items \subseteq Completed(lane.job)
        /\ lane' = [lane EXCEPT !.pc = "ended", !.code = "green"] /\ UNCHANGED <<file, jobs, tree>> /\ writeManifest
    BY <1>1 DEF Verify, BatchInv, Labels
  <2>2. /\ lane' \in Lanes /\ lane'.pc = "ended" /\ lane'.code = "green" /\ lane'.recovery = lane.recovery
        /\ lane'.items = lane.items /\ lane'.sent = lane.sent /\ lane'.job = lane.job
    BY <2>0, <2>1 DEF Lanes
  <2>3. FilesGrow /\ disk'.manifest /\ disk'.failure = disk.failure /\ disk'.request = disk.request
    BY <2>1, ManifestGrows
  <2>4. Typed'  BY <2>1, <2>2 DEF BatchInv, Typed
  <2>5. Named'
    <3>1. HandleKept'  BY <2>1, <2>2 DEF BatchInv, Named, HandleKept
    <3>2. QED  BY <2>1, <2>2, <3>1 DEF BatchInv, Named
  <2>6. Labels'  BY <2>1, <2>2, <2>3 DEF Labels, Done, Completed
  <2>7. Tree'  BY <2>1, <2>2 DEF BatchInv, Tree, PollDirtNotSwept, Done, Completed
  <2>8. BatchTells  BY <2>1, <2>2, <2>3 DEF BatchTells
  <2>9. QED  BY <2>4, <2>5, <2>6, <2>7, <2>8 DEF BatchInv
<1>2. QED  BY <1>1, PollingKeeps, CollectKeeps, ApplyingKeeps DEF LaneStep

LEMMA BatchStays ==
  ASSUME BatchInv, FilesGrow, UNCHANGED laneVars
  PROVE  BatchInv'
<1>1. file' = file /\ jobs' = jobs /\ lane' = lane /\ tree' = tree  BY DEF laneVars
<1>2. Typed' /\ Named' /\ Tree'
  BY <1>1 DEF BatchInv, Typed, Named, HandleKept, Tree, PollDirtNotSwept, Done, Completed
<1>3. Labels'  BY <1>1 DEF BatchInv, Labels, FilesGrow, Done, Completed
<1>4. QED  BY <1>2, <1>3 DEF BatchInv

-----------------------------------------------------------------------------
(* The child and its task.                                                  *)

\* What the files say goes with where the child is: a manifest is there exactly when the
\* task has returned a result, and a child that has seen its task throw has recorded a failure.
ChildInv ==
  /\ disk \in Disks
  /\ child \in [pc : {"none", "spawned", "up", "closing", "returned", "ended", "refused", "dead"},
                route : {"none", "batch", "single", "parallel"}]
  /\ Child("none") => ~disk.request
  /\ child.pc \in {"spawned", "up"} \/ disk.live => disk.request
  /\ child.pc \in {"none", "spawned"} => ~disk.manifest
  /\ child.pc \in {"none", "spawned", "up"} => ~lane.recovery
  /\ Child("up") /\ disk.manifest => Returned
  /\ Child("closing") \/ (Child("ended") /\ disk.request) => ~disk.manifest /\ disk.failure # "none"
  /\ Child("returned") => disk.manifest

DetachedInv == ChildInv /\ SingleInv /\ ParallelInv /\ BatchInv

LEMMA DetachedInitIsIn == DetachedInit => DetachedInv
<1> SUFFICES ASSUME DetachedInit PROVE DetachedInv  OBVIOUS
<1>1. disk = NoFiles /\ child = [pc |-> "none", route |-> "none"] /\ LaneInit /\ SingleInit /\ ParallelInit
  BY DEF DetachedInit
<1>2. /\ disk \in Disks /\ ~disk.request /\ ~disk.live /\ ~disk.manifest  BY <1>1 DEF NoFiles, Disks
<1>3. BatchInv
  <2>1. /\ lane \in Lanes /\ lane.pc = "idle" /\ lane.code = "none" /\ ~lane.recovery /\ lane.sent = 0
    BY <1>1 DEF LaneInit, Idle, Lanes
  <2>2. file \in JobFiles /\ file.job = 0  BY <1>1 DEF LaneInit, NoFile, NoItems, JobFiles, Answers
  <2>3. jobs \in Seq(Jobs) /\ Len(jobs) = 0 /\ DOMAIN jobs = {}
    <3>1. jobs = <<>>  BY <1>1 DEF LaneInit
    <3>2. <<>> \in Seq(Jobs) /\ Len(<<>>) = 0  OBVIOUS
    <3>3. QED  BY <3>1, <3>2, LenProperties
  <2>4. tree \in Trees /\ tree.committed = {} /\ tree.swept = "none"  BY <1>1 DEF LaneInit, Trees
  <2>5. Typed  BY <2>1, <2>2, <2>3, <2>4 DEF Typed
  <2>6. Named
    <3>1. lane.sent \in 0..Len(jobs) /\ file.job \in 0..Len(jobs)  BY <2>1, <2>2, <2>3
    <3>2. QED  BY <2>1, <2>3, <3>1 DEF Named, HandleKept
  <2>7. Labels  BY <2>1 DEF Labels
  <2>8. Tree  BY <2>1, <2>4 DEF Tree, PollDirtNotSwept
  <2>9. QED  BY <2>5, <2>6, <2>7, <2>8 DEF BatchInv
<1>4. SingleInv
  <2>1. single \in Singles /\ single.outcome = "none" /\ single.pc = "idle"  BY <1>1 DEF SingleInit, Singles
  <2>2. QED  BY <2>1 DEF SingleInv, ShipIsReviewed
<1>5. ParallelInv
  <2>1. /\ session = [i \in Workers |-> "none"] /\ relay = [i \in Workers |-> "none"] /\ work = [i \in Workers |-> "none"]
    BY <1>1 DEF ParallelInit
  <2>2. run \in Runs /\ run.pc = "idle" /\ run.outcome = "none"  BY <1>1 DEF ParallelInit, Runs
  <2>3. PartialNeverMerged /\ GreenIsIntegrated  BY <2>1, <2>2 DEF PartialNeverMerged, GreenIsIntegrated
  <2>4. ~OnMerge /\ ~Gated  BY <2>2 DEF OnMerge, Gated
  <2>5. QED  BY <2>1, <2>2, <2>3, <2>4 DEF ParallelInv
<1>6. ChildInv
  <2>1. ~lane.recovery  BY <1>1 DEF LaneInit, Idle
  <2>2. QED  BY <1>1, <1>2, <2>1 DEF ChildInv, Child
<1>7. QED  BY <1>3, <1>4, <1>5, <1>6 DEF DetachedInv

LEMMA TaskStays ==
  ASSUME SingleInv, ParallelInv, BatchInv, FilesGrow, UNCHANGED taskVars
  PROVE  /\ SingleInv' /\ ParallelInv' /\ BatchInv' /\ Returned' = Returned /\ UNCHANGED lane
<1>1. /\ UNCHANGED laneVars /\ UNCHANGED single /\ UNCHANGED <<session, relay, work, run>> /\ UNCHANGED lane
  BY DEF taskVars, laneVars, workerVars
<1>2. QED  BY <1>1, SingleStays, ParallelStays, BatchStays DEF Returned

\* The result of a task that returned is in its manifest.
LEMMA ReturnedIsOnDisk ==
  ASSUME DetachedInv, Child("up"), Returned
  PROVE  disk.manifest
<1>1. CASE lane.code = "green"  BY <1>1 DEF DetachedInv, ChildInv, Child, BatchInv, Labels
<1>2. CASE single.outcome \in {"success", "failed"}  BY <1>2 DEF DetachedInv, SingleInv
<1>3. CASE run.outcome \in {"success", "failed"}  BY <1>3 DEF DetachedInv, ParallelInv
<1>4. QED  BY <1>1, <1>2, <1>3 DEF Returned

LEMMA TaskRunsKeep ==
  ASSUME DetachedInv, TaskRuns
  PROVE  DetachedInv' /\ FilesGrow
<1>1. /\ Child("up") /\ UNCHANGED child /\ disk \in Disks /\ ~lane.recovery /\ (disk.manifest => Returned)
      /\ SingleInv /\ ParallelInv /\ BatchInv
  BY DEF TaskRuns, DetachedInv, ChildInv, Child
<1>2. ASSUME FilesGrow, disk'.manifest => Returned', ~lane'.recovery
      PROVE  ChildInv'
  BY <1>1, <1>2 DEF DetachedInv, ChildInv, Child, FilesGrow
<1>3. CASE BatchRuns
  <2>1. BatchInv' /\ BatchTells
    <3>1. CASE lane.pc = "idle" /\ Start  BY <1>1, <3>1, StartKeeps
    <3>2. CASE LaneStep  BY <1>1, <3>2, LaneKeeps
    <3>3. CASE LaneEnv  BY <1>1, <3>3, EnvironmentKeeps
    <3>4. QED  BY <1>3, <3>1, <3>2, <3>3 DEF BatchRuns
  <2>2. UNCHANGED single /\ UNCHANGED <<session, relay, work, run>>  BY <1>3 DEF BatchRuns, workerVars
  <2>3. FilesGrow /\ ~lane'.recovery  BY <1>1, <2>1 DEF BatchTells
  <2>4. SingleInv' /\ ParallelInv'  BY <1>1, <2>2, <2>3, SingleStays, ParallelStays
  <2>5. disk'.manifest => Returned'  BY <1>1, <2>1, <2>2 DEF BatchTells, Returned
  <2>6. QED  BY <1>2, <2>1, <2>3, <2>4, <2>5 DEF DetachedInv
<1>4. CASE SingleRuns
  <2>1. SingleInv' /\ SingleTells  BY <1>1, <1>4, SingleKeeps DEF SingleRuns
  <2>2. UNCHANGED laneVars /\ UNCHANGED <<session, relay, work, run>> /\ UNCHANGED lane
    BY <1>4 DEF SingleRuns, workerVars, laneVars
  <2>3. FilesGrow  BY <2>1 DEF SingleTells
  <2>4. BatchInv' /\ ParallelInv'  BY <1>1, <2>2, <2>3, BatchStays, ParallelStays
  <2>5. disk'.manifest => Returned'  BY <1>1, <2>1, <2>2 DEF SingleTells, Returned
  <2>6. QED  BY <1>1, <1>2, <2>1, <2>2, <2>3, <2>4, <2>5 DEF DetachedInv
<1>5. CASE ParallelRuns
  <2>1. ParallelInv' /\ ParallelTells  BY <1>1, <1>5, ParallelKeeps DEF ParallelRuns
  <2>2. UNCHANGED laneVars /\ UNCHANGED single /\ UNCHANGED lane  BY <1>5 DEF ParallelRuns, laneVars
  <2>3. FilesGrow  BY <2>1 DEF ParallelTells
  <2>4. BatchInv' /\ SingleInv'  BY <1>1, <2>2, <2>3, BatchStays, SingleStays
  <2>5. disk'.manifest => Returned'  BY <1>1, <2>1, <2>2 DEF ParallelTells, Returned
  <2>6. QED  BY <1>1, <1>2, <2>1, <2>2, <2>3, <2>4, <2>5 DEF DetachedInv
<1>6. QED  BY <1>3, <1>4, <1>5 DEF TaskRuns

LEMMA ChildStepsKeep ==
  ASSUME DetachedInv, DispatchStep \/ ChildReturns \/ ChildThrows \/ ChildCloses
  PROVE  DetachedInv' /\ FilesGrow
<1>1. disk \in Disks /\ UNCHANGED taskVars
  BY DEF DetachedInv, ChildInv, DispatchStep, Dispatch, SpawnError, ChildUp, ChildRefuses, ChildReturns, ChildThrows,
         ChildCloses
<1>2. ASSUME FilesGrow, ChildInv' PROVE DetachedInv' /\ FilesGrow
  BY <1>1, <1>2, TaskStays DEF DetachedInv
<1>3. UNCHANGED lane /\ Returned' = Returned  BY <1>1 DEF taskVars, Returned
<1>4. CASE Dispatch
  <2>1. CASE child' = [child EXCEPT !.pc = "spawned"] /\ disk' = [disk EXCEPT !.request = TRUE]
    <3>1. FilesGrow /\ ~disk'.manifest  BY <1>1, <1>4, <2>1 DEF FilesGrow, Disks, Dispatch, Child, DetachedInv, ChildInv
    <3>2. ChildInv'  BY <1>3, <1>4, <2>1, <3>1 DEF FilesGrow, Dispatch, Child, DetachedInv, ChildInv
    <3>3. QED  BY <1>2, <3>1, <3>2
  <2>2. CASE child' = [child EXCEPT !.pc = "ended"] /\ UNCHANGED disk
    <3>1. FilesGrow  BY <1>1, <2>2, FilesStay
    <3>2. ChildInv'  BY <1>1, <1>3, <1>4, <2>2 DEF Dispatch, Child, DetachedInv, ChildInv
    <3>3. QED  BY <1>2, <3>1, <3>2
  <2>3. QED  BY <1>4, <2>1, <2>2 DEF Dispatch, Goes
<1>5. CASE SpawnError
  <2>1. Child("spawned") /\ child' = [child EXCEPT !.pc = "ended"] /\ writeFailureArtifact("worker")
    BY <1>5 DEF SpawnError, Goes
  <2>2. FilesGrow /\ disk'.manifest = disk.manifest /\ disk'.failure = "worker"  BY <1>1, <2>1, FailureGrows
  <2>3. ChildInv'  BY <1>3, <2>1, <2>2 DEF FilesGrow, Child, DetachedInv, ChildInv
  <2>4. QED  BY <1>2, <2>2, <2>3
<1>6. CASE ChildUp
  <2>1. PICK route \in {"batch", "single", "parallel"} : child' = [pc |-> "up", route |-> route]  BY <1>6 DEF ChildUp
  <2>2. Child("spawned") /\ disk' = [disk EXCEPT !.live = TRUE]  BY <1>6 DEF ChildUp
  <2>3. FilesGrow /\ disk'.manifest = disk.manifest  BY <1>1, <2>2 DEF FilesGrow, Disks
  <2>4. ChildInv'  BY <1>3, <2>1, <2>2, <2>3 DEF FilesGrow, Child, DetachedInv, ChildInv
  <2>5. QED  BY <1>2, <2>3, <2>4
<1>7. CASE ChildReturns
  <2>1. /\ Child("up") /\ Returned /\ child' = [child EXCEPT !.pc = "returned"] /\ disk' = [disk EXCEPT !.live = FALSE]
    BY <1>7 DEF ChildReturns, Goes
  <2>2. disk.manifest  BY <2>1, ReturnedIsOnDisk
  <2>3. FilesGrow /\ disk'.manifest  BY <1>1, <2>1, <2>2 DEF FilesGrow, Disks
  <2>4. ChildInv'  BY <1>3, <2>1, <2>3 DEF FilesGrow, Child, DetachedInv, ChildInv
  <2>5. QED  BY <1>2, <2>3, <2>4
<1>8. CASE ChildThrows
  <2>1. /\ Child("up") /\ ~Returned /\ child' = [child EXCEPT !.pc = "closing"]
        /\ IF disk.failure = "none" /\ ~disk.manifest THEN writeFailureArtifact("worker") ELSE UNCHANGED disk
    BY <1>8 DEF ChildThrows, Goes
  <2>2. ~disk.manifest  BY <2>1 DEF DetachedInv, ChildInv
  <2>3. FilesGrow /\ ~disk'.manifest /\ disk'.failure # "none"
    <3>1. CASE disk.failure = "none"  BY <1>1, <2>1, <2>2, <3>1, FailureGrows
    <3>2. CASE disk.failure # "none"  BY <1>1, <2>1, <2>2, <3>2, FilesStay
    <3>3. QED  BY <3>1, <3>2
  <2>4. ChildInv'  BY <1>3, <2>1, <2>3 DEF FilesGrow, Child, DetachedInv, ChildInv
  <2>5. QED  BY <1>2, <2>3, <2>4
<1>9. CASE ChildCloses
  <2>1. Child("closing") /\ child' = [child EXCEPT !.pc = "ended"] /\ disk' = [disk EXCEPT !.live = FALSE]
    BY <1>9 DEF ChildCloses, Goes
  <2>2. ~disk.manifest /\ disk.failure # "none"  BY <2>1 DEF DetachedInv, ChildInv
  <2>3. FilesGrow /\ ~disk'.manifest /\ disk'.failure # "none"  BY <1>1, <2>1, <2>2 DEF FilesGrow, Disks
  <2>4. ChildInv'  BY <1>3, <2>1, <2>3 DEF FilesGrow, Child, DetachedInv, ChildInv
  <2>5. QED  BY <1>2, <2>3, <2>4
<1>10. CASE ChildRefuses
  <2>1. Child("spawned") /\ child' = [child EXCEPT !.pc = "refused"] /\ UNCHANGED disk
    BY <1>10 DEF ChildRefuses, Goes
  <2>2. FilesGrow  BY <1>1, <2>1, FilesStay
  <2>3. ChildInv'  BY <1>3, <2>1 DEF Child, DetachedInv, ChildInv
  <2>4. QED  BY <1>2, <2>2, <2>3
<1>11. QED  BY <1>4, <1>5, <1>6, <1>7, <1>8, <1>9, <1>10 DEF DispatchStep

\* After the child nothing writes to the files any more.
LEMMA AfterwardsKeeps ==
  ASSUME DetachedInv, ChildDies \/ Recovery \/ Later
  PROVE  DetachedInv' /\ FilesGrow
<1>1. disk \in Disks /\ SingleInv /\ ParallelInv /\ BatchInv  BY DEF DetachedInv, ChildInv
<1>2. ASSUME UNCHANGED disk, BatchInv', SingleInv', ChildInv', UNCHANGED <<session, relay, work, run>>
      PROVE  DetachedInv' /\ FilesGrow
  BY <1>1, <1>2, FilesStay, ParallelStays DEF DetachedInv
<1>3. CASE ChildDies
  <2>1. /\ child' = [child EXCEPT !.pc = "dead"] /\ lane' = Idle
        /\ UNCHANGED <<file, jobs, tree>> /\ UNCHANGED single /\ UNCHANGED <<session, relay, work, run>> /\ UNCHANGED disk
    BY <1>3 DEF ChildDies, Goes, workerVars
  <2>2. ChildInv'  BY <2>1 DEF DetachedInv, ChildInv, Child
  <2>3. QED  BY <1>1, <1>2, <2>1, <2>2, IdleKeeps, FilesStay, SingleStays
<1>4. CASE Recovery
  <2>1. Gone /\ UNCHANGED child /\ UNCHANGED single /\ UNCHANGED <<session, relay, work, run>>
    BY <1>4 DEF Recovery, workerVars
  <2>2. BatchInv' /\ UNCHANGED disk
    <3>1. CASE Resume \/ Resubmit  BY <1>1, <3>1, RecoveringKeeps
    <3>2. CASE lane.recovery /\ LaneStep  BY <1>1, <3>2, LaneKeeps DEF BatchTells
    <3>3. CASE LaneLost  BY <1>1, <3>3, IdleKeeps DEF LaneLost
    <3>4. CASE LaneEnv  BY <1>1, <3>4, EnvironmentKeeps
    <3>5. QED  BY <1>4, <3>1, <3>2, <3>3, <3>4 DEF Recovery
  <2>3. ChildInv'  BY <2>1, <2>2 DEF DetachedInv, ChildInv, Child, Gone
  <2>4. QED  BY <1>1, <1>2, <2>1, <2>2, <2>3, FilesStay, SingleStays
<1>5. CASE Later
  <2>1. /\ Gone /\ NextDispatch /\ UNCHANGED child /\ UNCHANGED laneVars /\ UNCHANGED <<session, relay, work, run>>
        /\ UNCHANGED lane
    BY <1>5 DEF Later, workerVars, laneVars
  <2>2. SingleInv' /\ UNCHANGED disk  BY <1>1, <2>1, NextDispatchKeeps
  <2>3. ChildInv'  BY <2>1, <2>2 DEF DetachedInv, ChildInv, Child, Gone
  <2>4. QED  BY <1>1, <1>2, <2>1, <2>2, <2>3, FilesStay, BatchStays
<1>6. QED  BY <1>3, <1>4, <1>5

LEMMA DetachedNextKeeps ==
  ASSUME DetachedInv, [DetachedNext]_<<detachedVars, reads>>
  PROVE  DetachedInv' /\ FilesGrow
<1>1. CASE UNCHANGED detachedVars
  <2>1. UNCHANGED taskVars /\ UNCHANGED child /\ UNCHANGED disk  BY <1>1 DEF detachedVars, taskVars
  <2>2. FilesGrow  BY <2>1, FilesStay DEF DetachedInv, ChildInv
  <2>3. SingleInv' /\ ParallelInv' /\ BatchInv' /\ Returned' = Returned /\ UNCHANGED lane
    BY <2>1, <2>2, TaskStays DEF DetachedInv
  <2>4. ChildInv'  BY <2>1, <2>3 DEF DetachedInv, ChildInv, Child
  <2>5. QED  BY <2>2, <2>3, <2>4 DEF DetachedInv
<1>2. QED  BY <1>1, ChildStepsKeep, TaskRunsKeep, AfterwardsKeeps DEF DetachedNext, ChildStep

-----------------------------------------------------------------------------
(* What a reader is told.                                                   *)

\* The files a disk can show: the heartbeat is of a run that was requested.
Shown(d) == d \in Disks /\ (d.live => d.request)
Ended(d) == d.manifest \/ d.failure # "none"

Reads == [told : {"unknown", "starting", "live", "failed", "finished"}, at : 1..9, found : SUBSET (1..4)]

\* What a read has found was there, and is, but for a heartbeat removed since an end is on record.
Found(r, d) ==
  /\ 1 \in r.found => d.manifest
  /\ 2 \in r.found => d.failure # "none"
  /\ 3 \in r.found => d.request /\ (d.live \/ Ended(d))
  /\ 4 \in r.found => d.request

\* The file of the answer before it is found again, once it has been asked for.
FoundAgain(r, d) ==
  /\ r.told = "finished" => d.manifest /\ (r.at > 1 => 1 \in r.found)
  /\ r.told = "failed" => d.failure # "none" /\ (r.at > 2 => 2 \in r.found)
  /\ r.told = "live" => d.request /\ (d.live \/ Ended(d)) /\ (r.at > 3 => 3 \in r.found \/ Ended(d))
  /\ r.told \in {"live", "starting"} => d.request /\ (r.at > 4 => 4 \in r.found)

\* A file it has passed over was not found, or is the heartbeat of a run that has ended.
PassedOver(r, d) ==
  /\ r.at > 5 => 1 \notin r.found
  /\ r.at > 6 => 2 \notin r.found
  /\ r.at > 7 => 3 \notin r.found \/ Ended(d)
  /\ r.at > 8 => 4 \notin r.found

SoundRead(r, d) == r \in Reads /\ Found(r, d) /\ FoundAgain(r, d) /\ PassedOver(r, d)

LEMMA OnwardIsSound ==
  ASSUME NEW d, Shown(d), NEW r, SoundRead(r, d), NEW q \in Onward(r, d)
  PROVE  SoundRead(q, d)
<1>1. PICK to \in r.at..9 : q = [r EXCEPT !.at = to, !.found = locateRun(r, d, to)]
  BY DEF Onward
<1>2. \A k \in 1..4 : r.at <= k + 4 /\ k + 4 < q.at => ~Parsed(q, d, k)
  BY DEF Onward
<1> DEFINE f == locateRun(r, d, to)
<1>3. r \in Reads /\ r.at \in 1..9 /\ to \in 1..9 /\ r.at <= to
  BY DEF SoundRead, Reads
<1>4. f \in SUBSET (1..4)  BY <1>3 DEF locateRun, SoundRead, Reads
<1>5. \A k \in 1..4 : k \in f <=> k \in r.found \/ (r.at <= k /\ k < to /\ Holds(d, k))
  BY DEF locateRun
<1> HIDE DEF f
<1>6. q \in Reads /\ q.told = r.told /\ q.at = to /\ q.found = f
  BY <1>1, <1>3, <1>4 DEF f, Reads
<1>7. /\ 1 \in f <=> 1 \in r.found \/ (r.at <= 1 /\ 1 < to /\ d.manifest)
      /\ 2 \in f <=> 2 \in r.found \/ (r.at <= 2 /\ 2 < to /\ d.failure # "none")
      /\ 3 \in f <=> 3 \in r.found \/ (r.at <= 3 /\ 3 < to /\ d.live)
      /\ 4 \in f <=> 4 \in r.found \/ (r.at <= 4 /\ 4 < to /\ d.request)
  BY <1>5 DEF Holds
<1>8. /\ r.at <= 5 /\ 5 < to => ~(1 \in f /\ d.manifest)
      /\ r.at <= 6 /\ 6 < to => ~(2 \in f /\ d.failure # "none")
      /\ r.at <= 7 /\ 7 < to => ~(3 \in f /\ d.live)
      /\ r.at <= 8 /\ 8 < to => ~(4 \in f /\ d.request)
  <2>1. \A k \in 1..4 : r.at <= k + 4 /\ k + 4 < to => ~(k \in f /\ Holds(d, k))
    BY <1>2, <1>6 DEF Parsed
  <2>2. 1 \in 1..4 /\ 2 \in 1..4 /\ 3 \in 1..4 /\ 4 \in 1..4  OBVIOUS
  <2>3. QED  BY <2>1, <2>2 DEF Holds
<1>9. Found(q, d)
  BY <1>6, <1>7 DEF Shown, SoundRead, Found
<1>10. FoundAgain(q, d)
  BY <1>3, <1>6, <1>7 DEF SoundRead, FoundAgain, Ended
<1>11. PassedOver(q, d)
  BY <1>3, <1>6, <1>7, <1>8, <1>9 DEF SoundRead, Found, PassedOver, Ended
<1>12. QED  BY <1>6, <1>9, <1>10, <1>11 DEF SoundRead

\* A read that begins after an answer, or with none before it.
LEMMA NewReadIsSound ==
  ASSUME NEW d, Shown(d),
         NEW told \in {"unknown", "starting", "live", "failed", "finished"},
         told = "finished" => d.manifest,
         told = "failed" => d.failure # "none",
         told = "live" => d.live,
         told = "starting" => d.request
  PROVE  SoundRead(NewRead(told), d)
<1> DEFINE r == NewRead(told)
<1>1. r.told = told /\ r.at = 1 /\ r.found = {}  BY DEF NewRead
<1>2. r \in Reads
  <2>1. 1 \in 1..9 /\ {} \in SUBSET (1..4)  OBVIOUS
  <2>2. QED  BY <2>1 DEF NewRead, Reads
<1> HIDE DEF r
<1>3. Found(r, d) /\ PassedOver(r, d)  BY <1>1 DEF Found, PassedOver
<1>4. FoundAgain(r, d)  BY <1>1 DEF FoundAgain, Shown
<1>5. QED  BY <1>2, <1>3, <1>4 DEF SoundRead, r

LEMMA AnswersAre ==
  ASSUME NEW r, NEW d, r \in Reads
  PROVE  \/ readRunStatus(r, d) = "none"
         \/ readRunStatus(r, d) = "finished" /\ r.at = 5 /\ 1 \in r.found /\ d.manifest
         \/ readRunStatus(r, d) = "failed" /\ r.at = 6 /\ 2 \in r.found /\ d.failure # "none"
         \/ readRunStatus(r, d) = "live" /\ r.at = 7 /\ 3 \in r.found /\ d.live
         \/ readRunStatus(r, d) = "starting" /\ r.at = 8 /\ 4 \in r.found /\ d.request
         \/ readRunStatus(r, d) = "unknown" /\ r.at = 9
<1>1. r.at \in 1..9  BY DEF Reads
<1>2. CASE r.at = 5 /\ Parsed(r, d, 1)  BY <1>2 DEF readRunStatus, Parsed, Holds
<1>3. CASE r.at = 6 /\ Parsed(r, d, 2)  BY <1>3 DEF readRunStatus, Parsed, Holds
<1>4. CASE r.at = 7 /\ Parsed(r, d, 3)  BY <1>4 DEF readRunStatus, Parsed, Holds
<1>5. CASE r.at = 8 /\ Parsed(r, d, 4)  BY <1>5 DEF readRunStatus, Parsed, Holds
<1>6. CASE r.at = 9  BY <1>6 DEF readRunStatus
<1>7. CASE ~(r.at = 5 /\ Parsed(r, d, 1)) /\ ~(r.at = 6 /\ Parsed(r, d, 2)) /\ ~(r.at = 7 /\ Parsed(r, d, 3))
           /\ ~(r.at = 8 /\ Parsed(r, d, 4)) /\ r.at # 9
  BY <1>7 DEF readRunStatus
<1>8. QED  BY <1>2, <1>3, <1>4, <1>5, <1>6, <1>7

LEMMA ReadsOnAreSound ==
  ASSUME NEW d, Shown(d), NEW R, \A r \in R : SoundRead(r, d), NEW q \in ReadsOn(R, d)
  PROVE  SoundRead(q, d)
<1> DEFINE first == UNION {Onward(r, d) : r \in R \cup {NewRead("unknown")}}
           later == {NewRead(readRunStatus(r, d)) : r \in {p \in first : readRunStatus(p, d) # "none"}}
<1>1. \A r \in first : SoundRead(r, d)
  <2>1. SUFFICES ASSUME NEW r \in R \cup {NewRead("unknown")}, NEW p \in Onward(r, d)  PROVE SoundRead(p, d)
    OBVIOUS
  <2>2. SoundRead(r, d)  BY NewReadIsSound
  <2>3. QED  BY <2>2, OnwardIsSound
<1>2. \A r \in later : SoundRead(r, d)
  <2>1. SUFFICES ASSUME NEW r \in first, readRunStatus(r, d) # "none"  PROVE SoundRead(NewRead(readRunStatus(r, d)), d)
    OBVIOUS
  <2>2. SoundRead(r, d)  BY <1>1
  <2> HIDE DEF first, later
  <2>3. r \in Reads  BY <2>2 DEF SoundRead
  <2> DEFINE a == readRunStatus(r, d)
  <2>4. /\ a \in {"unknown", "starting", "live", "failed", "finished"}
        /\ a = "finished" => d.manifest
        /\ a = "failed" => d.failure # "none"
        /\ a = "live" => d.live
        /\ a = "starting" => d.request
    BY <2>1, <2>3, AnswersAre
  <2> HIDE DEF a
  <2>5. SoundRead(NewRead(a), d)  BY <2>4, NewReadIsSound
  <2>6. QED  BY <2>5 DEF a
<1>3. q \in first \/ \E r \in later : q \in Onward(r, d)  BY DEF ReadsOn
<1> HIDE DEF first, later
<1>4. QED  BY <1>1, <1>2, <1>3, OnwardIsSound

\* What was found stays true of the files as they grow.
LEMMA SoundStays ==
  ASSUME disk \in Disks, FilesGrow, NEW r, SoundRead(r, disk)
  PROVE  SoundRead(r, disk')
<1>1. Ended(disk) => Ended(disk')  BY DEF FilesGrow, Ended
<1>2. disk.live => disk'.live \/ Ended(disk')  BY DEF FilesGrow, Ended
<1>3. Found(r, disk')  BY <1>1, <1>2 DEF SoundRead, Found, FilesGrow
<1>4. FoundAgain(r, disk')  BY <1>1, <1>2 DEF SoundRead, FoundAgain, FilesGrow
<1>5. PassedOver(r, disk')  BY <1>1 DEF SoundRead, PassedOver
<1>6. QED  BY <1>3, <1>4, <1>5 DEF SoundRead

LEMMA RankIs ==
  rank("unknown") = 0 /\ rank("starting") = 1 /\ rank("live") = 2 /\ rank("failed") = 3 /\ rank("finished") = 4
BY DEF rank

LEMMA StatusIs ==
  /\ disk.manifest => statusNow = "finished"
  /\ ~disk.manifest /\ disk.failure # "none" => statusNow = "failed"
BY DEF statusNow

LEMMA SoundIsForward ==
  ASSUME NEW r, SoundRead(r, disk), readRunStatus(r, disk) # "none"
  PROVE  \/ rank(readRunStatus(r, disk)) >= rank(r.told)
         \/ r.told = "live" /\ readRunStatus(r, disk) = "starting" /\ statusNow \in {"failed", "finished"}
<1> DEFINE a == readRunStatus(r, disk)
<1>1. r \in Reads /\ r.told \in {"unknown", "starting", "live", "failed", "finished"}  BY DEF SoundRead, Reads
<1>2. \/ a = "finished" /\ r.at = 5
      \/ a = "failed" /\ r.at = 6
      \/ a = "live" /\ r.at = 7
      \/ a = "starting" /\ r.at = 8
      \/ a = "unknown" /\ r.at = 9
  BY <1>1, AnswersAre
<1> HIDE DEF a
<1>3. CASE r.told = "finished"  BY <1>2, <1>3, RankIs DEF SoundRead, FoundAgain, PassedOver, a
<1>4. CASE r.told = "failed"  BY <1>2, <1>4, RankIs DEF SoundRead, FoundAgain, PassedOver, a
<1>5. CASE r.told = "live"
  <2>1. r.at # 9  BY <1>5 DEF SoundRead, FoundAgain, PassedOver
  <2>2. CASE r.at = 8
    <3>1. Ended(disk)  BY <1>5, <2>2 DEF SoundRead, FoundAgain, PassedOver
    <3>2. statusNow \in {"failed", "finished"}  BY <3>1, StatusIs DEF Ended
    <3>3. QED  BY <1>2, <1>5, <2>2, <3>2 DEF a
  <2>3. CASE r.at # 8  BY <1>2, <1>5, <2>1, <2>3, RankIs DEF a
  <2>4. QED  BY <2>2, <2>3
<1>6. CASE r.told = "starting"  BY <1>2, <1>6, RankIs DEF SoundRead, FoundAgain, PassedOver, a
<1>7. CASE r.told = "unknown"  BY <1>2, <1>7, RankIs DEF a
<1>8. QED  BY <1>1, <1>3, <1>4, <1>5, <1>6, <1>7 DEF a

\* Every read that may be under way is sound.
ReadsInv == \A r \in reads : SoundRead(r, disk)

LEMMA ReadsGoOn ==
  ASSUME DetachedInv, ReadsInv, [DetachedNext]_<<detachedVars, reads>>
  PROVE  ReadsInv'
<1>1. DetachedInv' /\ FilesGrow  BY DetachedNextKeeps
<1>2. disk \in Disks /\ Shown(disk')  BY <1>1 DEF DetachedInv, ChildInv, Shown
<1>3. \A r \in reads : SoundRead(r, disk')  BY <1>1, <1>2, SoundStays DEF ReadsInv
<1>4. reads' = reads \/ reads' = ReadsOn(reads, disk')  BY DEF DetachedNext
<1>5. CASE reads' = reads  BY <1>3, <1>5 DEF ReadsInv
<1>6. CASE reads' = ReadsOn(reads, disk')
  <2>1. \A q \in ReadsOn(reads, disk') : SoundRead(q, disk')  BY <1>2, <1>3, ReadsOnAreSound
  <2>2. QED  BY <1>6, <2>1 DEF ReadsInv
<1>7. QED  BY <1>4, <1>5, <1>6

LEMMA DecidedEnds == ASSUME DetachedInv PROVE EndedIsDecided
BY StatusIs DEF DetachedInv, ChildInv, EndedIsDecided, Child

-----------------------------------------------------------------------------
\* The inductive invariant, of which the properties below are consequences.
THEOREM DetachedInvariant == DetachedSpec => []DetachedInv
<1>1. DetachedInit => DetachedInv  BY DetachedInitIsIn
<1>2. DetachedInv /\ [DetachedNext]_<<detachedVars, reads>> => DetachedInv'  BY DetachedNextKeeps
<1>3. QED  BY <1>1, <1>2, PTL DEF DetachedSpec

\* A batch job that was accepted can be found again from the job-state file.
THEOREM HandleIsKept == DetachedSpec => []HandleKept
<1>1. DetachedInv => HandleKept  BY DEF DetachedInv, BatchInv, Named
<1>2. QED  BY <1>1, DetachedInvariant, PTL

\* A batch run commits, and a lane ends well, only when every item asked for was answered.
THEOREM GreenBatchIsComplete == DetachedSpec => []GreenIsComplete
<1>1. DetachedInv => GreenIsComplete  BY BatchIsComplete DEF DetachedInv
<1>2. QED  BY <1>1, DetachedInvariant, PTL

\* What the user typed while the batch job was polled is not in the batch's commit.
THEOREM UserEditsAreNotSwept == DetachedSpec => []PollDirtNotSwept
<1>1. DetachedInv => PollDirtNotSwept  BY DEF DetachedInv, BatchInv, Tree
<1>2. QED  BY <1>1, DetachedInvariant, PTL

\* One worker's run ships what the gate passed and the reviewer was shown.
THEOREM ShippedIsReviewed == DetachedSpec => []ShipIsReviewed
<1>1. DetachedInv => ShipIsReviewed  BY DEF DetachedInv, SingleInv
<1>2. QED  BY <1>1, DetachedInvariant, PTL

\* Several workers' run succeeds only on a landed merge that has the files each worker added,
\* with the gate passed on it and none of the workers known to be mid-work.
THEOREM GreenRunIsIntegrated == DetachedSpec => []GreenIsIntegrated
<1>1. DetachedInv => GreenIsIntegrated  BY DEF DetachedInv, ParallelInv
<1>2. QED  BY <1>1, DetachedInvariant, PTL

\* A worker that failed mid-work keeps every worker's commits out of the base.
THEOREM PartialIsNeverMerged == DetachedSpec => []PartialNeverMerged
<1>1. DetachedInv => PartialNeverMerged  BY DEF DetachedInv, ParallelInv
<1>2. QED  BY <1>1, DetachedInvariant, PTL

\* A child that ended in order has left its result, or its failure, for a reader.
THEOREM EndedRunIsDecided == DetachedSpec => []EndedIsDecided
<1>1. DetachedInv => EndedIsDecided  BY DecidedEnds
<1>2. QED  BY <1>1, DetachedInvariant, PTL

\* A read gives no earlier answer than one given before it began, but for the one that misses
\* the heartbeat of a run whose end is on record.
THEOREM StatusGoesForward == DetachedSpec => []StatusForward
<1>1. DetachedInit => ReadsInv
  <2>1. SUFFICES ASSUME DetachedInit  PROVE ReadsInv  OBVIOUS
  <2>2. disk = NoFiles /\ reads = ReadsOn({}, NoFiles) /\ Shown(NoFiles)
    BY <2>1 DEF DetachedInit, NoFiles, Shown, Disks
  <2>3. \A q \in ReadsOn({}, NoFiles) : SoundRead(q, NoFiles)  BY <2>2, ReadsOnAreSound
  <2>4. QED  BY <2>2, <2>3 DEF ReadsInv
<1>2. DetachedInv /\ ReadsInv /\ [DetachedNext]_<<detachedVars, reads>> => ReadsInv'  BY ReadsGoOn
<1>3. ReadsInv => StatusForward  BY SoundIsForward DEF ReadsInv, StatusForward
<1>4. QED  BY <1>1, <1>2, <1>3, DetachedInvariant, PTL DEF DetachedSpec

=============================================================================
