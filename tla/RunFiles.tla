-------------------------------- MODULE RunFiles --------------------------------
(***************************************************************************)
(* The files of one run id under <metricsDir>/<project>/, as runner.ts,      *)
(* metrics.ts and the task tool write them, and the status read from them.   *)
(***************************************************************************)

EXTENDS Naturals

VARIABLE disk

NoFiles == [request |-> FALSE,    \* <run_id>.request.json
            live |-> FALSE,       \* <run_id>.live.json, the heartbeat
            manifest |-> FALSE,   \* <run_id>.json
            failure |-> "none",   \* <run_id>.failure.json: its kind
            stray |-> FALSE]      \* a failure artifact of this run under another id

writeManifest == disk' = [disk EXCEPT !.manifest = TRUE]
writeFailureArtifact(kind) == disk' = [disk EXCEPT !.failure = kind]

-----------------------------------------------------------------------------
(* Reading the status takes several calls of another process: the files are    *)
(* asked for in their order (calls 1 to 4), then those found are parsed in the *)
(* same order (calls 5 to 8), and one that has gone meanwhile is passed over.  *)

Holds(d, k) ==
  \/ k = 1 /\ d.manifest
  \/ k = 2 /\ d.failure # "none"
  \/ k = 3 /\ d.live
  \/ k = 4 /\ d.request

\* A read: the answer given before it began, the call it is at, the files it has found.
NewRead(told) == [told |-> told, at |-> 1, found |-> {}]

\* Its calls up to the call to, of files d: what it finds, and where it may have got to.
locateRun(r, d, to) == r.found \cup {k \in 1..4 : r.at <= k /\ k < to /\ Holds(d, k)}
Parsed(r, d, k) == k \in r.found /\ Holds(d, k)
Onward(r, d) ==
  {q \in {[r EXCEPT !.at = to, !.found = locateRun(r, d, to)] : to \in r.at..9} :
     \A k \in 1..4 : r.at <= k + 4 /\ k + 4 < q.at => ~Parsed(q, d, k)}

\* The answer of a read at its call: the first file that can be parsed decides.
readRunStatus(r, d) ==
  CASE r.at = 5 /\ Parsed(r, d, 1) -> "finished"
    [] r.at = 6 /\ Parsed(r, d, 2) -> "failed"
    [] r.at = 7 /\ Parsed(r, d, 3) -> "live"
    [] r.at = 8 /\ Parsed(r, d, 4) -> "starting"
    [] r.at = 9 -> "unknown"
    [] OTHER -> "none"

\* What is told of a run, in order; at first nothing is known of it.
rank(status) ==
  CASE status = "finished" -> 4
    [] status = "failed" -> 3
    [] status = "live" -> 2
    [] status = "starting" -> 1
    [] OTHER -> 0

\* A reader writes nothing, so all the reads that may be under way are followed at once: those
\* of R go on, others begin, and others again begin once one of these has answered.  Of two that
\* differ in the answer before them only the one that was told more is kept.
ReadsOn(R, d) ==
  LET first == UNION {Onward(r, d) : r \in R \cup {NewRead("unknown")}}
      later == {NewRead(readRunStatus(r, d)) : r \in {q \in first : readRunStatus(q, d) # "none"}}
      all == first \cup UNION {Onward(r, d) : r \in later}
  IN  {r \in all : \A q \in all : q.at = r.at /\ q.found = r.found => rank(q.told) <= rank(r.told)}

\* The answer of a read during which nothing is written.
statusNow ==
  CASE disk.manifest -> "finished"
    [] ~disk.manifest /\ disk.failure # "none" -> "failed"
    [] ~disk.manifest /\ disk.failure = "none" /\ disk.live -> "live"
    [] ~disk.manifest /\ disk.failure = "none" /\ ~disk.live /\ disk.request -> "starting"
    [] OTHER -> "unknown"
=============================================================================
