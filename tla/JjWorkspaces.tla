------------------------------ MODULE JjWorkspaces ------------------------------
(***************************************************************************)
(* The workspaces of one core-v2 run and where the workers' content is      *)
(* (workspaces/jj-driver.ts, jj.ts, failure-hygiene.ts): edits on disk,      *)
(* a snapshot in the working-copy commit, commits of the workspace's own      *)
(* chain, the integration base, or the chain the post-mortem stacks.  One    *)
(* action is one call of the driver, or one workspace's turn in it; each may *)
(* fail at the places Faults names.                                          *)
(***************************************************************************)
EXTENDS FiniteSets

CONSTANTS Workers, Faults

FaultKinds == {"provision", "finalize", "combine", "materialize", "environment", "stack", "listing",
               "cleanup", "publish", "delivery"}

ASSUME FaultAssumption == Faults \subseteq FaultKinds

VARIABLES ws,        \* per worker: is the workspace known to jj, and what it holds
          base,      \* the workers whose content the integration base holds
          stack,     \* those whose chain was stacked on it after a failure
          bookmarks, \* those whose tip has a bookmark
          pm         \* the post-mortem's progress: workspaces seen, workspaces to forget

jj == <<ws, base, stack, bookmarks, pm>>

\* `at` is the working-copy commit: empty, an undescribed snapshot, or described content.
Workspace == [live : BOOLEAN, edits : BOOLEAN, at : {"stub", "snapshot", "described"}, commits : BOOLEAN]

NoWorkspace == [live |-> FALSE, edits |-> FALSE, at |-> "stub", commits |-> FALSE]

JjTypeOK ==
  /\ ws \in [Workers -> Workspace]
  /\ base \subseteq Workers /\ stack \subseteq Workers /\ bookmarks \subseteq Workers
  /\ pm \in [seen : SUBSET Workers, forget : SUBSET Workers]

JjInit ==
  /\ ws = [w \in Workers |-> NoWorkspace]
  /\ base = {} /\ stack = {} /\ bookmarks = {}
  /\ pm = [seen |-> {}, forget |-> {}]

\* Content jj has recorded of a workspace and holds nowhere else.
Recorded(x) == x.commits \/ x.at # "stub"

CreateWorkspaces(made) ==
  /\ ws' = [w \in Workers |-> IF w \in made THEN [NoWorkspace EXCEPT !.live = TRUE] ELSE ws[w]]
  /\ UNCHANGED <<base, stack, bookmarks, pm>>

-----------------------------------------------------------------------------
(* The worker and the finalization of what it leaves.                       *)

Snapshotted(x) == [x EXCEPT !.edits = FALSE, !.at = IF x.edits /\ @ = "stub" THEN "snapshot" ELSE @]
Described(x) == [x EXCEPT !.at = IF @ = "snapshot" THEN "described" ELSE @]
Committed(x) == [x EXCEPT !.edits = FALSE, !.at = "stub", !.commits = @ \/ x.edits \/ x.at # "stub"]

\* The agent edits, has jj snapshot its edits, describes them, or commits (external).
AgentWorks(w) ==
  /\ \E x \in {[ws[w] EXCEPT !.edits = TRUE], Snapshotted(ws[w]), Described(Snapshotted(ws[w])), Committed(ws[w])} :
       x # ws[w] /\ ws' = [ws EXCEPT ![w] = x]
  /\ UNCHANGED <<base, stack, bookmarks, pm>>

\* finalizeWorkspace: snapshot, commit what is pending, read the tip.
FinalizeWorkspace(w) ==
  /\ ws' = [ws EXCEPT ![w] = Committed(@)]
  /\ UNCHANGED <<base, stack, bookmarks, pm>>

\* It fails before the snapshot, before the squash that describes, before the commit, or after it.
FinalizeFails(w) ==
  /\ "finalize" \in Faults
  /\ \E x \in {ws[w], Snapshotted(ws[w]), Described(Snapshotted(ws[w])), Committed(ws[w])} : ws' = [ws EXCEPT ![w] = x]
  /\ UNCHANGED <<base, stack, bookmarks, pm>>

-----------------------------------------------------------------------------
(* Integration.                                                             *)

\* mergeWorkspacesAtomic: one squash takes the chains of all given workspaces.
Squash(given) ==
  /\ base' = base \cup {w \in given : Recorded(ws[w])}
  /\ ws' = [w \in Workers |-> IF w \in given THEN [ws[w] EXCEPT !.at = "stub", !.commits = FALSE] ELSE ws[w]]
  /\ UNCHANGED <<stack, bookmarks, pm>>

\* cleanupWorkspace: jj forgets the workspace, its directory is deleted.
CleanupWorkspace(w) ==
  /\ ws' = [ws EXCEPT ![w].live = FALSE]
  /\ UNCHANGED <<base, stack, bookmarks, pm>>

\* publishBookmarks: a bookmark at the parent of a workspace's working-copy commit.
PublishBookmark(w) ==
  /\ bookmarks' = bookmarks \cup {w}
  /\ UNCHANGED <<ws, base, stack, pm>>

-----------------------------------------------------------------------------
(* The post-mortem of a failed run, workspace by workspace.                 *)

Detached(x) == [x EXCEPT !.commits = FALSE, !.at = "stub", !.edits = @ /\ x.at = "stub"]

\* The workspace's chain is rebased onto the stack's tip; a working-copy commit with content
\* is detached by `jj new`, which snapshots what is on disk first.
Stacks(w) ==
  /\ Recorded(ws[w])
  /\ stack' = stack \cup {w}
  /\ ws' = [ws EXCEPT ![w] = Detached(@)]
  /\ pm' = [seen |-> pm.seen \cup {w}, forget |-> pm.forget \cup {w}]

\* Mutant: a workspace whose content could not be detached is forgotten too.
DetachFailsForgotten(w) ==
  /\ "stack" \in Faults /\ Recorded(ws[w])
  /\ \/ stack' = stack
     \/ stack' = stack \cup {w}
  /\ ws' = [ws EXCEPT ![w] = Described(@)]
  /\ pm' = [seen |-> pm.seen \cup {w}, forget |-> pm.forget \cup {w}]

\* The rebase fails, or the detaching after it: the workspace stays live.
StackFails(w) ==
  /\ "stack" \in Faults /\ Recorded(ws[w])
  /\ \/ /\ ws' = [ws EXCEPT ![w] = Described(@)]
        /\ stack' = stack
     \/ /\ ws[w].at # "stub"
        /\ ws' = [ws EXCEPT ![w] = [Described(@) EXCEPT !.commits = FALSE]]
        /\ stack' = stack \cup {w}
  /\ pm' = [pm EXCEPT !.seen = @ \cup {w}]

\* Nothing to stack, or so the listing of the chain says when it fails.
NothingToStack(w) ==
  /\ Recorded(ws[w]) => "listing" \in Faults
  /\ ws' = [ws EXCEPT ![w] = Described(@)]
  /\ pm' = [seen |-> pm.seen \cup {w}, forget |-> pm.forget \cup {w}]
  /\ UNCHANGED stack

RecoverWorkspace(w) ==
  /\ w \notin pm.seen
  /\ Stacks(w) \/ StackFails(w) \/ NothingToStack(w)
  /\ UNCHANGED <<base, bookmarks>>

\* The workspace list cannot be read: nothing is recovered, nothing forgotten.
RecoverNothing(given) ==
  /\ "stack" \in Faults /\ pm.seen = {}
  /\ pm' = [pm EXCEPT !.seen = given]
  /\ UNCHANGED <<ws, base, stack, bookmarks>>

\* `jj workspace forget` for each; a failure leaves that workspace.
ForgetWorkspaces ==
  /\ \E gone \in SUBSET pm.forget :
       /\ gone # pm.forget => "stack" \in Faults
       /\ ws' = [w \in Workers |-> IF w \in gone THEN [ws[w] EXCEPT !.live = FALSE] ELSE ws[w]]
  /\ UNCHANGED <<base, stack, bookmarks, pm>>

=============================================================================
