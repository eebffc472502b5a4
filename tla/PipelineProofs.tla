----------------------------- MODULE PipelineProofs -----------------------------
(***************************************************************************)
(* Theorems about the two systems of agents that talk to each other: about *)
(* Pipeline, for any limits, any number of runs and any answers, and then  *)
(* about Debate, for any participants, roles, rounds, debates and chats.   *)
(*                                                                         *)
(* Pipeline: a run's feature is on no main branch before the run's merge   *)
(* step, and the steps before it establish in their order what the         *)
(* properties ask for: the gate, the release manager, the commit and the   *)
(* push.  Nothing of it is taken back before the next run begins.          *)
(*                                                                         *)
(* Debate: while one debate has the page to itself, what is on its way to  *)
(* the page goes on where the transcript ends, and ends where the worker   *)
(* is (GoesOn); a step that takes the page from it disturbs it.            *)
(***************************************************************************)
EXTENDS Pipeline, Debate, FiniteSetTheorems, SequenceTheorems, WellFoundedInduction, TLAPS

BeforeGate == {"start_agents", "implement", "gate", "fix"}
Cleared == {"review", "document", "release", "commit", "open_pr", "merge",
            "watch", "recover", "escalate"}
BeforeMerge == BeforeGate \cup {"review", "document", "release", "commit", "open_pr", "merge"}
AfterMerge == {"watch", "recover", "escalate"}
Delivered == {"no changes", "opened PR", "auto-merged", "ESCALATED"}

\* GitHub as a record with a state for each head; what is watched is one of them.
GitHubOK ==
  /\ github = [branch |-> github.branch, main |-> github.main, ci |-> github.ci]
  /\ github.ci = [h \in DOMAIN github.ci |-> github.ci[h]]
  /\ repo.origin \in DOMAIN github.ci

\* The loops count: another round begins below its limit only.
LoopsOK ==
  /\ At("fix") => job.fixes < MAX_FIX_ITERS
  /\ At("recover") => job.attempts < max_ci_fix

\* The worktree is the run's until its end.
TreeOK == ~At("idle") /\ ~At("file") => job.run > 0 /\ tree.run = job.run

OnMain(r) == Feature(r) \in repo.main \cup github.main

\* Features of runs to come are nowhere, this run's is not before its merge.
MainOK ==
  /\ \A r \in Nat : r > job.run => ~OnMain(r)
  /\ job.pc \in BeforeMerge => ~OnMain(job.run)

\* Past the gate it was green; at the merge the release has been granted.
GateOK ==
  /\ job.pc \in Cleared => job.gate_green
  /\ job.pc \in BeforeGate => ~job.gate_green
  /\ At("merge") => auto_release /\ release_ok

Refused(what) == job.refused \cap what # {}

\* Past the commit the branch is on GitHub, and here while it is needed, unless git
\* refused.
BranchOK ==
  /\ job.pc \in {"open_pr", "merge"} \cup AfterMerge \/ job.finalized \in Delivered =>
       github.branch = job.run \/ Refused({"commit", "branch"})
  /\ At("merge") => repo.branch = job.run \/ Refused({"commit"})
  /\ ~At("close") /\ ~At("file") /\ ~At("idle") => job.finalized = "None"

\* Past the merge the feature is on every main, unless git refused.
MergeOK ==
  job.pc \in AfterMerge \/ job.finalized = "auto-merged" =>
    \/ Feature(job.run) \in repo.main \cap repo.origin \cap github.main
    \/ Refused({"commit", "merge", "main"})

Control == LoopsOK /\ TreeOK /\ MainOK /\ GateOK /\ BranchOK /\ MergeOK
Promises == ReleasedOnlyIfCleared /\ GreenWorkSurvives /\ MergedUnlessRefused

IInv == TypeOK /\ GitHubOK /\ Control /\ Promises

LEMMA CommitsDiffer ==
  /\ \A r, q, i : Feature(r) # Fix(q, i) /\ Feature(r) # Other
  /\ \A r, q : Feature(r) = Feature(q) => r = q
BY DEF Feature, Fix, Other

\* The types of the job's fields, one by one.
LEMMA JobFields ==
  ASSUME IInv
  PROVE  /\ job \in Job /\ job.pc \in {"idle"} \cup Steps
         /\ job.run \in Nat /\ job.run \in 0 .. MaxRuns
         /\ job.fixes \in Nat /\ job.fixes \in 0 .. MAX_FIX_ITERS
         /\ job.attempts \in Nat /\ job.attempts \in 0 .. max_ci_fix
         /\ job.gate_green \in BOOLEAN /\ job.finalized \in Outcomes /\ job.refused \in SUBSET Refusals
         /\ 0 \in 0 .. MAX_FIX_ITERS /\ 0 \in 0 .. max_ci_fix
<1>1. job \in Job
  BY DEF IInv, TypeOK
<1> QED
  BY <1>1, LimitsAssumption DEF Job

LEMMA InitIInv == Init => IInv
<1> SUFFICES ASSUME Init PROVE IInv
  OBVIOUS
<1>1. PICK s \in {"success", "failure"} : github = [branch |-> 0, main |-> {}, ci |-> [h \in {{}} |-> s]]
  BY DEF Init
<1>2. /\ github.branch = 0 /\ github.main = {} /\ DOMAIN github.ci = {{}} /\ github.ci[{}] = s
      /\ github.ci = [h \in DOMAIN github.ci |-> github.ci[h]]
  BY <1>1
<1>3. /\ job = [pc |-> "idle", run |-> 0, fixes |-> 0, attempts |-> 0, gate_green |-> FALSE,
                finalized |-> "None", refused |-> {}]
      /\ repo = [branch |-> 0, main |-> {}, origin |-> {}, changes |-> "none"]
  BY DEF Init, NewJob
<1>4. TypeOK
  <2>1. job \in Job
    BY <1>3, LimitsAssumption DEF Job, Outcomes
  <2>2. said \in [{"code", "sec", "rel"} -> SUBSET Needles]
    BY DEF Init, Silence
  <2>3. /\ tree \in [run : 0 .. MaxRuns, changes : Changes]
        /\ repo \in [branch : 0 .. MaxRuns, main : SUBSET Commits, origin : SUBSET Commits, changes : Changes]
    BY <1>3, LimitsAssumption DEF Init, NoTree, Changes
  <2>4. /\ github.branch \in 0 .. MaxRuns /\ github.main \in DOMAIN github.ci
        /\ \A h \in DOMAIN github.ci : h \subseteq Commits /\ github.ci[h] \in {"running", "success", "failure"}
    BY <1>2, LimitsAssumption
  <2> QED
    BY <2>1, <2>2, <2>3, <2>4 DEF Init, TypeOK
<1>5. GitHubOK
  BY <1>1, <1>2, <1>3 DEF GitHubOK
<1>6. Control
  BY <1>2, <1>3 DEF Control, LoopsOK, TreeOK, MainOK, OnMain, GateOK, BranchOK, MergeOK, At,
    BeforeGate, Cleared, BeforeMerge, AfterMerge, Delivered
<1>7. Promises
  BY <1>2, <1>3 DEF Promises, ReleasedOnlyIfCleared, GreenWorkSurvives, MergedUnlessRefused
<1> QED
  BY <1>4, <1>5, <1>6, <1>7 DEF IInv

------------------------------------------------------------------------------
(* Steps that leave repositories, answers and findings alone *)

\* What the properties speak of stays; only where the pipeline is changes, and what is
\* in the worktree is not lost.
LEMMA QuietKeeps ==
  ASSUME IInv, Control', UNCHANGED <<auto_release, said, repo, github>>,
         spec' \in {"inbox", "done"}, job' \in Job, writer' \in {"none", "worktree", "repo"},
         tree' \in [run : 0 .. MaxRuns, changes : Changes],
         job'.run = job.run, job'.gate_green = job.gate_green, job'.refused = job.refused,
         tree'.run = tree.run, tree.changes # "none" => tree'.changes # "none",
         job'.finalized = "auto-merged" => MergedUnlessRefused'
  PROVE  IInv'
<1>1. TypeOK'
  BY DEF IInv, TypeOK
<1>2. GitHubOK'
  BY DEF IInv, GitHubOK
<1>3. ReleasedOnlyIfCleared' /\ GreenWorkSurvives'
  BY DEF IInv, Promises, ReleasedOnlyIfCleared, GreenWorkSurvives
<1>4. MergedUnlessRefused'
  BY DEF MergedUnlessRefused
<1> QED
  BY <1>1, <1>2, <1>3, <1>4 DEF IInv, Promises

\* Another step of the code on the same side of the gate, the commit and the merge.
LEMMA MovesKeep ==
  ASSUME IInv, NEW from \in Steps, NEW to \in Steps, At(from),
         job'.fixes = job.fixes \/ (job'.fixes = job.fixes + 1 /\ from = "fix"), to # "fix", to # "recover",
         UNCHANGED <<auto_release, spec, said, tree, repo, github>>,
         writer' \in {"none", writer, "worktree"},
         job' = [job EXCEPT !.pc = to, !.fixes = job'.fixes],
         \/ from \in BeforeGate /\ to \in BeforeGate
         \/ from \in {"review", "document", "release"} /\ to \in {"document", "release", "commit"}
  PROVE  IInv'
<1>0. job'.fixes \in 0 .. MAX_FIX_ITERS
  BY LimitsAssumption DEF IInv, TypeOK, Control, LoopsOK, At, Job
<1>1. job' \in Job
  BY <1>0 DEF IInv, TypeOK, Job
<1>2. Control'
  BY DEF IInv, TypeOK, Job, Control, LoopsOK, TreeOK, MainOK, OnMain, GateOK, BranchOK, MergeOK,
    Refused, At, BeforeGate, Cleared, BeforeMerge, AfterMerge, Steps
<1>3. /\ job'.run = job.run /\ job'.gate_green = job.gate_green /\ job'.refused = job.refused
      /\ job'.finalized = job.finalized
  BY DEF IInv, TypeOK, Job
<1>4. MergedUnlessRefused'
  BY <1>3 DEF IInv, Promises, MergedUnlessRefused
<1>5. /\ spec' \in {"inbox", "done"} /\ writer' \in {"none", "worktree", "repo"}
      /\ tree' \in [run : 0 .. MaxRuns, changes : Changes] /\ tree' = tree
  BY DEF IInv, TypeOK
<1> QED
  BY <1>1, <1>2, <1>3, <1>4, <1>5, QuietKeeps

LEMMA EarlyStepsKeep == IInv /\ (start_agents \/ implement \/ fix \/ document) => IInv'
<1> SUFFICES ASSUME IInv, start_agents \/ implement \/ fix \/ document PROVE IInv'
  OBVIOUS
<1>1. CASE start_agents
  <2>1. job' = [job EXCEPT !.pc = "implement", !.fixes = job'.fixes] /\ job'.fixes = job.fixes
    BY <1>1 DEF start_agents, Goto, IInv, TypeOK, Job
  <2> QED
    BY <1>1, <2>1, MovesKeep DEF start_agents, At, Steps, BeforeGate
<1>2. CASE implement
  <2>1. job' = [job EXCEPT !.pc = "gate", !.fixes = job'.fixes] /\ job'.fixes = job.fixes
    BY <1>2 DEF implement, Goto, IInv, TypeOK, Job
  <2> QED
    BY <1>2, <2>1, MovesKeep DEF implement, answered_or_late, At, Steps, BeforeGate
<1>3. CASE fix
  <2>1. job' = [job EXCEPT !.pc = "gate", !.fixes = job'.fixes] /\ job'.fixes = job.fixes + 1
    BY <1>3 DEF fix, IInv, TypeOK, Job
  <2> QED
    BY <1>3, <2>1, MovesKeep DEF fix, answered_or_late, At, Steps, BeforeGate
<1>4. CASE document
  <2>1. job' = [job EXCEPT !.pc = "release", !.fixes = job'.fixes] /\ job'.fixes = job.fixes
    BY <1>4 DEF document, Goto, IInv, TypeOK, Job
  <2> QED
    BY <1>4, <2>1, MovesKeep DEF document, answered_or_late, At, Steps, BeforeGate
<1> QED
  BY <1>1, <1>2, <1>3, <1>4

\* Answers come before anything is on main: whatever is said, nothing was released.
LEMMA AnswersKeep == IInv /\ (review \/ release) => IInv'
<1> SUFFICES ASSUME IInv, review \/ release PROVE IInv'
  OBVIOUS
<1>1. /\ said' \in [{"code", "sec", "rel"} -> SUBSET Needles]
      /\ UNCHANGED <<auto_release, spec, writer, tree, repo, github>>
  <2>1. CASE review
    BY <2>1, AnswersAssumption DEF review, IInv, TypeOK
  <2>2. CASE release
    BY <2>2, AnswersAssumption DEF release, IInv, TypeOK
  <2> QED
    BY <2>1, <2>2
<1>2. /\ job.pc \in {"review", "release"} /\ job'.pc \in {"document", "commit"} /\ job' \in Job
      /\ job' = [job EXCEPT !.pc = job'.pc]
  BY DEF review, release, At, Goto, IInv, TypeOK, Job, Steps
<1>3. TypeOK'
  BY <1>1, <1>2 DEF IInv, TypeOK
<1>4. GitHubOK'
  BY <1>1 DEF IInv, GitHubOK
<1>5. Control'
  BY <1>1, <1>2 DEF IInv, TypeOK, Job, Control, LoopsOK, TreeOK, MainOK, OnMain, GateOK, BranchOK, MergeOK,
    Refused, At, BeforeGate, Cleared, BeforeMerge, AfterMerge
<1>6. ~OnMain(job.run)' /\ job'.run = job.run
  BY <1>1, <1>2 DEF IInv, TypeOK, Job, Control, MainOK, OnMain, BeforeMerge
<1>7. Promises'
  BY <1>1, <1>2, <1>6 DEF IInv, TypeOK, Job, OnMain, Promises, ReleasedOnlyIfCleared, GreenWorkSurvives, MergedUnlessRefused
<1> QED
  BY <1>3, <1>4, <1>5, <1>7 DEF IInv

\* A green gate has seen edits of the run's own worktree.
LEMMA GateKeeps == IInv /\ run_gate => IInv'
<1> SUFFICES ASSUME IInv, run_gate PROVE IInv'
  OBVIOUS
<1>1. UNCHANGED <<auto_release, spec, said, writer, tree, repo, github>> /\ At("gate")
  BY DEF run_gate
<1>2. \/ /\ tree.changes = "edited"
         /\ job' = [job EXCEPT !.pc = "review", !.gate_green = TRUE, !.fixes = 0]
      \/ /\ job.fixes < MAX_FIX_ITERS
         /\ job' = [job EXCEPT !.pc = "fix"]
      \/ job' = [job EXCEPT !.pc = "close", !.finalized = "aborted", !.fixes = 0]
  BY DEF run_gate, may_pass
<1>3. job' \in Job /\ job'.run = job.run /\ job'.refused = job.refused
  <2>1. "review" \in Steps /\ "fix" \in Steps /\ "close" \in Steps /\ "aborted" \in Outcomes
    BY DEF Steps, Outcomes
  <2>2. job'.pc \in Steps /\ job'.finalized \in Outcomes
    BY <1>2, <2>1 DEF IInv, TypeOK, Job
  <2>4. job'.fixes \in 0 .. MAX_FIX_ITERS
    BY <1>2, JobFields DEF Job
  <2>3. job' = [job EXCEPT !.pc = job'.pc, !.finalized = job'.finalized, !.fixes = job'.fixes,
                           !.gate_green = job'.gate_green] /\ job'.gate_green \in BOOLEAN
    BY <1>2 DEF IInv, TypeOK, Job
  <2> QED
    BY <2>2, <2>3, <2>4 DEF IInv, TypeOK, Job
<1>4. ~job.gate_green /\ job.run > 0 /\ tree.run = job.run /\ job.finalized = "None" /\ ~OnMain(job.run)
  BY <1>1 DEF IInv, Control, TreeOK, GateOK, BranchOK, MainOK, At, BeforeGate, BeforeMerge
<1>5. TypeOK' /\ GitHubOK'
  BY <1>1, <1>3 DEF IInv, TypeOK, GitHubOK
<1>6. Control'
  <2>1. \/ job'.pc = "review" /\ job'.gate_green /\ job'.finalized = "None"
        \/ job'.pc = "fix" /\ ~job'.gate_green /\ job'.finalized = "None" /\ job'.fixes < MAX_FIX_ITERS
        \/ job'.pc = "close" /\ job'.finalized = "aborted"
    BY <1>2, <1>4 DEF IInv, TypeOK, Job
  <2>2. \A r \in Nat : (r > job.run => ~OnMain(r))'
    BY <1>1, <1>3 DEF IInv, Control, MainOK, OnMain
  <2> QED
    BY <1>1, <1>3, <1>4, <2>1, <2>2 DEF Control, LoopsOK, TreeOK, MainOK, OnMain, GateOK, BranchOK,
      MergeOK, Refused, At, BeforeGate, Cleared, BeforeMerge, AfterMerge, Delivered
<1>7. Promises'
  BY <1>1, <1>2, <1>3, <1>4 DEF IInv, TypeOK, Job, OnMain, Promises, ReleasedOnlyIfCleared, GreenWorkSurvives,
    MergedUnlessRefused
<1> QED
  BY <1>5, <1>6, <1>7 DEF IInv

\* Steps to the end of a run: a report, an exception, a kill, and the spec filed.
LEMMA EndingsKeep ==
  ASSUME IInv, At("idle") => job' = job,
         UNCHANGED <<auto_release, said, tree, repo, github>>, spec' \in {"inbox", "done"},
         writer' \in {"none", "worktree", "repo"},
         job' = [job EXCEPT !.pc = job'.pc, !.fixes = job'.fixes, !.attempts = job'.attempts,
                            !.finalized = job'.finalized],
         job'.pc \in {"close", "idle"}, job'.fixes \in {0, job.fixes}, job'.attempts \in {0, job.attempts},
         \/ job'.finalized \in {"None", job.finalized}
         \/ job'.finalized \in {"opened PR", "ESCALATED"} /\ job.pc \in {"open_pr"} \cup AfterMerge
         \/ job'.finalized = "auto-merged" /\ job.pc \in AfterMerge /\ MergedUnlessRefused',
         job'.pc = "close" => ~At("file")
  PROVE  IInv'
<1>1. job' \in Job /\ job'.run = job.run /\ job'.gate_green = job.gate_green /\ job'.refused = job.refused
  <2>1. job'.pc \in {"idle"} \cup Steps /\ job'.finalized \in Outcomes
    BY JobFields DEF Steps, Outcomes
  <2>2. job'.fixes \in 0 .. MAX_FIX_ITERS /\ job'.attempts \in 0 .. max_ci_fix
    BY JobFields
  <2> QED
    BY <2>1, <2>2, JobFields DEF Job
<1>2. Control'
  <2>1. LoopsOK' /\ TreeOK'
    BY <1>1 DEF IInv, Control, LoopsOK, TreeOK, At
  <2>5. MainOK'
    <3>1. \A r : OnMain(r)' <=> OnMain(r)
      BY DEF OnMain
    <3>2. job'.pc \notin BeforeMerge
      BY DEF BeforeMerge, BeforeGate
    <3>3. \A r \in Nat : (r > job.run => ~OnMain(r))'
      BY <1>1, <3>1 DEF IInv, Control, MainOK
    <3> QED
      BY <3>2, <3>3 DEF MainOK
  <2>2. GateOK'
    BY DEF GateOK, At, BeforeGate, Cleared
  <2>3. BranchOK'
    BY <1>1 DEF IInv, Control, BranchOK, Refused, At, AfterMerge, Delivered
  <2>4. MergeOK'
    BY <1>1 DEF IInv, Control, MergeOK, Refused, AfterMerge
  <2> QED
    BY <2>1, <2>2, <2>3, <2>4, <2>5 DEF Control
<1>3. job'.finalized = "auto-merged" => MergedUnlessRefused'
  BY <1>1 DEF IInv, Promises, MergedUnlessRefused
<1>4. tree' \in [run : 0 .. MaxRuns, changes : Changes] /\ tree' = tree
  BY DEF IInv, TypeOK
<1> QED
  BY <1>1, <1>2, <1>3, <1>4, QuietKeeps

LEMMA ReportsKeep == IInv /\ (open_pr \/ escalate \/ file_spec \/ raises \/ kill) => IInv'
<1> SUFFICES ASSUME IInv, open_pr \/ escalate \/ file_spec \/ raises \/ kill PROVE IInv'
  OBVIOUS
<1>1. /\ ~At("idle") /\ UNCHANGED <<auto_release, said, tree, repo, github>>
      /\ spec' \in {"inbox", "done"} /\ writer' \in {"none", "worktree", "repo"}
  BY DEF open_pr, escalate, file_spec, raises, kill, Steps, At, IInv, TypeOK
<1>2. CASE open_pr
  <2>1. /\ job' = [job EXCEPT !.pc = job'.pc, !.fixes = job'.fixes, !.attempts = job'.attempts,
                              !.finalized = job'.finalized]
        /\ At("open_pr") /\ job'.pc = "close" /\ job'.fixes = job.fixes /\ job'.attempts = 0
        /\ job'.finalized = "opened PR"
    BY <1>2, JobFields DEF open_pr, Finalize, Job
  <2> QED
    BY <1>1, <2>1, EndingsKeep DEF At
<1>3. CASE escalate
  <2>1. /\ job' = [job EXCEPT !.pc = job'.pc, !.fixes = job'.fixes, !.attempts = job'.attempts,
                              !.finalized = job'.finalized]
        /\ At("escalate") /\ job'.pc = "close" /\ job'.fixes = job.fixes /\ job'.attempts = 0
        /\ job'.finalized = "ESCALATED"
    BY <1>3, JobFields DEF escalate, Finalize, Job
  <2> QED
    BY <1>1, <2>1, EndingsKeep DEF At, AfterMerge
<1>4. CASE file_spec
  <2>1. /\ job' = [job EXCEPT !.pc = job'.pc, !.fixes = job'.fixes, !.attempts = job'.attempts,
                              !.finalized = job'.finalized]
        /\ job'.pc = "idle" /\ job'.fixes = job.fixes /\ job'.attempts = job.attempts
        /\ job'.finalized = job.finalized
    BY <1>4, JobFields DEF file_spec, Goto, Job
  <2> QED
    BY <1>1, <2>1, EndingsKeep
<1>5. CASE raises
  <2>1. /\ job' = [job EXCEPT !.pc = job'.pc, !.fixes = job'.fixes, !.attempts = job'.attempts,
                              !.finalized = job'.finalized]
        /\ ~At("file") /\ job'.pc = "close" /\ job'.fixes = 0 /\ job'.attempts = 0
        /\ job'.finalized = job.finalized
    BY <1>5, JobFields DEF raises, At, Job
  <2> QED
    BY <1>1, <2>1, EndingsKeep
<1>6. CASE kill
  <2>1. /\ job' = [job EXCEPT !.pc = job'.pc, !.fixes = job'.fixes, !.attempts = job'.attempts,
                              !.finalized = job'.finalized]
        /\ job'.pc = "idle" /\ job'.fixes = 0 /\ job'.attempts = 0 /\ job'.finalized = "None"
    BY <1>6, JobFields DEF kill, Job
  <2> QED
    BY <1>1, <2>1, EndingsKeep
<1> QED
  BY <1>2, <1>3, <1>4, <1>5, <1>6

\* A green answer is about the head the tracking branch shows; what else the watch
\* ends in changes nothing.
LEMMA WatchKeeps == IInv /\ _ci_green_for => IInv'
<1> SUFFICES ASSUME IInv, _ci_green_for PROVE IInv'
  OBVIOUS
<1>1. UNCHANGED <<auto_release, spec, said, writer, tree, repo, github>> /\ At("watch")
  BY DEF _ci_green_for
<1>2. /\ spec' \in {"inbox", "done"} /\ writer' \in {"none", "worktree", "repo"}
      /\ tree' \in [run : 0 .. MaxRuns, changes : Changes] /\ tree' = tree
  BY <1>1 DEF IInv, TypeOK
<1>3. CASE "success" \in watched /\ Finalize("auto-merged")
  <2>1. /\ job' = [job EXCEPT !.pc = job'.pc, !.fixes = job'.fixes, !.attempts = job'.attempts,
                              !.finalized = job'.finalized]
        /\ job'.pc = "close" /\ job'.fixes = job.fixes /\ job'.attempts = 0
        /\ job'.finalized = "auto-merged" /\ job'.run = job.run /\ job'.refused = job.refused
    BY <1>3, JobFields DEF Finalize, Job
  <2>2. repo.origin \in DOMAIN github.ci /\ github.ci[repo.origin] = "success"
    BY <1>3 DEF watched, IInv, GitHubOK
  <2>3. \/ Feature(job.run) \in repo.main \cap repo.origin \cap github.main
        \/ job.refused \cap {"commit", "merge", "main"} # {}
    BY <1>1 DEF IInv, Control, MergeOK, Refused, AfterMerge, At
  <2>4. MergedUnlessRefused'
    BY <1>1, <2>1, <2>2, <2>3 DEF MergedUnlessRefused
  <2> QED
    BY <1>1, <1>2, <2>1, <2>4, EndingsKeep DEF At, AfterMerge
<1>4. CASE Goto(IF job.attempts < max_ci_fix THEN "recover" ELSE "escalate")
  <2>1. /\ job' = [job EXCEPT !.pc = job'.pc] /\ job'.pc \in {"recover", "escalate"} /\ job' \in Job
        /\ job'.pc = "recover" => job'.attempts < max_ci_fix
        /\ job'.run = job.run /\ job'.gate_green = job.gate_green /\ job'.refused = job.refused
        /\ job'.finalized = job.finalized
    BY <1>4, JobFields DEF Goto, Job, Steps
  <2>2. Control'
    <3>1. LoopsOK' /\ TreeOK' /\ GateOK'
      BY <1>1, <2>1 DEF IInv, Control, LoopsOK, TreeOK, GateOK, At, Cleared, BeforeGate
    <3>2. MainOK'
      BY <1>1, <2>1 DEF IInv, Control, MainOK, OnMain, BeforeMerge, BeforeGate
    <3>3. BranchOK' /\ MergeOK'
      BY <1>1, <2>1 DEF IInv, Control, BranchOK, MergeOK, Refused, At, AfterMerge
    <3> QED
      BY <3>1, <3>2, <3>3 DEF Control
  <2>3. MergedUnlessRefused'
    BY <1>1, <2>1 DEF IInv, Promises, MergedUnlessRefused
  <2> QED
    BY <1>1, <1>2, <2>1, <2>2, <2>3, QuietKeeps
<1> QED
  BY <1>3, <1>4 DEF _ci_green_for

LEMMA AgentsKeep == IInv /\ (agent_writes \/ agent_ends \/ poll) => IInv'
<1> SUFFICES ASSUME IInv, agent_writes \/ agent_ends \/ poll PROVE IInv'
  OBVIOUS
<1>1. CASE UNCHANGED <<auto_release, spec, job, said, repo, github>>
  <2>1. /\ writer' \in {"none", "worktree", "repo"}
        /\ tree' \in [run : 0 .. MaxRuns, changes : Changes]
        /\ tree'.run = tree.run /\ (tree.changes # "none" => tree'.changes # "none")
    BY <1>1 DEF agent_writes, agent_ends, poll, vars, IInv, TypeOK, Changes
  <2>2. Control'
    BY <1>1, <2>1 DEF IInv, Control, LoopsOK, TreeOK, MainOK, OnMain, GateOK, release_ok, BranchOK, MergeOK,
      Refused, At
  <2>3. MergedUnlessRefused' /\ spec' \in {"inbox", "done"} /\ job' \in Job
    BY <1>1 DEF IInv, TypeOK, Promises, MergedUnlessRefused
  <2> QED
    BY <1>1, <2>1, <2>2, <2>3, QuietKeeps
<1>2. CASE /\ \E c \in {"untracked", "edited"} : repo' = [repo EXCEPT !.changes = c]
           /\ UNCHANGED <<auto_release, spec, job, said, writer, tree, github>>
  <2>1. /\ repo' \in [branch : 0 .. MaxRuns, main : SUBSET Commits, origin : SUBSET Commits, changes : Changes]
        /\ repo'.branch = repo.branch /\ repo'.main = repo.main /\ repo'.origin = repo.origin
    BY <1>2 DEF IInv, TypeOK, Changes
  <2>2. TypeOK'
    BY <1>2, <2>1 DEF IInv, TypeOK
  <2>3. GitHubOK'
    BY <1>2, <2>1 DEF IInv, GitHubOK
  <2>4. Control'
    BY <1>2, <2>1 DEF IInv, Control, LoopsOK, TreeOK, MainOK, OnMain, GateOK, release_ok, BranchOK, MergeOK,
      Refused, At
  <2>5. Promises'
    BY <1>2, <2>1 DEF IInv, Promises, ReleasedOnlyIfCleared, GreenWorkSurvives, MergedUnlessRefused
  <2> QED
    BY <2>2, <2>3, <2>4, <2>5 DEF IInv
<1> QED
  BY <1>1, <1>2 DEF agent_writes, agent_ends, poll, vars

------------------------------------------------------------------------------
(* The beginning and the end of a run *)

\* A new run: nothing of it is anywhere yet.
LEMMA StartKeeps == IInv /\ start => IInv'
<1> SUFFICES ASSUME IInv, start PROVE IInv'
  OBVIOUS
<1>1. /\ UNCHANGED <<auto_release, spec, writer, github>> /\ said' = Silence
      /\ At("idle") /\ job.run < MaxRuns
  BY DEF start
<1>2. PICK p \in {"start_agents", "idle"} :
        /\ job' = [pc |-> p, run |-> job.run + 1, fixes |-> 0, attempts |-> 0,
                   gate_green |-> FALSE, finalized |-> "None", refused |-> {}]
        /\ p = "start_agents" => tree'.run = job.run + 1
  BY DEF start, NewJob
<1>3. job' \in Job /\ job'.run = job.run + 1 /\ job'.run > 0 /\ job'.run > job.run
  <2>1. job.run + 1 \in 0 .. MaxRuns /\ job.run + 1 > 0 /\ job.run + 1 > job.run
    BY <1>1, JobFields, LimitsAssumption
  <2>2. job'.pc \in {"idle"} \cup Steps /\ "None" \in Outcomes
    BY <1>2 DEF Steps, Outcomes
  <2> QED
    BY <1>2, <2>1, <2>2, JobFields DEF Job
<1>4. tree' \in [run : 0 .. MaxRuns, changes : Changes]
  BY <1>1, JobFields, LimitsAssumption DEF start, IInv, TypeOK, NoTree, Changes
<1>5. /\ repo' \in [branch : 0 .. MaxRuns, main : SUBSET Commits, origin : SUBSET Commits, changes : Changes]
      /\ repo'.main = repo.main /\ repo'.origin = repo.origin
  BY LimitsAssumption DEF start, IInv, TypeOK
<1>6. said' \in [{"code", "sec", "rel"} -> SUBSET Needles]
  BY <1>1 DEF Silence
<1>7. TypeOK' /\ GitHubOK'
  BY <1>1, <1>3, <1>4, <1>5, <1>6 DEF IInv, TypeOK, GitHubOK
<1>8. MainOK' /\ ~OnMain(job.run)'
  <2>1. \A r : OnMain(r)' <=> OnMain(r)
    BY <1>1, <1>5 DEF OnMain
  <2>2. \A r \in Nat : r > job'.run => ~OnMain(r)
    BY <1>3, JobFields DEF IInv, Control, MainOK
  <2>3. ~OnMain(job'.run)
    BY <1>3, JobFields DEF IInv, Control, MainOK
  <2>4. ~OnMain(job.run)'
    BY <1>1, <1>5, <2>3 DEF OnMain
  <2>5. \A r \in Nat : r > job'.run => ~OnMain(r)'
    BY <2>1, <2>2
  <2> QED
    BY <2>4, <2>5 DEF MainOK
<1>9. Control'
  BY <1>2, <1>3, <1>8 DEF Control, LoopsOK, TreeOK, GateOK, BranchOK, MergeOK, At, BeforeGate, Cleared, AfterMerge,
    Delivered
<1>10. Promises'
  BY <1>2, <1>8 DEF Promises, OnMain, ReleasedOnlyIfCleared, GreenWorkSurvives, MergedUnlessRefused
<1> QED
  BY <1>7, <1>9, <1>10 DEF IInv

\* The worktree and the branch go when the outcome says that GitHub has the work.
LEMMA CloseKeeps == IInv /\ close => IInv'
<1> SUFFICES ASSUME IInv, close PROVE IInv'
  OBVIOUS
<1>1. /\ UNCHANGED <<auto_release, spec, said, github>> /\ writer' = "none" /\ At("close")
      /\ job' = [job EXCEPT !.pc = job'.pc] /\ job'.pc \in {"idle", "file"}
  BY JobFields DEF close, Goto, Job
<1>2. /\ job' \in Job /\ job'.run = job.run /\ job'.gate_green = job.gate_green
      /\ job'.refused = job.refused /\ job'.finalized = job.finalized
  BY <1>1, JobFields DEF Job, Steps
<1>3. tree' \in [run : 0 .. MaxRuns, changes : Changes]
  BY LimitsAssumption DEF close, IInv, TypeOK, NoTree, Changes
<1>4. /\ repo' \in [branch : 0 .. MaxRuns, main : SUBSET Commits, origin : SUBSET Commits, changes : Changes]
      /\ repo'.main = repo.main /\ repo'.origin = repo.origin
  BY LimitsAssumption DEF close, IInv, TypeOK
<1>5. TypeOK' /\ GitHubOK'
  BY <1>1, <1>2, <1>3, <1>4 DEF IInv, TypeOK, GitHubOK
<1>6. Control'
  <2>1. LoopsOK' /\ TreeOK' /\ GateOK'
    BY <1>1 DEF LoopsOK, TreeOK, GateOK, At, BeforeGate, Cleared
  <2>2. MainOK'
    BY <1>1, <1>2, <1>4 DEF IInv, Control, MainOK, OnMain, BeforeMerge, BeforeGate
  <2>3. BranchOK' /\ MergeOK'
    BY <1>1, <1>2, <1>4 DEF IInv, Control, BranchOK, MergeOK, Refused, At, AfterMerge
  <2> QED
    BY <2>1, <2>2, <2>3 DEF Control
<1>7. GreenWorkSurvives'
  <2>1. CASE terminal
    BY <1>1, <1>2, <2>1 DEF terminal, IInv, Control, BranchOK, Delivered, Refused, GreenWorkSurvives
  <2>2. CASE ~terminal
    BY <1>1, <1>2, <2>2 DEF close, IInv, Promises, GreenWorkSurvives
  <2> QED
    BY <2>1, <2>2
<1>8. ReleasedOnlyIfCleared' /\ MergedUnlessRefused'
  BY <1>1, <1>2, <1>4 DEF IInv, Promises, ReleasedOnlyIfCleared, MergedUnlessRefused
<1> QED
  BY <1>5, <1>6, <1>7, <1>8 DEF IInv, Promises

------------------------------------------------------------------------------
(* Commits and pushes *)

\* The commit of what passed the gate, and its push: done, or refused and remembered.
LEMMA CommitKeeps == IInv /\ commit_and_push_branch => IInv'
<1> SUFFICES ASSUME IInv, commit_and_push_branch PROVE IInv'
  OBVIOUS
<1>1. UNCHANGED <<auto_release, spec, said, writer>> /\ At("commit")
  BY DEF commit_and_push_branch
<1>2. PICK p \in {"close", "open_pr", "merge"}, f \in {"None", "no changes"}, x \in SUBSET {"commit", "branch"} :
        /\ job' = [job EXCEPT !.pc = p, !.finalized = f, !.refused = @ \cup x]
        /\ p = "merge" => auto_release /\ release_ok
        /\ p # "close" => f = "None"
        /\ f = "no changes" => "commit" \in x
        /\ \/ /\ tree' = [tree EXCEPT !.changes = "none"]
              /\ repo' = [repo EXCEPT !.branch = job.run]
           \/ UNCHANGED <<tree, repo>> /\ "commit" \in x
        /\ \/ github' = [github EXCEPT !.branch = job.run]
           \/ github' = github /\ x # {}
  <2>1. job.finalized = "None"
    BY <1>1 DEF IInv, Control, BranchOK, At
  <2>2. CASE /\ job' = [Refuse({"commit"}) EXCEPT !.pc = "close", !.finalized = "no changes"]
             /\ UNCHANGED <<tree, repo, github>>
    <3>1. job' = [job EXCEPT !.pc = "close", !.finalized = "no changes", !.refused = @ \cup {"commit"}]
      BY <2>2, JobFields DEF Refuse, Job
    <3> QED
      BY <2>2, <3>1
  <2>3. CASE ~(/\ job' = [Refuse({"commit"}) EXCEPT !.pc = "close", !.finalized = "no changes"]
               /\ UNCHANGED <<tree, repo, github>>)
    <3>1. PICK committed \in BOOLEAN, pushed \in BOOLEAN :
            /\ job' = [Refuse((IF committed THEN {} ELSE {"commit"}) \cup (IF pushed THEN {} ELSE {"branch"}))
                         EXCEPT !.pc = IF auto_release /\ release_ok THEN "merge" ELSE "open_pr"]
            /\ IF committed
               THEN tree' = [tree EXCEPT !.changes = "none"] /\ repo' = [repo EXCEPT !.branch = job.run]
               ELSE UNCHANGED <<tree, repo>>
            /\ github' = IF committed /\ pushed THEN [github EXCEPT !.branch = job.run] ELSE github
      BY <2>3 DEF commit_and_push_branch
    <3>2. PICK x \in SUBSET {"commit", "branch"} :
            x = (IF committed THEN {} ELSE {"commit"}) \cup (IF pushed THEN {} ELSE {"branch"})
      OBVIOUS
    <3>3. /\ committed \/ "commit" \in x
          /\ (committed /\ pushed) \/ x # {}
      BY <3>2
    <3>4. PICK p \in {"open_pr", "merge"} :
            p = (IF auto_release /\ release_ok THEN "merge" ELSE "open_pr")
      OBVIOUS
    <3>5. job' = [job EXCEPT !.pc = p, !.finalized = "None", !.refused = @ \cup x]
      BY <3>1, <3>2, <3>4, <2>1, JobFields DEF Refuse, Job
    <3> QED
      BY <3>1, <3>3, <3>4, <3>5
  <2> QED
    BY <2>2, <2>3
<1>3. /\ job'.pc = p /\ job'.finalized = f /\ job'.refused = job.refused \cup x
      /\ job'.run = job.run /\ job'.gate_green = job.gate_green
  BY <1>2, JobFields DEF Job
<1>4. job' \in Job
  <2>1. p \in Steps /\ f \in Outcomes /\ x \in SUBSET Refusals
    BY DEF Steps, Outcomes, Refusals
  <2> QED
    BY <1>2, <2>1, JobFields DEF Job
<1>5. /\ repo' \in [branch : 0 .. MaxRuns, main : SUBSET Commits, origin : SUBSET Commits, changes : Changes]
      /\ repo'.main = repo.main /\ repo'.origin = repo.origin
      /\ tree' \in [run : 0 .. MaxRuns, changes : Changes] /\ tree'.run = tree.run
      /\ repo'.branch = job.run \/ "commit" \in x
  BY <1>2, JobFields DEF IInv, TypeOK, Changes
<1>6. /\ github'.main = github.main /\ github'.ci = github.ci /\ github'.branch \in 0 .. MaxRuns
      /\ github' = [branch |-> github'.branch, main |-> github'.main, ci |-> github'.ci]
      /\ github'.branch = job.run \/ x # {}
  <2>1. github = [branch |-> github.branch, main |-> github.main, ci |-> github.ci]
    BY DEF IInv, GitHubOK
  <2>2. CASE github' = [github EXCEPT !.branch = job.run]
    BY <2>1, <2>2, JobFields
  <2>3. CASE github' = github /\ x # {}
    BY <2>1, <2>3 DEF IInv, TypeOK
  <2> QED
    BY <1>2, <2>2, <2>3
<1>7. TypeOK'
  BY <1>1, <1>4, <1>5, <1>6 DEF IInv, TypeOK
<1>8. GitHubOK'
  BY <1>5, <1>6 DEF IInv, GitHubOK
<1>9. /\ job.run > 0 /\ tree.run = job.run /\ job.gate_green /\ ~OnMain(job.run)
      /\ \A r \in Nat : r > job.run => ~OnMain(r)
      /\ \A r : OnMain(r)' <=> OnMain(r)
  BY <1>1, <1>5, <1>6 DEF IInv, Control, TreeOK, GateOK, MainOK, OnMain, At, Cleared, BeforeMerge
<1>10. x # {} => Refused({"commit", "branch"})'
  BY <1>3 DEF Refused
<1>11. Control'
  <2>1. LoopsOK' /\ TreeOK'
    BY <1>3, <1>5, <1>9 DEF LoopsOK, TreeOK, At
  <2>2. MainOK'
    <3>1. ~OnMain(job.run)'
      BY <1>3, <1>5, <1>6, <1>9 DEF OnMain
    <3> QED
      BY <1>3, <1>9, <3>1 DEF MainOK
  <2>3. GateOK'
    <3>1. release_ok' <=> release_ok
      BY <1>1 DEF release_ok
    <3> QED
      BY <1>1, <1>2, <1>3, <1>9, <3>1 DEF GateOK, At, Cleared, BeforeGate
  <2>4. BranchOK'
    <3>1. "commit" \in x => Refused({"commit"})'
      BY <1>3 DEF Refused
    <3> QED
      BY <1>2, <1>3, <1>5, <1>6, <1>10, <3>1 DEF BranchOK, At
  <2>5. MergeOK'
    BY <1>3 DEF MergeOK, AfterMerge
  <2> QED
    BY <2>1, <2>2, <2>3, <2>4, <2>5 DEF Control
<1>12. Promises'
  <2>1. ReleasedOnlyIfCleared'
    BY <1>3, <1>5, <1>6, <1>9 DEF OnMain, ReleasedOnlyIfCleared
  <2>2. GreenWorkSurvives'
    BY <1>3, <1>6, <1>10 DEF Refused, GreenWorkSurvives
  <2>3. MergedUnlessRefused'
    BY <1>3 DEF MergedUnlessRefused
  <2> QED
    BY <2>1, <2>2, <2>3 DEF Promises
<1> QED
  BY <1>7, <1>8, <1>11, <1>12 DEF IInv

\* A push moves main and adds a CI run for a new head; every other run keeps its state.
LEMMA PushMoves ==
  ASSUME IInv, NEW head \in SUBSET Commits
  PROVE  LET g == Pushed(head)
         IN /\ g.branch = github.branch /\ g.main = head /\ head \in DOMAIN g.ci
            /\ g = [branch |-> g.branch, main |-> g.main, ci |-> g.ci]
            /\ g.ci = [h \in DOMAIN g.ci |-> g.ci[h]]
            /\ \A h \in DOMAIN g.ci : h \subseteq Commits /\ g.ci[h] \in {"running", "success", "failure"}
            /\ \A h \in DOMAIN github.ci : h \in DOMAIN g.ci /\ g.ci[h] = github.ci[h]
<1> DEFINE ci == [h \in DOMAIN github.ci \cup {head} |-> IF h \in DOMAIN github.ci THEN github.ci[h] ELSE "running"]
<1>1. Pushed(head) = [branch |-> github.branch, main |-> head, ci |-> ci]
  <2>1. github = [branch |-> github.branch, main |-> github.main, ci |-> github.ci]
    BY DEF IInv, GitHubOK
  <2>2. Pushed(head) = [github EXCEPT !.main = head, !.ci = ci]
    BY Zenon DEF Pushed
  <2> HIDE DEF ci
  <2> QED
    BY <2>1, <2>2
<1>2. \A h \in DOMAIN github.ci : h \subseteq Commits /\ github.ci[h] \in {"running", "success", "failure"}
  BY DEF IInv, TypeOK
<1>3. /\ DOMAIN ci = DOMAIN github.ci \cup {head}
      /\ \A h \in DOMAIN ci : ci[h] = IF h \in DOMAIN github.ci THEN github.ci[h] ELSE "running"
      /\ ci = [h \in DOMAIN ci |-> ci[h]]
  OBVIOUS
<1> HIDE DEF ci
<1> QED
  BY <1>1, <1>2, <1>3

\* What a step does to GitHub when it pushes or does not.
LEMMA MayPush ==
  ASSUME IInv, NEW head \in SUBSET Commits,
         \/ github' = Pushed(head) /\ repo'.origin \in {head, repo.origin}
         \/ github' = github /\ repo'.origin = repo.origin
  PROVE  /\ GitHubOK'
         /\ github'.branch \in 0 .. MaxRuns /\ github'.main \in DOMAIN github'.ci
         /\ \A h \in DOMAIN github'.ci : h \subseteq Commits /\ github'.ci[h] \in {"running", "success", "failure"}
         /\ github'.branch = github.branch
         /\ \A h \in DOMAIN github.ci : h \in DOMAIN github'.ci /\ github'.ci[h] = github.ci[h]
         /\ github'.main = head \/ github'.main = github.main
<1>1. CASE github' = Pushed(head) /\ repo'.origin \in {head, repo.origin}
  BY <1>1, PushMoves DEF IInv, TypeOK, GitHubOK
<1>2. CASE github' = github /\ repo'.origin = repo.origin
  BY <1>2 DEF IInv, TypeOK, GitHubOK
<1> QED
  BY <1>1, <1>2

LEMMA OthersKeep == IInv /\ others_push => IInv'
<1> SUFFICES ASSUME IInv, others_push PROVE IInv'
  OBVIOUS
<1>1. PICK head \in SUBSET Commits : head = github.main \cup {Other}
  <2>1. github.main \in SUBSET Commits
    BY DEF IInv, TypeOK
  <2>2. Other \in Commits
    BY DEF Commits
  <2> QED
    BY <2>1, <2>2
<1>2. github' = Pushed(head) /\ UNCHANGED <<auto_release, spec, job, said, writer, tree, repo>>
  BY <1>1 DEF others_push
<1>3. /\ GitHubOK'
      /\ github'.branch \in 0 .. MaxRuns /\ github'.main \in DOMAIN github'.ci
      /\ \A h \in DOMAIN github'.ci : h \subseteq Commits /\ github'.ci[h] \in {"running", "success", "failure"}
      /\ github'.branch = github.branch /\ github'.main = head
      /\ \A h \in DOMAIN github.ci : h \in DOMAIN github'.ci /\ github'.ci[h] = github.ci[h]
  BY <1>2, MayPush, PushMoves
<1>4. TypeOK'
  BY <1>2, <1>3 DEF IInv, TypeOK
<1>5. \A r : (OnMain(r)' <=> OnMain(r)) /\ (Feature(r) \in github'.main <=> Feature(r) \in github.main)
  BY <1>1, <1>2, <1>3, CommitsDiffer DEF OnMain
<1>6. Control'
  <2>1. LoopsOK' /\ TreeOK' /\ GateOK' /\ BranchOK'
    BY <1>2, <1>3 DEF IInv, Control, LoopsOK, TreeOK, GateOK, release_ok, BranchOK, Refused, At
  <2>2. MainOK'
    <3>1. /\ \A r \in Nat : r > job.run => ~OnMain(r)'
          /\ job.pc \in BeforeMerge => ~OnMain(job.run)
      BY <1>5 DEF IInv, Control, MainOK
    <3>2. OnMain(job.run)' <=> OnMain(job.run)
      BY <1>1, <1>2, <1>3, CommitsDiffer DEF OnMain
    <3> QED
      BY <1>2, <3>1, <3>2 DEF MainOK
  <2>3. MergeOK'
    BY <1>2, <1>5 DEF IInv, Control, MergeOK, Refused
  <2> QED
    BY <2>1, <2>2, <2>3 DEF Control
<1>7. Promises'
  <2>1. ReleasedOnlyIfCleared' /\ MergedUnlessRefused'
    BY <1>2, <1>3, <1>5 DEF IInv, Promises, OnMain, ReleasedOnlyIfCleared, MergedUnlessRefused
  <2>2. GreenWorkSurvives'
    BY <1>2, <1>3 DEF IInv, Promises, GreenWorkSurvives
  <2> QED
    BY <2>1, <2>2 DEF Promises
<1> QED
  BY <1>3, <1>4, <1>6, <1>7 DEF IInv

\* A CI run that ends was running: no head's success is taken back.
LEMMA CIKeeps == IInv /\ ci_completes => IInv'
<1> SUFFICES ASSUME IInv, ci_completes PROVE IInv'
  OBVIOUS
<1>1. UNCHANGED <<auto_release, spec, job, said, writer, tree, repo>>
  BY DEF ci_completes
<1>2. PICK h \in DOMAIN github.ci, s \in {"success", "failure"} :
        github.ci[h] = "running" /\ github' = [github EXCEPT !.ci = [github.ci EXCEPT ![h] = s]]
  BY DEF ci_completes
<1>3. github = [branch |-> github.branch, main |-> github.main, ci |-> github.ci]
      /\ github.ci = [g \in DOMAIN github.ci |-> github.ci[g]]
  BY DEF IInv, GitHubOK
<1>4. /\ github' = [branch |-> github.branch, main |-> github.main, ci |-> [github.ci EXCEPT ![h] = s]]
      /\ github'.branch = github.branch /\ github'.main = github.main
      /\ github'.ci = [github.ci EXCEPT ![h] = s]
  BY <1>2, <1>3
<1>5. /\ DOMAIN github'.ci = DOMAIN github.ci
      /\ \A g \in DOMAIN github.ci : github'.ci[g] = IF g = h THEN s ELSE github.ci[g]
      /\ github'.ci = [g \in DOMAIN github'.ci |-> github'.ci[g]]
  BY <1>3, <1>4
<1>6. TypeOK'
  BY <1>1, <1>2, <1>4, <1>5 DEF IInv, TypeOK
<1>7. GitHubOK'
  BY <1>1, <1>4, <1>5 DEF IInv, GitHubOK
<1>8. Control'
  BY <1>1, <1>4 DEF IInv, Control, LoopsOK, TreeOK, MainOK, OnMain, GateOK, release_ok, BranchOK, MergeOK,
    Refused, At
<1>9. Promises'
  <2>1. ReleasedOnlyIfCleared' /\ GreenWorkSurvives'
    BY <1>1, <1>4 DEF IInv, Promises, ReleasedOnlyIfCleared, GreenWorkSurvives
  <2>2. \A g \in DOMAIN github.ci : github.ci[g] = "success" => github'.ci[g] = "success"
    BY <1>2, <1>5
  <2>3. MergedUnlessRefused'
    BY <1>1, <1>4, <1>5, <2>2 DEF IInv, Promises, MergedUnlessRefused
  <2> QED
    BY <2>1, <2>3 DEF Promises
<1> QED
  BY <1>6, <1>7, <1>8, <1>9 DEF IInv

LEMMA CommitsKnown ==
  ASSUME IInv
  PROVE  /\ job.run > 0 => Feature(job.run) \in Commits
         /\ \A n \in 1 .. max_ci_fix : job.run > 0 => Fix(job.run, n) \in Commits
         /\ repo.main \in SUBSET Commits
<1>1. job.run > 0 => job.run \in 1 .. MaxRuns
  BY JobFields, LimitsAssumption
<1>2. repo.main \in SUBSET Commits
  BY DEF IInv, TypeOK
<1> QED
  BY <1>1, <1>2 DEF Commits

\* The only step that brings a feature to main: the run's own, with everything granted.
LEMMA MergeKeeps == IInv /\ merge => IInv'
<1> SUFFICES ASSUME IInv, merge PROVE IInv'
  OBVIOUS
<1>1. UNCHANGED <<auto_release, spec, said, tree>> /\ writer' = "none" /\ At("merge")
  BY DEF merge
<1>2. /\ job.run > 0 /\ tree.run = job.run /\ job.gate_green /\ job.finalized = "None"
      /\ auto_release /\ release_ok
      /\ repo.branch = job.run \/ Refused({"commit"})
      /\ github.branch = job.run \/ Refused({"commit", "branch"})
  BY <1>1 DEF IInv, Control, TreeOK, GateOK, BranchOK, At, Cleared
<1>3. PICK head \in SUBSET Commits, x \in SUBSET {"merge", "main"} :
        /\ repo.main \subseteq head /\ head \subseteq repo.main \cup {Feature(job.run)}
        /\ "merge" \in x \/ Refused({"commit"}) \/ Feature(job.run) \in head
        /\ job' = [job EXCEPT !.pc = "watch", !.refused = @ \cup x]
        /\ repo' = [repo EXCEPT !.main = head, !.origin = repo'.origin]
        /\ \/ repo'.origin = head /\ github' = Pushed(head)
           \/ repo'.origin = repo.origin /\ github' = github /\ "main" \in x
  <2>1. PICK merged, pushed, head :
          /\ head = IF merged /\ repo.branch = job.run THEN repo.main \cup {Feature(job.run)} ELSE repo.main
          /\ job' = [Refuse((IF merged THEN {} ELSE {"merge"}) \cup (IF pushed THEN {} ELSE {"main"}))
                       EXCEPT !.pc = "watch"]
          /\ repo' = [repo EXCEPT !.main = head, !.origin = IF pushed THEN head ELSE @]
          /\ github' = IF pushed THEN Pushed(head) ELSE github
    BY DEF merge
  <2>2. PICK x \in SUBSET {"merge", "main"} :
          x = (IF merged THEN {} ELSE {"merge"}) \cup (IF pushed THEN {} ELSE {"main"})
    OBVIOUS
  <2>3. job' = [job EXCEPT !.pc = "watch", !.refused = @ \cup x]
    BY <2>1, <2>2, JobFields DEF Refuse, Job
  <2>4. head \in SUBSET Commits
    BY <1>2, <2>1, CommitsKnown
  <2>5. /\ repo' = [repo EXCEPT !.main = head, !.origin = repo'.origin]
        /\ \/ repo'.origin = head /\ github' = Pushed(head)
           \/ repo'.origin = repo.origin /\ github' = github /\ "main" \in x
    BY <2>1, <2>2 DEF IInv, TypeOK
  <2>6. /\ repo.main \subseteq head /\ head \subseteq repo.main \cup {Feature(job.run)}
        /\ "merge" \in x \/ Refused({"commit"}) \/ Feature(job.run) \in head
    BY <1>2, <2>1, <2>2
  <2> QED
    BY <2>3, <2>4, <2>5, <2>6
<1>4. /\ job'.pc = "watch" /\ job'.refused = job.refused \cup x /\ job'.finalized = job.finalized
      /\ job'.run = job.run /\ job'.gate_green = job.gate_green /\ job' \in Job
  <2>1. "watch" \in Steps /\ x \in SUBSET Refusals
    BY DEF Steps, Refusals
  <2> QED
    BY <1>3, <2>1, JobFields DEF Job
<1>5. /\ GitHubOK'
      /\ github'.branch \in 0 .. MaxRuns /\ github'.main \in DOMAIN github'.ci
      /\ \A h \in DOMAIN github'.ci : h \subseteq Commits /\ github'.ci[h] \in {"running", "success", "failure"}
      /\ github'.branch = github.branch /\ github'.main \in {head, github.main}
  BY <1>3, MayPush
<1>6. /\ repo' \in [branch : 0 .. MaxRuns, main : SUBSET Commits, origin : SUBSET Commits, changes : Changes]
      /\ repo'.main = head
  <2>1. repo'.origin \in SUBSET Commits
    BY <1>3 DEF IInv, TypeOK
  <2> QED
    BY <1>3, <2>1 DEF IInv, TypeOK
<1>7. TypeOK'
  BY <1>1, <1>4, <1>5, <1>6 DEF IInv, TypeOK
<1>8. \/ Feature(job.run) \in repo'.main \cap repo'.origin \cap github'.main
      \/ Refused({"commit", "merge", "main"})'
  <2>1. CASE "merge" \in x \/ "main" \in x \/ Refused({"commit"})
    <3>1. CASE "merge" \in x
      BY <1>4, <3>1 DEF Refused
    <3>2. CASE "main" \in x
      BY <1>4, <3>2 DEF Refused
    <3>3. CASE Refused({"commit"})
      BY <1>4, <3>3 DEF Refused
    <3> QED
      BY <2>1, <3>1, <3>2, <3>3
  <2>2. CASE Feature(job.run) \in head /\ "main" \notin x
    <3>1. repo'.origin = head /\ github'.main = head
      BY <1>3, <2>2, PushMoves
    <3> QED
      BY <1>6, <2>2, <3>1, <1>4
  <2> QED
    BY <1>3, <2>1, <2>2
<1>9. Control'
  <2>1. LoopsOK' /\ TreeOK'
    BY <1>1, <1>2, <1>4 DEF LoopsOK, TreeOK, At
  <2>2. MainOK'
    <3>1. ASSUME NEW r \in Nat, r > job.run PROVE ~OnMain(r)'
      <4>1. ~OnMain(r) /\ Feature(r) # Feature(job.run)
        BY <3>1, CommitsDiffer, JobFields DEF IInv, Control, MainOK
      <4> QED
        BY <1>3, <1>5, <1>6, <4>1 DEF OnMain
    <3> QED
      BY <1>4, <3>1 DEF MainOK, BeforeMerge, BeforeGate
  <2>3. GateOK'
    BY <1>2, <1>4 DEF GateOK, At, BeforeGate
  <2>4. BranchOK'
    BY <1>2, <1>4, <1>5 DEF BranchOK, Refused, At
  <2>5. MergeOK'
    BY <1>4, <1>8 DEF MergeOK
  <2> QED
    BY <2>1, <2>2, <2>3, <2>4, <2>5 DEF Control
<1>10. Promises'
  <2>1. ReleasedOnlyIfCleared'
    <3>1. \A who \in DOMAIN said :
            said[who] # {} /\ said[who] \cap {"NO-GO", "REQUEST-CHANGES"} = {}
      BY <1>2 DEF release_ok, _verdict
    <3> QED
      BY <1>1, <1>2, <1>4, <3>1 DEF ReleasedOnlyIfCleared
  <2>2. GreenWorkSurvives'
    BY <1>2, <1>4, <1>5 DEF Refused, GreenWorkSurvives
  <2>3. MergedUnlessRefused'
    BY <1>2, <1>4 DEF MergedUnlessRefused
  <2> QED
    BY <2>1, <2>2, <2>3 DEF Promises
<1> QED
  BY <1>5, <1>7, <1>9, <1>10 DEF IInv

\* A repair adds to main what is no feature, whether its gate and its push succeed or not.
LEMMA RecoverKeeps == IInv /\ recover => IInv'
<1> SUFFICES ASSUME IInv, recover PROVE IInv'
  OBVIOUS
<1>1. UNCHANGED <<auto_release, spec, said, writer, tree>> /\ At("recover") /\ job.attempts < max_ci_fix
  BY DEF recover, IInv, Control, LoopsOK
<1>2. /\ job.run > 0 /\ tree.run = job.run /\ job.gate_green /\ job.finalized = "None"
      /\ github.branch = job.run \/ Refused({"commit", "branch"})
      /\ \/ Feature(job.run) \in repo.main \cap repo.origin \cap github.main
         \/ Refused({"commit", "merge", "main"})
  BY <1>1 DEF IInv, Control, TreeOK, GateOK, BranchOK, MergeOK, At, Cleared, AfterMerge
<1>3. PICK head \in SUBSET Commits, p \in {"watch", "recover", "escalate"}, n \in 1 .. max_ci_fix, c \in Changes :
        /\ n = job.attempts + 1
        /\ repo.main \subseteq head /\ head \subseteq repo.main \cup {Fix(job.run, n)}
        /\ p = "recover" => n < max_ci_fix
        /\ job' = [job EXCEPT !.pc = p, !.attempts = n]
        /\ repo' = [repo EXCEPT !.main = head, !.origin = repo'.origin, !.changes = c]
        /\ \/ repo'.origin = head /\ github' = Pushed(head)
           \/ repo'.origin = repo.origin /\ github' = github
  <2>1. PICK c, green, committed, pushed, n, head :
          /\ c \in Changes /\ n = job.attempts + 1
          /\ head = IF committed THEN repo.main \cup {Fix(job.run, n)} ELSE repo.main
          /\ IF green
             THEN /\ job' = [job EXCEPT !.pc = "watch", !.attempts = n]
                  /\ repo' = [repo EXCEPT !.main = head, !.origin = IF pushed THEN head ELSE @,
                                          !.changes = IF committed THEN "none" ELSE c]
                  /\ github' = IF pushed THEN Pushed(head) ELSE github
             ELSE /\ job' = [job EXCEPT !.pc = IF n < max_ci_fix THEN "recover" ELSE "escalate",
                                        !.attempts = n]
                  /\ repo' = [repo EXCEPT !.changes = c]
                  /\ UNCHANGED github
    BY DEF recover
  <2>2. n \in 1 .. max_ci_fix
    BY <1>1, <2>1, JobFields, LimitsAssumption
  <2>3. head \in SUBSET Commits /\ repo.main \in SUBSET Commits
    BY <1>2, <2>1, <2>2, CommitsKnown
  <2>4. CASE green
    <3>1. PICK d \in Changes : d = IF committed THEN "none" ELSE c
      BY <2>1 DEF Changes
    <3>2. /\ repo' = [repo EXCEPT !.main = head, !.origin = repo'.origin, !.changes = d]
          /\ \/ repo'.origin = head /\ github' = Pushed(head)
             \/ repo'.origin = repo.origin /\ github' = github
      BY <2>1, <2>4, <3>1 DEF IInv, TypeOK
    <3> QED
      BY <2>1, <2>2, <2>3, <2>4, <3>2
  <2>5. CASE ~green
    <3>1. PICK p \in {"recover", "escalate"} : p = IF n < max_ci_fix THEN "recover" ELSE "escalate"
      OBVIOUS
    <3>2. /\ repo' = [repo EXCEPT !.main = repo.main, !.origin = repo'.origin, !.changes = c]
          /\ repo'.origin = repo.origin /\ github' = github
      BY <2>1, <2>5 DEF IInv, TypeOK
    <3>3. job' = [job EXCEPT !.pc = p, !.attempts = n]
      BY <2>1, <2>5, <3>1
    <3>4. PICK main \in SUBSET Commits : main = repo.main
      BY <2>3
    <3> QED
      BY <2>1, <2>2, <3>1, <3>2, <3>3, <3>4
  <2> QED
    BY <2>4, <2>5
<1>4. /\ job'.pc = p /\ job'.attempts = n /\ job'.refused = job.refused /\ job'.finalized = job.finalized
      /\ job'.run = job.run /\ job'.gate_green = job.gate_green /\ job' \in Job
  <2>1. p \in Steps /\ n \in 0 .. max_ci_fix
    BY DEF Steps
  <2> QED
    BY <1>3, <2>1, JobFields DEF Job
<1>5. /\ GitHubOK'
      /\ github'.branch \in 0 .. MaxRuns /\ github'.main \in DOMAIN github'.ci
      /\ \A h \in DOMAIN github'.ci : h \subseteq Commits /\ github'.ci[h] \in {"running", "success", "failure"}
      /\ github'.branch = github.branch /\ github'.main \in {head, github.main}
  BY <1>3, MayPush
<1>6. /\ repo' \in [branch : 0 .. MaxRuns, main : SUBSET Commits, origin : SUBSET Commits, changes : Changes]
      /\ repo'.main = head /\ repo'.origin \in {head, repo.origin}
  <2>1. repo'.origin \in SUBSET Commits
    BY <1>3 DEF IInv, TypeOK
  <2> QED
    BY <1>3, <2>1 DEF IInv, TypeOK
<1>7. TypeOK'
  BY <1>1, <1>4, <1>5, <1>6 DEF IInv, TypeOK
<1>8. \A r : OnMain(r)' => OnMain(r)
  BY <1>3, <1>5, <1>6, CommitsDiffer DEF OnMain
<1>9. Control'
  <2>1. LoopsOK' /\ TreeOK'
    BY <1>1, <1>2, <1>3, <1>4 DEF LoopsOK, TreeOK, At
  <2>2. MainOK'
    BY <1>3, <1>4, <1>8 DEF IInv, Control, MainOK, BeforeMerge, BeforeGate
  <2>3. GateOK'
    BY <1>2, <1>3, <1>4 DEF GateOK, At, BeforeGate
  <2>4. BranchOK'
    BY <1>2, <1>3, <1>4, <1>5 DEF BranchOK, Refused, At
  <2>5. MergeOK'
    <3>1. Refused({"commit", "merge", "main"})' <=> Refused({"commit", "merge", "main"})
      BY <1>4 DEF Refused
    <3>2. Feature(job.run) \in repo.main \cap repo.origin \cap github.main =>
            Feature(job.run) \in repo'.main \cap repo'.origin \cap github'.main
      BY <1>3, <1>5, <1>6
    <3> QED
      BY <1>2, <1>4, <3>1, <3>2 DEF MergeOK
  <2> QED
    BY <2>1, <2>2, <2>3, <2>4, <2>5 DEF Control
<1>10. Promises'
  <2>1. ReleasedOnlyIfCleared'
    <3>1. Feature(job.run) \in repo'.main \cup github'.main => Feature(job.run) \in repo.main \cup github.main
      BY <1>3, <1>5, <1>6, CommitsDiffer
    <3> QED
      BY <1>1, <1>4, <3>1 DEF IInv, Promises, ReleasedOnlyIfCleared
  <2>2. GreenWorkSurvives'
    BY <1>2, <1>4, <1>5 DEF Refused, GreenWorkSurvives
  <2>3. MergedUnlessRefused'
    BY <1>2, <1>4 DEF MergedUnlessRefused
  <2> QED
    BY <2>1, <2>2, <2>3 DEF Promises
<1> QED
  BY <1>5, <1>7, <1>9, <1>10 DEF IInv

------------------------------------------------------------------------------
(* The invariant and the theorems *)

LEMMA NextIInv == IInv /\ [Next]_vars => IInv'
<1> SUFFICES ASSUME IInv, [Next]_vars PROVE IInv'
  OBVIOUS
<1>1. CASE job_step
  BY <1>1, EarlyStepsKeep, AnswersKeep, GateKeeps, ReportsKeep, WatchKeeps, CloseKeeps, CommitKeeps, MergeKeeps,
    RecoverKeeps DEF job_step
<1>2. CASE UNCHANGED vars
  BY <1>2 DEF vars, IInv, TypeOK, GitHubOK, Control, LoopsOK, TreeOK, MainOK, OnMain, GateOK, release_ok, BranchOK,
    MergeOK, Refused, At, Promises, ReleasedOnlyIfCleared, GreenWorkSurvives, MergedUnlessRefused
<1> QED
  BY <1>1, <1>2, StartKeeps, ReportsKeep, AgentsKeep, OthersKeep, CIKeeps DEF Next

LEMMA IInvHolds == Spec => []IInv
BY InitIInv, NextIInv, PTL DEF Spec

\* Every variable has its type: one run at a time, loops within their limits, a CI run
\* of a known head only.
THEOREM TypeCorrect == Spec => []TypeOK
<1>1. IInv => TypeOK
  BY DEF IInv
<1> QED
  BY <1>1, IInvHolds, PTL

\* "auto-merged" is reported only when GitHub's main has the feature and CI has passed on
\* a head with it, unless git refused a step towards main, unnoticed.
THEOREM ConsistencyHolds == Spec => []Consistent
<1>1. IInv => Consistent
  BY DEF IInv, Promises, Consistent
<1> QED
  BY <1>1, IInvHolds, PTL

\* Whatever agents answer and leave in the trees, however runs raise or are killed: on
\* main is a run's feature only with the owner's wish, a green gate and every approval.
THEOREM NothingUnclearedReleased == Spec => []ReleasedOnlyIfCleared
<1>1. IInv => ReleasedOnlyIfCleared
  BY DEF IInv, Promises
<1> QED
  BY <1>1, IInvHolds, PTL

\* Green work is in the worktree, on the branch, in the main checkout or on GitHub until
\* the next run of the spec begins, unless git refused its commit or its push.
THEOREM GreenWorkIsKept == Spec => []GreenWorkSurvives
<1>1. IInv => GreenWorkSurvives
  BY DEF IInv, Promises
<1> QED
  BY <1>1, IInvHolds, PTL

------------------------------------------------------------------------------
(* Debate: where a debate is *)

\* A message's j-th place does not say who speaks; these are the two ways to be right.
InTurn(list, j) ==
  LET m == list[j] IN
  /\ m.content = {Place(list, j)} /\ m.agent # 0
  /\ role[m.of][m.agent] = role[m.of][Speaker(Place(list, j))]

BrokeOff(list, j) ==
  /\ list[j].content = {0} /\ list[j].agent = 0
  /\ \A k \in DOMAIN list : k > j => list[k].of # list[j].of

\* SpokenInTurn, of any transcript.
AsSpoken(list, late) ==
  \A j \in DOMAIN list : list[j].of \notin late => InTurn(list, j) \/ BrokeOff(list, j)

\* The messages of a debate in a transcript.
Said(list, d) == Cardinality({k \in DOMAIN list : list[k].of = d})

\* Where the page is in a debate, told like the chunk it read last.
Position(d) ==
  IF currentAgentMessage = None THEN [turn |-> Said(Shown, d), kind |-> "turn_complete"]
  ELSE IF currentAgentMessage.agent = 0 THEN [turn |-> 0, kind |-> "chunk"]
  ELSE [turn |-> Said(Shown, d), kind |-> "chunk"]

\* What comes after a chunk: more of the turn, its end, the next turn; or, from
\* wherever the worker is, what says that it broke off, and the end of the stream.
Follows(d, x, y) ==
  \/ /\ y.kind \in {"chunk", "turn_complete"} /\ y.agent = agent_id(d, Speaker(y.turn))
     /\ x.kind = "chunk" /\ x.turn = y.turn /\ y.turn \in 1..Turns
  \/ /\ y.kind = "chunk" /\ y.agent = agent_id(d, Speaker(y.turn))
     /\ x.kind = "turn_complete" /\ y.turn = x.turn + 1 /\ y.turn \in 1..Turns
  \/ /\ y.kind = "chunk" /\ y.agent = 0 /\ y.turn = 0
     /\ x.kind = "turn_complete" \/ (x.kind = "chunk" /\ x.turn # 0)
  \/ y.kind = "end" /\ (x.kind = "turn_complete" \/ (x.kind = "chunk" /\ x.turn = 0))

\* A queue is read on from a position, and ends where the worker is.
ReadOn(d, x, q) ==
  \A k \in DOMAIN q : Follows(d, IF k = 1 THEN x ELSE q[k - 1], q[k])

LastRead(x, q) == IF q = <<>> THEN x ELSE q[Len(q)]

WorkerAt(w, x) ==
  /\ w.pc # "off"
  /\ w.pc = "preflight" => x.kind = "turn_complete" /\ x.turn = 0
  /\ w.pc = "speaking" =>
       /\ w.turn \in 1..Turns
       /\ IF w.said = 0 THEN x.kind = "turn_complete" /\ x.turn = w.turn - 1
          ELSE x.kind = "chunk" /\ x.turn = w.turn
  /\ w.pc = "ended" => x.kind = "end"

\* An undisturbed debate that is open has the page.
HasThePage(d) ==
  /\ isConversationActive /\ conversationTimer /\ abortController = d
  /\ Live = {d} /\ \A c \in Chats : stream[c] # "open"
  /\ currentAgentMessage # None => currentAgentMessage.of = d

\* What is on its way to the page goes on where the transcript ends.
GoesOn(d) ==
  /\ ReadOn(d, Position(d), queue[d])
  /\ WorkerAt(worker[d], LastRead(Position(d), queue[d]))
  /\ \A j \in DOMAIN Shown :
       Shown[j].of = d /\ Shown[j].agent = 0 => j = Len(Shown) /\ currentAgentMessage # None
  /\ currentAgentMessage # None /\ currentAgentMessage.agent # 0 =>
       currentAgentMessage.agent = agent_id(d, Speaker(Said(Shown, d)))

\* No stream has done anything before it is opened.
Unopened(s) ==
  stream[s] = "idle" =>
    /\ worker[s] = [pc |-> "off", turn |-> 0, said |-> 0] /\ queue[s] = <<>>
    /\ \A j \in DOMAIN Shown : Shown[j].of # s

DebateIInv ==
  /\ DebateTypeOK
  /\ isConversationActive => conversationTimeRemaining # 0
  /\ \A s \in Streams : worker[s].pc = "speaking" => worker[s].turn \in 1..Turns
  /\ \A s \in Streams : Unopened(s)
  /\ \A d \in Live \ disturbed : HasThePage(d) /\ GoesOn(d)
  /\ currentAgentMessage # None /\ currentAgentMessage.of \notin disturbed =>
       Live \subseteq {currentAgentMessage.of}
  /\ AsSpoken(Shown, disturbed)

------------------------------------------------------------------------------
(* Debate: agents and turns *)

LEMMA TurnsType ==
  /\ max_turns \in Nat \ {0} /\ MaxChunks \in Nat \ {0} /\ Limit \in Nat \ {0}
  /\ Len(agents) \in Nat \ {0} /\ DOMAIN agents = 1..Len(agents)
  /\ Turns \in Nat \ {0}
<1>1. max_turns \in Nat \ {0} /\ MaxChunks \in Nat \ {0} /\ Limit \in Nat \ {0}
  BY BoundsAssumption
<1>2. Len(agents) \in Nat \ {0} /\ DOMAIN agents = 1..Len(agents)
  BY AgentsAssumption
<1>3. \A a, b \in Nat \ {0} : a * b \in Nat \ {0}
  BY SMT
<1> QED
  BY <1>1, <1>2, <1>3 DEF Turns

LEMMA SpeakerType ==
  ASSUME NEW turn \in 1..Turns
  PROVE  Speaker(turn) \in Agents
<1>1. \A a \in Nat, b \in Nat \ {0} : a % b \in 0..(b - 1)
  BY SMT
<1>2. turn - 1 \in Nat /\ Len(agents) \in Nat \ {0} /\ DOMAIN agents = 1..Len(agents)
  BY TurnsType
<1>3. (turn - 1) % Len(agents) \in 0..(Len(agents) - 1)
  BY <1>1, <1>2
<1>4. PICK r \in 0..(Len(agents) - 1) : r = (turn - 1) % Len(agents)
  BY <1>3
<1>5. r + 1 \in DOMAIN agents /\ Speaker(turn) = agents[r + 1]
  BY <1>2, <1>4 DEF Speaker
<1> QED
  BY <1>5 DEF Agents, ToSet

LEMMA LeastOfNumbers ==
  ASSUME NEW T \in SUBSET Nat, T # {}
  PROVE  \E x \in T : \A y \in T : x <= y
<1>1. IsWellFoundedOn(OpToRel(<, Nat), Nat)
  BY NatLessThanWellFounded
<1>2. PICK x \in T : \A y \in T : <<y, x>> \notin OpToRel(<, Nat)
  BY <1>1, WFMin
<1>3. \A y \in T : ~(y < x)
  BY <1>2 DEF OpToRel
<1> QED
  BY <1>3

\* Of the participants with a role there is a last one.
LEMMA AgentIdType ==
  ASSUME NEW d \in Debates, NEW a \in Agents
  PROVE  agent_id(d, a) \in Agents /\ role[d][agent_id(d, a)] = role[d][a]
<1> DEFINE T == {i \in DOMAIN agents : role[d][agents[i]] = role[d][a]}
           After == {Len(agents) - i : i \in T}
<1>1. DOMAIN agents = 1..Len(agents) /\ Len(agents) \in Nat
  BY TurnsType
<1>2. T # {} /\ T \subseteq 1..Len(agents)
  BY <1>1 DEF Agents, ToSet
<1>3. After # {} /\ After \in SUBSET Nat
  BY <1>1, <1>2
<1>4. PICK x \in After : \A y \in After : x <= y
  BY <1>3, LeastOfNumbers
<1>5. PICK i \in T : x = Len(agents) - i
  BY <1>4
<1>6. ASSUME NEW j \in T PROVE j <= i
  <2>1. Len(agents) - j \in After
    OBVIOUS
  <2>2. x <= Len(agents) - j
    BY <1>4, <2>1
  <2>3. i \in 1..Len(agents) /\ j \in 1..Len(agents)
    BY <1>2
  <2> QED
    BY <1>1, <1>5, <2>2, <2>3
<1>7. \E n \in DOMAIN agents :
        /\ role[d][agents[n]] = role[d][a]
        /\ \A j \in DOMAIN agents : role[d][agents[j]] = role[d][a] => j <= n
  BY <1>5, <1>6
<1> HIDE DEF T, After
<1> QED
  BY <1>7 DEF agent_id, Agents, ToSet

------------------------------------------------------------------------------
(* Debate: transcripts *)

\* One message more at the end.
OneMore(list, m, longer) ==
  /\ longer \in Seq(Message) /\ Len(longer) = Len(list) + 1 /\ Len(list) \in Nat
  /\ DOMAIN list = 1..Len(list) /\ DOMAIN longer = 1..(Len(list) + 1)
  /\ \A j \in DOMAIN list : longer[j] = list[j] /\ Place(longer, j) = Place(list, j)
  /\ longer[Len(list) + 1] = m
  /\ Place(longer, Len(list) + 1) = Said(list, m.of) + 1
  /\ \A d : Said(longer, d) = IF d = m.of THEN Said(list, d) + 1 ELSE Said(list, d)
  /\ \A d : Said(list, d) \in Nat

LEMMA Grown ==
  ASSUME NEW list \in Seq(Message), NEW m \in Message, NEW longer, longer = Append(list, m)
  PROVE  OneMore(list, m, longer)
<1>1. /\ longer \in Seq(Message) /\ Len(longer) = Len(list) + 1 /\ Len(list) \in Nat
      /\ DOMAIN list = 1..Len(list) /\ DOMAIN longer = 1..(Len(list) + 1)
      /\ longer[Len(list) + 1] = m
      /\ \A j \in DOMAIN list : longer[j] = list[j]
  OBVIOUS
<1>2. ASSUME NEW d
      PROVE  /\ Said(longer, d) = IF d = m.of THEN Said(list, d) + 1 ELSE Said(list, d)
             /\ Said(list, d) \in Nat
  <2> DEFINE A == {k \in DOMAIN list : list[k].of = d}
             B == {k \in DOMAIN longer : longer[k].of = d}
  <2>1. IsFiniteSet(A)
    BY <1>1, FS_Interval, FS_Subset, 1 \in Int, Len(list) \in Int
  <2>2. B = IF d = m.of THEN A \cup {Len(list) + 1} ELSE A
    <3>1. \A k \in 1..Len(list) : k \in B <=> k \in A
      BY <1>1
    <3>2. Len(list) + 1 \in B <=> d = m.of
      BY <1>1
    <3>3. \A k : k \in B => k \in 1..Len(list) \/ k = Len(list) + 1
      BY <1>1
    <3> QED
      BY <1>1, <3>1, <3>2, <3>3
  <2>3. Len(list) + 1 \notin A
    BY <1>1
  <2>4. Cardinality(A) \in Nat
    BY <2>1, FS_CardinalityType
  <2>5. Cardinality(B) = IF d = m.of THEN Cardinality(A) + 1 ELSE Cardinality(A)
    BY <2>1, <2>2, <2>3, FS_AddElement
  <2> QED
    BY <2>4, <2>5 DEF Said
<1>3. ASSUME NEW j \in DOMAIN list
      PROVE  Place(longer, j) = Place(list, j)
  <2>1. \A k \in 1..j : longer[k] = list[k]
    BY <1>1
  <2>2. {k \in 1..j : longer[k].of = longer[j].of} = {k \in 1..j : list[k].of = list[j].of}
    BY <2>1, <1>1
  <2> QED
    BY <2>2 DEF Place
<1>4. Place(longer, Len(list) + 1) = Said(list, m.of) + 1
  <2>1. {k \in 1..(Len(list) + 1) : longer[k].of = longer[Len(list) + 1].of}
          = {k \in DOMAIN longer : longer[k].of = m.of}
    BY <1>1
  <2>2. Place(longer, Len(list) + 1) = Said(longer, m.of)
    BY <2>1 DEF Place, Said
  <2> QED
    BY <1>2, <2>2
<1> QED
  BY <1>1, <1>2, <1>3, <1>4 DEF OneMore

LEMMA ShorterAsSpoken ==
  ASSUME NEW list \in Seq(Message), NEW m \in Message, NEW longer, longer = Append(list, m),
         NEW late, AsSpoken(longer, late)
  PROVE  AsSpoken(list, late)
<1> SUFFICES ASSUME NEW j \in DOMAIN list, list[j].of \notin late
             PROVE  InTurn(list, j) \/ BrokeOff(list, j)
  BY DEF AsSpoken
<1>0. OneMore(list, m, longer)
  BY Grown
<1>1. /\ DOMAIN list = 1..Len(list) /\ DOMAIN longer = 1..(Len(list) + 1) /\ Len(list) \in Nat
      /\ \A k \in DOMAIN list : longer[k] = list[k] /\ Place(longer, k) = Place(list, k)
  BY <1>0 DEF OneMore
<1>2. InTurn(longer, j) \/ BrokeOff(longer, j)
  BY <1>1 DEF AsSpoken
<1>3. CASE InTurn(longer, j)
  BY <1>1, <1>3 DEF InTurn
<1>4. CASE BrokeOff(longer, j)
  BY <1>1, <1>4 DEF BrokeOff
<1> QED
  BY <1>2, <1>3, <1>4

\* A message may be added if its debate is late anyway, or if it is that debate's
\* next turn, or says that the debate broke off - before which it had not.
LEMMA LongerAsSpoken ==
  ASSUME NEW list \in Seq(Message), NEW m \in Message, NEW longer, longer = Append(list, m),
         NEW late, AsSpoken(list, late),
         m.of \notin late => \A j \in DOMAIN list : list[j].of = m.of => list[j].agent # 0,
         m.of \notin late /\ m.agent = 0 => m.content = {0},
         m.of \notin late /\ m.agent # 0 =>
           /\ m.content = {Said(list, m.of) + 1}
           /\ role[m.of][m.agent] = role[m.of][Speaker(Said(list, m.of) + 1)]
  PROVE  AsSpoken(longer, late)
<1> SUFFICES ASSUME NEW j \in DOMAIN longer, longer[j].of \notin late
             PROVE  InTurn(longer, j) \/ BrokeOff(longer, j)
  BY DEF AsSpoken
<1>0. OneMore(list, m, longer)
  BY Grown
<1>1. /\ DOMAIN list = 1..Len(list) /\ DOMAIN longer = 1..(Len(list) + 1) /\ Len(list) \in Nat
      /\ \A k \in DOMAIN list : longer[k] = list[k] /\ Place(longer, k) = Place(list, k)
      /\ longer[Len(list) + 1] = m /\ Place(longer, Len(list) + 1) = Said(list, m.of) + 1
  BY <1>0 DEF OneMore
<1>2. CASE j = Len(list) + 1
  <2>1. longer[j] = m /\ Place(longer, j) = Said(list, m.of) + 1 /\ m.of \notin late
    BY <1>1, <1>2
  <2>2. CASE m.agent # 0
    BY <2>1, <2>2 DEF InTurn
  <2>3. CASE m.agent = 0
    <3>1. ~ \E k \in DOMAIN longer : k > j
      BY <1>1, <1>2
    <3> QED
      BY <2>1, <2>3, <3>1 DEF BrokeOff
  <2> QED
    BY <2>2, <2>3
<1>3. CASE j \in DOMAIN list
  <2>1. list[j].of \notin late
    BY <1>1, <1>3
  <2>2. CASE InTurn(list, j)
    BY <1>1, <1>3, <2>2 DEF InTurn
  <2>3. CASE BrokeOff(list, j)
    <3>1. list[j].agent = 0 /\ list[j].of # m.of
      BY <1>3, <2>1, <2>3 DEF BrokeOff
    <3>2. \A k \in DOMAIN longer : k > j => longer[k].of # longer[j].of
      BY <1>1, <1>3, <2>3, <3>1 DEF BrokeOff
    <3> QED
      BY <1>1, <1>3, <2>3, <3>2 DEF BrokeOff
  <2> QED
    BY <1>3, <2>1, <2>2, <2>3 DEF AsSpoken
<1> QED
  BY <1>1, <1>2, <1>3

LEMMA LaterAsSpoken ==
  ASSUME NEW list, NEW late, NEW later, late \subseteq later, AsSpoken(list, late)
  PROVE  AsSpoken(list, later)
BY DEF AsSpoken

\* The transcript as it is shown.
LEMMA ShownIs ==
  ASSUME multiMessages \in Seq(Message), currentAgentMessage \in Message \cup {None}
  PROVE  /\ Shown \in Seq(Message)
         /\ currentAgentMessage = None => Shown = multiMessages
         /\ currentAgentMessage # None =>
              currentAgentMessage \in Message /\ Shown = Append(multiMessages, currentAgentMessage)
<1>1. CASE currentAgentMessage = None
  BY <1>1 DEF Shown
<1>2. CASE currentAgentMessage # None
  BY <1>2 DEF Shown
<1> QED
  BY <1>1, <1>2

------------------------------------------------------------------------------
(* Debate: what is on its way to the page *)

\* Read from a position to its end, a queue leads to a chunk.
ReadsTo(d, x, q, y) == q \in Seq(Chunk) /\ ReadOn(d, x, q) /\ LastRead(x, q) = y

LEMMA ReadOnAppended ==
  ASSUME NEW d, NEW x, NEW q, NEW z, ReadsTo(d, x, q, z),
         NEW y \in Chunk, Follows(d, z, y), NEW r, r = Append(q, y)
  PROVE  ReadsTo(d, x, r, y)
<1>0. q \in Seq(Chunk) /\ ReadOn(d, x, q) /\ Follows(d, LastRead(x, q), y)
  BY DEF ReadsTo
<1>1. /\ r \in Seq(Chunk) /\ Len(r) = Len(q) + 1 /\ Len(q) \in Nat /\ r # <<>>
      /\ DOMAIN q = 1..Len(q) /\ DOMAIN r = 1..(Len(q) + 1)
      /\ r[Len(q) + 1] = y /\ \A k \in DOMAIN q : r[k] = q[k]
  BY <1>0
<1>2. LastRead(x, r) = y
  BY <1>1 DEF LastRead
<1>3. ASSUME NEW k \in DOMAIN r
      PROVE  Follows(d, IF k = 1 THEN x ELSE r[k - 1], r[k])
  <2>1. CASE k \in DOMAIN q
    <3>1. k # 1 => k - 1 \in DOMAIN q
      BY <1>1, <2>1
    <3> QED
      BY <1>0, <1>1, <2>1, <3>1 DEF ReadOn
  <2>2. CASE k = Len(q) + 1
    <3>1. LastRead(x, q) = IF k = 1 THEN x ELSE q[k - 1]
      <4>1. q = <<>> <=> Len(q) = 0
        BY <1>0
      <4> QED
        BY <1>1, <2>2, <4>1 DEF LastRead
    <3>2. k # 1 => k - 1 \in DOMAIN q
      BY <1>1, <2>2
    <3> QED
      BY <1>0, <1>1, <2>2, <3>1, <3>2
  <2> QED
    BY <1>1, <2>1, <2>2
<1>4. ReadOn(d, x, r)
  BY <1>3 DEF ReadOn
<1> QED
  BY <1>1, <1>2, <1>4 DEF ReadsTo

\* What is followed, and where the worker is, depends on a chunk's turn and kind only.
Alike(x, y) == x.turn = y.turn /\ x.kind = y.kind

LEMMA ReadOnTail ==
  ASSUME NEW d, NEW x, NEW q \in Seq(Chunk), q # <<>>, ReadOn(d, x, q), NEW w, WorkerAt(w, LastRead(x, q)),
         NEW y, Alike(y, Head(q)), NEW r, r = Tail(q)
  PROVE  r \in Seq(Chunk) /\ ReadOn(d, y, r) /\ WorkerAt(w, LastRead(y, r))
<1>1. /\ r \in Seq(Chunk) /\ Len(r) = Len(q) - 1 /\ Len(q) \in Nat /\ Len(q) >= 1
      /\ DOMAIN q = 1..Len(q) /\ DOMAIN r = 1..(Len(q) - 1)
      /\ Head(q) = q[1] /\ \A k \in DOMAIN r : r[k] = q[k + 1]
  OBVIOUS
<1>2. ASSUME NEW k \in DOMAIN r
      PROVE  Follows(d, IF k = 1 THEN y ELSE r[k - 1], r[k])
  <2>1. k + 1 \in DOMAIN q /\ k \in DOMAIN q /\ k + 1 # 1 /\ (k + 1) - 1 = k
    BY <1>1
  <2>2. Follows(d, q[k], q[k + 1])
    BY <2>1 DEF ReadOn
  <2>3. CASE k = 1
    BY <1>1, <2>2, <2>3 DEF Follows, Alike
  <2>4. CASE k # 1
    <3>1. k - 1 \in DOMAIN r /\ (k - 1) + 1 = k
      BY <1>1, <2>4
    <3> QED
      BY <1>1, <2>2, <2>4, <3>1
  <2> QED
    BY <2>3, <2>4
<1>3. WorkerAt(w, LastRead(y, r))
  <2>1. CASE Len(q) = 1
    <3>1. r = <<>> /\ LastRead(x, q) = Head(q)
      BY <1>1, <2>1 DEF LastRead
    <3>2. LastRead(y, r) = y
      BY <3>1 DEF LastRead
    <3> QED
      BY <3>1, <3>2 DEF WorkerAt, Alike
  <2>2. CASE Len(q) > 1
    <3>1. r # <<>> /\ Len(r) \in DOMAIN r /\ Len(r) + 1 = Len(q)
      BY <1>1, <2>2
    <3>2. LastRead(x, q) = q[Len(q)] /\ LastRead(y, r) = r[Len(r)]
      BY <3>1 DEF LastRead
    <3>3. r[Len(r)] = q[Len(q)]
      BY <1>1, <3>1
    <3> QED
      BY <3>2, <3>3
  <2> QED
    BY <1>1, <2>1, <2>2
<1> QED
  BY <1>1, <1>2, <1>3 DEF ReadOn

LEMMA PutAtEnd ==
  ASSUME NEW q \in Seq(Chunk), NEW a \in Chunk, NEW b \in Chunk, NEW c \in Chunk
  PROVE  /\ q \o <<a>> = Append(q, a)
         /\ q \o <<a, b>> = Append(Append(q, a), b)
         /\ q \o (<<>> \o <<a>>) = Append(q, a)
         /\ q \o (<<>> \o <<a, b>>) = Append(Append(q, a), b)
         /\ q \o (<<a>> \o <<b>>) = Append(Append(q, a), b)
         /\ q \o (<<a>> \o <<b, c>>) = Append(Append(Append(q, a), b), c)
<1>1. q \o <<a>> = Append(q, a) /\ Append(q, a) \in Seq(Chunk)
  OBVIOUS
<1>2. q \o <<a, b>> = Append(Append(q, a), b) /\ Append(Append(q, a), b) \in Seq(Chunk)
  OBVIOUS
<1>3. <<a>> \in Seq(Chunk) /\ <<b>> \in Seq(Chunk) /\ <<a, b>> \in Seq(Chunk)
      /\ <<b, c>> \in Seq(Chunk)
  OBVIOUS
<1>4. <<>> \o <<a>> = <<a>> /\ <<>> \o <<a, b>> = <<a, b>>
  BY <1>3, ConcatEmptySeq
<1>5. /\ q \o (<<a>> \o <<b>>) = Append(q, a) \o <<b>>
      /\ q \o (<<a>> \o <<b, c>>) = Append(q, a) \o <<b, c>>
  <2>1. \A s, t \in Seq(Chunk) : (q \o s) \o t = q \o (s \o t)
    BY ConcatAssociative
  <2>2. PICK first \in Seq(Chunk) : first = <<a>>
    BY <1>3
  <2>3. PICK one \in Seq(Chunk) : one = <<b>>
    BY <1>3
  <2>4. PICK two \in Seq(Chunk) : two = <<b, c>>
    BY <1>3
  <2>5. q \o (first \o one) = Append(q, a) \o one /\ q \o (first \o two) = Append(q, a) \o two
    <3>1. q \o first = Append(q, a)
      BY <1>1, <2>2
    <3>2. (q \o first) \o one = q \o (first \o one)
      BY <2>1, <2>2, <2>3
    <3>3. (q \o first) \o two = q \o (first \o two)
      BY <2>1, <2>2, <2>4
    <3> QED
      BY <3>1, <3>2, <3>3, Zenon
  <2> QED
    BY <2>2, <2>3, <2>4, <2>5
<1>6. \A p \in Seq(Chunk) :
        p \o <<b>> = Append(p, b) /\ p \o <<b, c>> = Append(Append(p, b), c)
  OBVIOUS
<1> QED
  BY <1>1, <1>2, <1>4, <1>5, <1>6

LEMMA ChunkTypes ==
  /\ system_chunk \in Chunk /\ system_chunk.kind = "chunk" /\ system_chunk.turn = 0
  /\ system_chunk.agent = 0
  /\ final_chunk \in Chunk /\ final_chunk.kind = "end"
  /\ \A d \in Debates, turn \in 1..Turns :
       /\ stream_chunk(d, turn) \in Chunk /\ stream_chunk(d, turn).kind = "chunk"
       /\ stream_chunk(d, turn).turn = turn
       /\ stream_chunk(d, turn).agent = agent_id(d, Speaker(turn))
       /\ turn_complete(d, turn) \in Chunk /\ turn_complete(d, turn).kind = "turn_complete"
       /\ turn_complete(d, turn).turn = turn
       /\ turn_complete(d, turn).agent = agent_id(d, Speaker(turn))
<1>1. /\ system_chunk \in Chunk /\ system_chunk.kind = "chunk" /\ system_chunk.turn = 0
      /\ system_chunk.agent = 0 /\ final_chunk \in Chunk /\ final_chunk.kind = "end"
  BY TurnsType DEF system_chunk, final_chunk, Chunk
<1>2. ASSUME NEW d \in Debates, NEW turn \in 1..Turns
      PROVE  /\ stream_chunk(d, turn) \in Chunk /\ stream_chunk(d, turn).kind = "chunk"
             /\ stream_chunk(d, turn).turn = turn
             /\ stream_chunk(d, turn).agent = agent_id(d, Speaker(turn))
             /\ turn_complete(d, turn) \in Chunk /\ turn_complete(d, turn).kind = "turn_complete"
             /\ turn_complete(d, turn).turn = turn
             /\ turn_complete(d, turn).agent = agent_id(d, Speaker(turn))
  <2>1. agent_id(d, Speaker(turn)) \in Agents /\ turn \in 0..Turns
    BY SpeakerType, AgentIdType, TurnsType
  <2> QED
    BY <2>1 DEF stream_chunk, turn_complete, Chunk
<1> QED
  BY <1>1, <1>2

------------------------------------------------------------------------------
(* Debate: the server's steps *)

Workers == [pc : {"off", "preflight", "speaking", "ended"}, turn : 0..Turns + 1,
            said : 0..MaxChunks]

\* What a step of a stream's server must show.
Served(s, w, q) ==
  /\ w \in Workers /\ q \in Seq(Chunk)
  /\ w.pc = "speaking" => w.turn \in 1..Turns
  /\ s \in Live \ disturbed =>
       ReadOn(s, Position(s), q) /\ WorkerAt(w, LastRead(Position(s), q))

LEMMA ServerStep ==
  ASSUME DebateIInv, UNCHANGED ui, NEW s \in Streams, stream[s] # "idle",
         NEW w, NEW q, Served(s, w, q),
         worker' = [worker EXCEPT ![s] = w], queue' = [queue EXCEPT ![s] = q]
  PROVE  DebateIInv'
<1>1. /\ UNCHANGED <<messages, isThinking, isConversationActive, conversationTimeRemaining,
                     conversationTimer, conversationStatus, multiMessages, currentAgentMessage,
                     abortController, stream, disturbed>>
      /\ w \in Workers /\ q \in Seq(Chunk)
  BY DEF ui, chat, clock, transcript, Served
<1>2. Live' = Live /\ Shown' = Shown
  BY <1>1 DEF Live, Shown
<1>3. \A r \in Streams : /\ worker'[r] = IF r = s THEN w ELSE worker[r]
                         /\ queue'[r] = IF r = s THEN q ELSE queue[r]
  BY DEF DebateIInv, DebateTypeOK
<1>4. DebateTypeOK'
  <2>1. worker' \in [Streams -> Workers] /\ queue' \in [Streams -> Seq(Chunk)]
    BY <1>1 DEF DebateIInv, DebateTypeOK, Workers
  <2> QED
    BY <1>1, <2>1 DEF DebateIInv, DebateTypeOK, Workers
<1>5. \A r \in Streams : worker'[r].pc = "speaking" => worker'[r].turn \in 1..Turns
  BY <1>3 DEF DebateIInv, Served
<1>6. \A r \in Streams : Unopened(r)'
  BY <1>1, <1>2, <1>3 DEF DebateIInv, Unopened
<1>7. ASSUME NEW d \in (Live \ disturbed)'
      PROVE  HasThePage(d)' /\ GoesOn(d)'
  <2>1. d \in Live \ disturbed /\ d \in Streams
    BY <1>1, <1>2, <1>7 DEF Live, Streams
  <2>2. HasThePage(d) /\ GoesOn(d)
    BY <2>1 DEF DebateIInv
  <2>3. HasThePage(d)'
    BY <1>1, <1>2, <2>2 DEF HasThePage
  <2>4. Position(d)' = Position(d)
    BY <1>1, <1>2 DEF Position
  <2>5. ReadOn(d, Position(d), queue'[d]) /\ WorkerAt(worker'[d], LastRead(Position(d), queue'[d]))
    BY <1>3, <2>1, <2>2 DEF GoesOn, Served
  <2> QED
    BY <1>1, <1>2, <2>2, <2>3, <2>4, <2>5 DEF GoesOn
<1>8. AsSpoken(Shown, disturbed)'
  BY <1>1, <1>2 DEF DebateIInv
<1> QED
  BY <1>1, <1>2, <1>4, <1>5, <1>6, <1>7, <1>8 DEF DebateIInv

\* A worker that is at work has a stream that has been opened, and its queue a type.
LEMMA AtWork ==
  ASSUME DebateIInv, NEW s \in Streams, worker[s].pc \in {"preflight", "speaking"}
  PROVE  /\ stream[s] # "idle" /\ worker[s] \in Workers /\ queue[s] \in Seq(Chunk)
         /\ worker[s].pc = "speaking" => worker[s].turn \in 1..Turns
         /\ s \in Live \ disturbed =>
              /\ ReadOn(s, Position(s), queue[s])
              /\ WorkerAt(worker[s], LastRead(Position(s), queue[s]))
BY DEF DebateIInv, DebateTypeOK, Unopened, Workers, GoesOn

LEMMA OverType == Over \in Workers /\ Over.pc = "ended"
BY TurnsType DEF Over, Workers

\* The worker breaks off, from wherever it is.
LEMMA BreaksOff ==
  ASSUME DebateIInv, NEW d \in Debates, worker[d].pc \in {"preflight", "speaking"},
         NEW q, q = queue[d] \o <<system_chunk, final_chunk>>
  PROVE  Served(d, Over, q)
<1>1. d \in Streams
  BY DEF Streams
<1>2. PICK before \in Seq(Chunk) : before = queue[d]
  BY <1>1, AtWork
<1>a. PICK broken \in Chunk : broken = system_chunk
  BY ChunkTypes
<1>b. PICK last \in Chunk : last = final_chunk
  BY ChunkTypes
<1>c. PICK one : one = Append(before, broken)
  OBVIOUS
<1>3. one \in Seq(Chunk) /\ q = Append(one, last) /\ q \in Seq(Chunk)
  <2>1. one \in Seq(Chunk)
    BY <1>c
  <2>2. q = Append(one, last)
    BY <1>2, <1>a, <1>b, <1>c, PutAtEnd
  <2>3. Append(one, last) \in Seq(Chunk)
    BY <1>b, <2>1
  <2> QED
    BY <2>1, <2>2, <2>3
<1>4. ASSUME d \in Live \ disturbed
      PROVE  ReadOn(d, Position(d), q) /\ WorkerAt(Over, LastRead(Position(d), q))
  <2>1. PICK x : x = Position(d)
    OBVIOUS
  <2>2. PICK z : z = LastRead(x, before)
    OBVIOUS
  <2>3. ReadsTo(d, x, before, z) /\ WorkerAt(worker[d], z)
    BY <1>1, <1>2, <1>4, <2>1, <2>2, AtWork DEF ReadsTo
  <2>4. Follows(d, z, broken)
    <3>1. worker[d].pc = "speaking" => worker[d].turn \in 1..Turns
      BY <1>1, AtWork
    <3> QED
      BY <1>a, <2>3, <3>1, ChunkTypes, TurnsType DEF WorkerAt, Follows
  <2>5. ReadsTo(d, x, one, broken)
    BY <1>c, <2>3, <2>4, ReadOnAppended
  <2>6. Follows(d, broken, last)
    BY <1>a, <1>b, ChunkTypes DEF Follows
  <2>7. ReadsTo(d, x, q, last)
    BY <1>3, <2>5, <2>6, ReadOnAppended
  <2>8. ReadOn(d, x, q) /\ LastRead(x, q) = last
    BY <2>7 DEF ReadsTo
  <2> QED
    BY <1>b, <2>1, <2>8, ChunkTypes, OverType DEF WorkerAt
<1> QED
  BY <1>3, <1>4, OverType DEF Served

LEMMA PreflightStep ==
  ASSUME NEW d \in Debates
  PROVE  DebateIInv /\ preflight(d) => DebateIInv'
<1> SUFFICES ASSUME DebateIInv, preflight(d) PROVE DebateIInv'
  OBVIOUS
<1>1. d \in Streams /\ worker[d].pc = "preflight" /\ UNCHANGED ui
  BY DEF preflight, Streams
<1>2. stream[d] # "idle" /\ queue[d] \in Seq(Chunk) /\ worker[d] \in Workers
  BY <1>1, AtWork
<1>3. CASE /\ worker' = [worker EXCEPT ![d] = [pc |-> "speaking", turn |-> 1, said |-> 0]]
           /\ UNCHANGED queue
  <2>0. PICK w : w = [pc |-> "speaking", turn |-> 1, said |-> 0]
    OBVIOUS
  <2>1. w \in Workers /\ w.pc = "speaking" /\ w.turn = 1 /\ w.said = 0 /\ 1 \in 1..Turns
    BY <2>0, TurnsType DEF Workers
  <2>2. queue' = [queue EXCEPT ![d] = queue[d]]
    BY <1>1, <1>3 DEF DebateIInv, DebateTypeOK
  <2>3. d \in Live \ disturbed =>
          ReadOn(d, Position(d), queue[d]) /\ WorkerAt(w, LastRead(Position(d), queue[d]))
    BY <1>1, <2>1, AtWork DEF WorkerAt
  <2>4. Served(d, w, queue[d])
    BY <1>2, <2>1, <2>3 DEF Served
  <2>5. worker' = [worker EXCEPT ![d] = w]
    BY <1>3, <2>0
  <2> QED
    BY <1>1, <1>2, <2>2, <2>4, <2>5, ServerStep
<1>4. CASE Ended(d) /\ put(d, <<system_chunk, final_chunk>>)
  <2>1. PICK q : q = queue[d] \o <<system_chunk, final_chunk>>
    OBVIOUS
  <2>2. Served(d, Over, q)
    BY <1>1, <2>1, BreaksOff
  <2> QED
    BY <1>1, <1>2, <1>4, <2>1, <2>2, ServerStep DEF Ended, put
<1> QED
  BY <1>3, <1>4 DEF preflight

LEMMA LoopFailsStep ==
  ASSUME NEW d \in Debates
  PROVE  DebateIInv /\ loop_fails(d) => DebateIInv'
<1> SUFFICES ASSUME DebateIInv, loop_fails(d) PROVE DebateIInv'
  OBVIOUS
<1>1. /\ d \in Streams /\ worker[d].pc = "speaking" /\ UNCHANGED ui
      /\ Ended(d) /\ put(d, <<system_chunk, final_chunk>>)
  BY DEF loop_fails, Streams
<1>2. PICK q : q = queue[d] \o <<system_chunk, final_chunk>>
  OBVIOUS
<1>3. Served(d, Over, q) /\ stream[d] # "idle"
  BY <1>1, <1>2, BreaksOff, AtWork
<1> QED
  BY <1>1, <1>2, <1>3, ServerStep DEF Ended, put

\* One chunk more of the turn.
LEMMA SpokenOn ==
  ASSUME DebateIInv, NEW d \in Debates, worker[d].pc = "speaking",
         NEW turn, turn = worker[d].turn, NEW q, q = Append(queue[d], stream_chunk(d, turn))
  PROVE  /\ q \in Seq(Chunk)
         /\ d \in Live \ disturbed =>
              /\ ReadOn(d, Position(d), q)
              /\ LastRead(Position(d), q) = stream_chunk(d, turn)
<1>1. d \in Streams
  BY DEF Streams
<1>2. queue[d] \in Seq(Chunk) /\ turn \in 1..Turns
  BY <1>1, AtWork
<1>3. PICK item \in Chunk : item = stream_chunk(d, turn)
  BY <1>2, ChunkTypes
<1>4. q \in Seq(Chunk) /\ q = Append(queue[d], item)
  BY <1>2, <1>3
<1>5. ASSUME d \in Live \ disturbed
      PROVE  ReadOn(d, Position(d), q) /\ LastRead(Position(d), q) = stream_chunk(d, turn)
  <2>1. PICK x : x = Position(d)
    OBVIOUS
  <2>6. PICK before \in Seq(Chunk) : before = queue[d]
    BY <1>2
  <2>3. PICK last : last = LastRead(x, before)
    OBVIOUS
  <2>2. ReadsTo(d, x, before, last) /\ WorkerAt(worker[d], last)
    BY <1>1, <1>5, <2>1, <2>3, <2>6, AtWork DEF ReadsTo
  <2>4. \/ last.kind = "turn_complete" /\ last.turn = turn - 1
        \/ last.kind = "chunk" /\ last.turn = turn
    BY <2>2, <2>3 DEF WorkerAt
  <2>5. Follows(d, last, item)
    BY <1>2, <1>3, <2>4, ChunkTypes DEF Follows
  <2>7. ReadsTo(d, x, q, item)
    BY <1>4, <2>2, <2>5, <2>6, ReadOnAppended
  <2> QED
    BY <1>3, <2>1, <2>7 DEF ReadsTo
<1> QED
  BY <1>4, <1>5

LEMMA SpeakStep ==
  ASSUME NEW d \in Debates
  PROVE  DebateIInv /\ speak(d) => DebateIInv'
<1> SUFFICES ASSUME DebateIInv, speak(d) PROVE DebateIInv'
  OBVIOUS
<1>1. /\ d \in Streams /\ worker[d].pc = "speaking" /\ worker[d].said < MaxChunks /\ UNCHANGED ui
      /\ worker' = [worker EXCEPT ![d].said = @ + 1]
      /\ put(d, <<stream_chunk(d, worker[d].turn)>>)
  BY DEF speak, Streams
<1>2. /\ stream[d] # "idle" /\ queue[d] \in Seq(Chunk) /\ worker[d] \in Workers
      /\ worker[d].turn \in 1..Turns
  BY <1>1, AtWork
<1>3. PICK turn \in 1..Turns : turn = worker[d].turn
  BY <1>2
<1>4. PICK q : q = Append(queue[d], stream_chunk(d, turn))
  OBVIOUS
<1>5. PICK w : w = [worker[d] EXCEPT !.said = @ + 1]
  OBVIOUS
<1>6. w \in Workers /\ w.pc = "speaking" /\ w.turn = turn /\ w.said # 0
  BY <1>1, <1>2, <1>3, <1>5, TurnsType DEF Workers
<1>7. worker' = [worker EXCEPT ![d] = w]
  BY <1>1, <1>5
<1>8. stream_chunk(d, turn) \in Chunk /\ stream_chunk(d, turn).kind = "chunk"
      /\ stream_chunk(d, turn).turn = turn
  BY ChunkTypes
<1>9. queue' = [queue EXCEPT ![d] = q]
  BY <1>1, <1>2, <1>3, <1>4, <1>8, PutAtEnd DEF put
<1>10. /\ q \in Seq(Chunk)
       /\ d \in Live \ disturbed =>
            ReadOn(d, Position(d), q) /\ LastRead(Position(d), q) = stream_chunk(d, turn)
  BY <1>1, <1>3, <1>4, SpokenOn
<1>11. Served(d, w, q)
  BY <1>6, <1>8, <1>10 DEF Served, WorkerAt
<1> QED
  BY <1>1, <1>2, <1>7, <1>9, <1>11, ServerStep

\* The end of a turn after what it has said, and of the stream after the last.
LEMMA TurnEnds ==
  ASSUME DebateIInv, NEW d \in Debates, NEW turn \in 1..Turns, NEW w, NEW q \in Seq(Chunk),
         d \in Live \ disturbed =>
           /\ ReadOn(d, Position(d), q)
           /\ LastRead(Position(d), q).kind = "chunk" /\ LastRead(Position(d), q).turn = turn,
         NEW r,
         \/ /\ turn < Turns /\ r = Append(q, turn_complete(d, turn))
            /\ w \in Workers /\ w.pc = "speaking" /\ w.turn = turn + 1 /\ w.said = 0
         \/ r = Append(Append(q, turn_complete(d, turn)), final_chunk) /\ w = Over
  PROVE  Served(d, w, r)
<1>a. PICK complete \in Chunk : complete = turn_complete(d, turn)
  BY ChunkTypes
<1>b. PICK end \in Chunk : end = final_chunk
  BY ChunkTypes
<1>c. PICK done : done = Append(q, complete)
  OBVIOUS
<1>1. complete.kind = "turn_complete" /\ complete.turn = turn
      /\ complete.agent = agent_id(d, Speaker(turn))
  BY <1>a, ChunkTypes
<1>2. done \in Seq(Chunk) /\ Append(done, end) \in Seq(Chunk)
  BY <1>c
<1>3. r \in Seq(Chunk)
  BY <1>2, <1>a, <1>b, <1>c
<1>4. w \in Workers /\ (w.pc = "speaking" => w.turn \in 1..Turns)
  BY OverType, TurnsType
<1>5. ASSUME d \in Live \ disturbed
      PROVE  ReadOn(d, Position(d), r) /\ WorkerAt(w, LastRead(Position(d), r))
  <2>1. PICK x : x = Position(d)
    OBVIOUS
  <2>2. PICK last : last = LastRead(x, q)
    OBVIOUS
  <2>3. ReadsTo(d, x, q, last) /\ last.kind = "chunk" /\ last.turn = turn
    BY <1>5, <2>1, <2>2 DEF ReadsTo
  <2>4. Follows(d, last, complete)
    BY <1>1, <2>3 DEF Follows
  <2>5. ReadsTo(d, x, done, complete)
    BY <1>c, <2>3, <2>4, ReadOnAppended
  <2>6. CASE turn < Turns /\ r = done /\ w.pc = "speaking" /\ w.turn = turn + 1 /\ w.said = 0
    BY <1>1, <1>4, <2>1, <2>5, <2>6 DEF WorkerAt, ReadsTo
  <2>7. CASE r = Append(done, end) /\ w = Over
    <3>1. Follows(d, complete, end)
      BY <1>1, <1>b, ChunkTypes DEF Follows
    <3>2. ReadsTo(d, x, r, end)
      BY <2>5, <2>7, <3>1, ReadOnAppended
    <3> QED
      BY <1>b, <2>1, <2>7, <3>2, ChunkTypes, OverType DEF WorkerAt, ReadsTo
  <2> QED
    BY <1>a, <1>b, <1>c, <2>6, <2>7
<1> QED
  BY <1>3, <1>4, <1>5 DEF Served

LEMMA EndTurnStep ==
  ASSUME NEW d \in Debates
  PROVE  DebateIInv /\ end_turn(d) => DebateIInv'
<1> SUFFICES ASSUME DebateIInv, end_turn(d) PROVE DebateIInv'
  OBVIOUS
<1>1. d \in Streams /\ worker[d].pc = "speaking" /\ UNCHANGED ui
  BY DEF end_turn, Streams
<1>2. /\ stream[d] # "idle" /\ queue[d] \in Seq(Chunk) /\ worker[d] \in Workers
      /\ worker[d].turn \in 1..Turns
  BY <1>1, AtWork
<1>3. PICK turn \in 1..Turns : turn = worker[d].turn
  BY <1>2
<1>4. PICK text : text = IF worker[d].said = 0 THEN <<stream_chunk(d, turn)>> ELSE <<>>
  OBVIOUS
<1>5. \/ /\ turn < Turns
         /\ worker' = [worker EXCEPT ![d] = [@ EXCEPT !.turn = turn + 1, !.said = 0]]
         /\ put(d, text \o <<turn_complete(d, turn)>>)
      \/ Ended(d) /\ put(d, text \o <<turn_complete(d, turn), final_chunk>>)
  BY <1>3, <1>4 DEF end_turn
<1>6. PICK q : q = IF worker[d].said = 0 THEN Append(queue[d], stream_chunk(d, turn)) ELSE queue[d]
  OBVIOUS
<1>7. /\ stream_chunk(d, turn) \in Chunk /\ stream_chunk(d, turn).kind = "chunk"
      /\ stream_chunk(d, turn).turn = turn
      /\ turn_complete(d, turn) \in Chunk /\ final_chunk \in Chunk
  BY ChunkTypes
<1>8. /\ q \in Seq(Chunk)
      /\ d \in Live \ disturbed =>
           /\ ReadOn(d, Position(d), q)
           /\ LastRead(Position(d), q).kind = "chunk" /\ LastRead(Position(d), q).turn = turn
  <2>1. CASE worker[d].said = 0
    BY <1>1, <1>3, <1>6, <1>7, <2>1, SpokenOn
  <2>2. CASE worker[d].said # 0
    <3>1. q = queue[d]
      BY <1>6, <2>2
    <3>2. d \in Live \ disturbed =>
            /\ ReadOn(d, Position(d), queue[d])
            /\ WorkerAt(worker[d], LastRead(Position(d), queue[d]))
      BY <1>1, AtWork
    <3> QED
      BY <1>1, <1>2, <1>3, <2>2, <3>1, <3>2 DEF WorkerAt
  <2> QED
    BY <2>1, <2>2
<1>9. queue[d] \o (text \o <<turn_complete(d, turn)>>) = Append(q, turn_complete(d, turn))
  BY <1>2, <1>4, <1>6, <1>7, PutAtEnd
<1>10. queue[d] \o (text \o <<turn_complete(d, turn), final_chunk>>)
         = Append(Append(q, turn_complete(d, turn)), final_chunk)
  <2>1. PICK before \in Seq(Chunk), a \in Chunk, b \in Chunk, c \in Chunk :
          /\ before = queue[d] /\ a = stream_chunk(d, turn)
          /\ b = turn_complete(d, turn) /\ c = final_chunk
    BY <1>2, <1>7
  <2>2. /\ before \o (<<>> \o <<b, c>>) = Append(Append(before, b), c)
        /\ before \o (<<a>> \o <<b, c>>) = Append(Append(Append(before, a), b), c)
    BY PutAtEnd
  <2>3. CASE worker[d].said = 0
    <3>1. text = <<a>> /\ q = Append(before, a)
      BY <1>4, <1>6, <2>1, <2>3
    <3> QED
      BY <2>1, <2>2, <3>1
  <2>4. CASE worker[d].said # 0
    <3>1. text = <<>> /\ q = before
      BY <1>4, <1>6, <2>1, <2>4
    <3> QED
      BY <2>1, <2>2, <3>1
  <2> QED
    BY <2>3, <2>4
<1>11. CASE /\ turn < Turns
            /\ worker' = [worker EXCEPT ![d] = [@ EXCEPT !.turn = turn + 1, !.said = 0]]
            /\ put(d, text \o <<turn_complete(d, turn)>>)
  <2>1. PICK w : w = [worker[d] EXCEPT !.turn = turn + 1, !.said = 0]
    OBVIOUS
  <2>2. w \in Workers /\ w.pc = "speaking" /\ w.turn = turn + 1 /\ w.said = 0
    <3>1. turn + 1 \in 0..Turns + 1 /\ 0 \in 0..MaxChunks
      BY <1>11, TurnsType
    <3> QED
      BY <1>1, <1>2, <2>1, <3>1 DEF Workers
  <2>3. PICK r : r = Append(q, turn_complete(d, turn))
    OBVIOUS
  <2>4. Served(d, w, r)
    BY <1>8, <1>11, <2>2, <2>3, TurnEnds
  <2>5. worker' = [worker EXCEPT ![d] = w] /\ queue' = [queue EXCEPT ![d] = r]
    BY <1>9, <1>11, <2>1, <2>3 DEF put
  <2> QED
    BY <1>1, <1>2, <2>4, <2>5, ServerStep
<1>12. CASE Ended(d) /\ put(d, text \o <<turn_complete(d, turn), final_chunk>>)
  <2>1. PICK r : r = Append(Append(q, turn_complete(d, turn)), final_chunk)
    OBVIOUS
  <2>2. Served(d, Over, r)
    BY <1>8, <2>1, TurnEnds
  <2>3. worker' = [worker EXCEPT ![d] = Over] /\ queue' = [queue EXCEPT ![d] = r]
    BY <1>10, <1>12, <2>1 DEF put, Ended
  <2> QED
    BY <1>1, <1>2, <2>2, <2>3, ServerStep
<1> QED
  BY <1>5, <1>11, <1>12

LEMMA AnswerStep ==
  ASSUME NEW c \in Chats
  PROVE  DebateIInv /\ (answer_chunk(c) \/ answer_end(c)) => DebateIInv'
<1> SUFFICES ASSUME DebateIInv, answer_chunk(c) \/ answer_end(c) PROVE DebateIInv'
  OBVIOUS
<1>1. c \in Streams /\ worker[c].pc = "preflight" /\ UNCHANGED ui /\ c \notin Live
  BY StreamsAssumption DEF answer_chunk, answer_end, Streams, Live
<1>2. stream[c] # "idle" /\ queue[c] \in Seq(Chunk) /\ worker[c] \in Workers
  BY <1>1, AtWork
<1>3. CASE answer_chunk(c)
  <2>1. PICK w : w = [worker[c] EXCEPT !.said = @ + 1]
    OBVIOUS
  <2>2. w \in Workers /\ w.pc = "preflight"
    BY <1>1, <1>2, <1>3, <2>1, TurnsType DEF Workers, answer_chunk
  <2>3. PICK q : q = Append(queue[c], system_chunk)
    OBVIOUS
  <2>4. q \in Seq(Chunk) /\ q = queue[c] \o <<system_chunk>>
    BY <1>2, <2>3, ChunkTypes, PutAtEnd
  <2>5. Served(c, w, q)
    BY <1>1, <2>2, <2>4 DEF Served
  <2>6. worker' = [worker EXCEPT ![c] = w] /\ queue' = [queue EXCEPT ![c] = q]
    BY <1>3, <2>1, <2>4 DEF answer_chunk, put
  <2> QED
    BY <1>1, <1>2, <2>5, <2>6, ServerStep
<1>4. CASE answer_end(c)
  <2>1. PICK q : q = Append(queue[c], final_chunk)
    OBVIOUS
  <2>2. q \in Seq(Chunk) /\ q = queue[c] \o <<final_chunk>>
    BY <1>2, <2>1, ChunkTypes, PutAtEnd
  <2>3. Served(c, Over, q)
    BY <1>1, <2>2, OverType DEF Served
  <2>4. worker' = [worker EXCEPT ![c] = Over] /\ queue' = [queue EXCEPT ![c] = q]
    BY <1>4, <2>2 DEF answer_end, put, Ended
  <2> QED
    BY <1>1, <1>2, <2>3, <2>4, ServerStep
<1> QED
  BY <1>3, <1>4

------------------------------------------------------------------------------
(* Debate: the page's steps *)

PageTypes ==
  /\ messages \in {"none", "user", "assistant", "system"}
  /\ {isThinking, isConversationActive, conversationTimer} \subseteq BOOLEAN
  /\ conversationTimeRemaining \in 0..Limit /\ conversationStatus \in Statuses
  /\ abortController \in Streams \cup {None}
  /\ isConversationActive => conversationTimeRemaining # 0

StreamTypes ==
  /\ stream \in [Streams -> {"idle", "open", "closed"}]
  /\ worker \in [Streams -> Workers] /\ queue \in [Streams -> Seq(Chunk)]
  /\ \A s \in Streams : worker[s].pc = "speaking" => worker[s].turn \in 1..Turns

TranscriptTypes ==
  /\ multiMessages \in Seq(Message) /\ currentAgentMessage \in Message \cup {None}
  /\ disturbed \subseteq Debates

LEMMA FreshPage ==
  /\ Limit \in 0..Limit /\ Limit # 0
  /\ "" \in Statuses /\ "Connecting" \in Statuses
  /\ <<>> \in Seq(Message) /\ <<>> \in Seq(Chunk)
<1>1. Limit \in 0..Limit /\ Limit # 0
  BY TurnsType
<1>2. "" \in Statuses /\ "Connecting" \in Statuses
  BY DEF Statuses
<1>3. <<>> \in Seq(Message) /\ <<>> \in Seq(Chunk)
  OBVIOUS
<1> QED
  BY <1>1, <1>2, <1>3

\* The invariant, in the parts that the page's steps disturb together.
LEMMA InParts ==
  DebateIInv <=>
    /\ PageTypes /\ StreamTypes /\ TranscriptTypes
    /\ \A s \in Streams : Unopened(s)
    /\ \A d \in Live \ disturbed : HasThePage(d) /\ GoesOn(d)
    /\ currentAgentMessage # None /\ currentAgentMessage.of \notin disturbed =>
         Live \subseteq {currentAgentMessage.of}
    /\ AsSpoken(Shown, disturbed)
BY DEF DebateIInv, DebateTypeOK, PageTypes, StreamTypes, TranscriptTypes, Workers

LEMMA InPartsNext ==
  ASSUME PageTypes', StreamTypes', TranscriptTypes',
         \A s \in Streams : Unopened(s)',
         \A d \in Live' \ disturbed' : HasThePage(d)' /\ GoesOn(d)',
         currentAgentMessage' # None /\ currentAgentMessage'.of \notin disturbed' =>
           Live' \subseteq {currentAgentMessage'.of},
         AsSpoken(Shown', disturbed')
  PROVE  DebateIInv'
BY DEF DebateIInv, DebateTypeOK, PageTypes, StreamTypes, TranscriptTypes, Workers

\* A step after which no live debate has the page to itself, and which says nothing.
LEMMA PageIsLeft ==
  ASSUME DebateIInv, PageTypes', StreamTypes', TranscriptTypes',
         \A s \in Streams : stream'[s] = "idle" =>
           stream[s] = "idle" /\ worker'[s] = worker[s] /\ queue'[s] = queue[s],
         Live' \subseteq Live, Live' \subseteq disturbed', disturbed \subseteq disturbed',
         currentAgentMessage' \in {currentAgentMessage, None},
         \A j \in DOMAIN Shown' : \E k \in DOMAIN Shown : Shown'[j].of = Shown[k].of,
         AsSpoken(Shown', disturbed')
  PROVE  DebateIInv'
<1>1. \A s \in Streams : Unopened(s)'
  BY DEF DebateIInv, Unopened
<1>2. (Live \ disturbed)' = {}
  OBVIOUS
<1>3. (currentAgentMessage # None /\ currentAgentMessage.of \notin disturbed =>
         Live \subseteq {currentAgentMessage.of})'
  BY DEF DebateIInv
<1>4. AsSpoken(Shown, disturbed)'
  OBVIOUS
<1> QED
  BY <1>1, <1>2, <1>3, <1>4, InPartsNext

\* The transcript as it is, without the message being spoken, and none.
LEMMA ShownStays ==
  ASSUME DebateIInv, UNCHANGED transcript, disturbed \subseteq disturbed'
  PROVE  /\ currentAgentMessage' \in {currentAgentMessage, None}
         /\ \A j \in DOMAIN Shown' : \E k \in DOMAIN Shown : Shown'[j].of = Shown[k].of
         /\ AsSpoken(Shown', disturbed')
<1>1. Shown' = Shown /\ currentAgentMessage' = currentAgentMessage
  BY DEF Shown, transcript
<1>2. AsSpoken(Shown, disturbed')
  BY LaterAsSpoken DEF DebateIInv
<1> QED
  BY <1>1, <1>2

LEMMA ShownIsCut ==
  ASSUME DebateIInv, multiMessages' \in {multiMessages, <<>>}, currentAgentMessage' = None,
         disturbed \subseteq disturbed'
  PROVE  /\ Shown' = multiMessages'
         /\ \A j \in DOMAIN Shown' : \E k \in DOMAIN Shown : Shown'[j].of = Shown[k].of
         /\ AsSpoken(Shown', disturbed')
<1>1. multiMessages \in Seq(Message) /\ currentAgentMessage \in Message \cup {None}
      /\ AsSpoken(Shown, disturbed)
  BY DEF DebateIInv, DebateTypeOK
<1>2. Shown' = multiMessages'
  BY <1>1 DEF Shown
<1>3. CASE multiMessages' = <<>>
  BY <1>2, <1>3 DEF AsSpoken
<1>4. CASE multiMessages' = multiMessages
  <2>1. CASE currentAgentMessage = None
    <3>1. Shown = multiMessages
      BY <1>1, <2>1, ShownIs
    <3> QED
      BY <1>1, <1>2, <1>4, <3>1, LaterAsSpoken
  <2>2. CASE currentAgentMessage # None
    <3>1. PICK list \in Seq(Message), m \in Message, longer \in {Shown} :
            list = multiMessages /\ m = currentAgentMessage
      BY <1>1, <2>2
    <3>2. longer = Shown /\ longer = Append(list, m)
      BY <1>1, <2>2, <3>1, ShownIs
    <3>3. AsSpoken(list, disturbed) /\ OneMore(list, m, longer)
      BY <1>1, <3>1, <3>2, ShorterAsSpoken, Grown
    <3>4. \A j \in DOMAIN list : j \in DOMAIN longer /\ longer[j] = list[j]
      BY <3>3 DEF OneMore
    <3>5. AsSpoken(list, disturbed')
      BY <3>3, LaterAsSpoken
    <3> QED
      BY <1>2, <1>4, <3>1, <3>4, <3>5
  <2> QED
    BY <2>1, <2>2
<1> QED
  BY <1>1, <1>2, <1>3, <1>4

\* The end of a stream.
LEMMA Closes ==
  ASSUME DebateIInv, NEW s \in Streams, Close(s)
  PROVE  /\ StreamTypes' /\ Live' = Live \ {s}
         /\ \A r \in Streams : stream'[r] = "idle" =>
              stream[r] = "idle" /\ worker'[r] = worker[r] /\ queue'[r] = queue[r]
<1>1. StreamTypes
  BY InParts
<1>2. /\ \A r \in Streams : stream'[r] = IF r = s THEN "closed" ELSE stream[r]
      /\ \A r \in Streams : worker'[r] = IF r = s THEN Over ELSE worker[r]
      /\ \A r \in Streams : queue'[r] = IF r = s THEN <<>> ELSE queue[r]
  BY <1>1 DEF Close, StreamTypes
<1>3. StreamTypes'
  <2>1. stream' \in [Streams -> {"idle", "open", "closed"}]
    BY <1>1 DEF Close, StreamTypes
  <2>2. worker' \in [Streams -> Workers]
    BY <1>1, OverType DEF Close, StreamTypes
  <2>3. queue' \in [Streams -> Seq(Chunk)]
    BY <1>1 DEF Close, StreamTypes
  <2>4. \A r \in Streams : worker'[r].pc = "speaking" => worker'[r].turn \in 1..Turns
    BY <1>1, <1>2, OverType DEF StreamTypes
  <2> QED
    BY <2>1, <2>2, <2>3, <2>4 DEF StreamTypes
<1>4. Live' = Live \ {s}
  BY <1>2 DEF Live, Streams
<1> QED
  BY <1>2, <1>3, <1>4

\* Who closes the stream of an undisturbed debate, or takes its controller, ends it.
LEMMA OneHasThePage ==
  ASSUME DebateIInv, NEW d \in Live \ disturbed
  PROVE  /\ Live = {d} /\ abortController = d /\ isConversationActive /\ conversationTimer
         /\ \A c \in Chats : stream[c] # "open"
BY DEF DebateIInv, HasThePage

LEMMA DebateEndsStep ==
  ASSUME NEW d \in Debates
  PROVE  DebateIInv /\ (debate_concludes(d) \/ connection_breaks(d)) => DebateIInv'
<1> SUFFICES ASSUME DebateIInv, debate_concludes(d) \/ connection_breaks(d) PROVE DebateIInv'
  OBVIOUS
<1>1. /\ d \in Streams /\ stream[d] = "open" /\ Close(d)
      /\ UNCHANGED <<chat, conversationTimeRemaining, transcript, disturbed>>
      /\ Settle(conversationStatus) \/ Settle("Connection Error")
  BY DEF debate_concludes, connection_breaks, AtEnd, Streams
<1>2. /\ StreamTypes' /\ Live' = Live \ {d}
      /\ \A r \in Streams : stream'[r] = "idle" =>
           stream[r] = "idle" /\ worker'[r] = worker[r] /\ queue'[r] = queue[r]
  BY <1>1, Closes
<1>3. PageTypes'
  <2>1. PageTypes
    BY InParts
  <2> QED
    BY <1>1, <2>1 DEF PageTypes, Settle, chat, Statuses
<1>4. TranscriptTypes'
  <2>1. TranscriptTypes
    BY InParts
  <2> QED
    BY <1>1, <2>1 DEF TranscriptTypes, transcript
<1>5. Live' \subseteq disturbed'
  <2>1. d \in Live
    BY <1>1 DEF Live
  <2> QED
    BY <1>1, <1>2, <2>1, OneHasThePage
<1>6. disturbed \subseteq disturbed' /\ UNCHANGED transcript
  BY <1>1
<1> QED
  BY <1>2, <1>3, <1>4, <1>5, <1>6, ShownStays, PageIsLeft

LEMMA ChatEndStep ==
  ASSUME NEW c \in Chats
  PROVE  DebateIInv /\ chat_end(c) => DebateIInv'
<1> SUFFICES ASSUME DebateIInv, chat_end(c) PROVE DebateIInv'
  OBVIOUS
<1>1. /\ c \in Streams /\ stream[c] = "open" /\ Close(c) /\ messages' \in {messages, "system"}
      /\ isThinking' = FALSE /\ abortController' = None
      /\ UNCHANGED <<isConversationActive, clock, conversationStatus, transcript, disturbed>>
  BY DEF chat_end, Streams
<1>2. /\ StreamTypes' /\ Live' = Live \ {c}
      /\ \A r \in Streams : stream'[r] = "idle" =>
           stream[r] = "idle" /\ worker'[r] = worker[r] /\ queue'[r] = queue[r]
  BY <1>1, Closes
<1>3. PageTypes'
  <2>1. PageTypes
    BY InParts
  <2> QED
    BY <1>1, <2>1 DEF PageTypes, clock
<1>4. TranscriptTypes'
  <2>1. TranscriptTypes
    BY InParts
  <2> QED
    BY <1>1, <2>1 DEF TranscriptTypes, transcript
<1>5. Live' \subseteq disturbed'
  BY <1>1, <1>2, OneHasThePage
<1>6. disturbed \subseteq disturbed' /\ UNCHANGED transcript
  BY <1>1
<1> QED
  BY <1>2, <1>3, <1>4, <1>5, <1>6, ShownStays, PageIsLeft

\* stopMultiConversation reaches whichever debate has the page to itself.
LEMMA StopsStep ==
  ASSUME DebateIInv, NEW status \in Statuses, stopMultiConversation(status),
         messages' = messages, conversationTimeRemaining' \in 0..Limit,
         UNCHANGED <<transcript, disturbed>>
  PROVE  DebateIInv'
<1>1. PageTypes /\ StreamTypes /\ TranscriptTypes
  BY InParts
<1>2. PageTypes'
  BY <1>1 DEF stopMultiConversation, PageTypes
<1>3. TranscriptTypes'
  BY <1>1 DEF TranscriptTypes, transcript
<1>4. disturbed \subseteq disturbed' /\ UNCHANGED transcript
  OBVIOUS
<1>5. CASE abortController = None
  <2>1. UNCHANGED <<stream, worker, queue>>
    BY <1>5 DEF stopMultiConversation, server
  <2>2. StreamTypes' /\ Live' = Live
    BY <1>1, <2>1 DEF StreamTypes, Live
  <2>3. Live' \subseteq disturbed'
    <3>1. \A d \in Live : d # None
      BY NoneAssumption DEF Live, Streams
    <3> QED
      BY <1>5, <2>2, <3>1, OneHasThePage
  <2> QED
    BY <1>2, <1>3, <1>4, <2>1, <2>2, <2>3, ShownStays, PageIsLeft
<1>6. CASE abortController # None
  <2>1. PICK s \in Streams : s = abortController
    BY <1>1, <1>6 DEF PageTypes
  <2>2. Close(s)
    BY <1>6, <2>1 DEF stopMultiConversation
  <2>3. /\ StreamTypes' /\ Live' = Live \ {s}
        /\ \A r \in Streams : stream'[r] = "idle" =>
             stream[r] = "idle" /\ worker'[r] = worker[r] /\ queue'[r] = queue[r]
    BY <2>2, Closes
  <2>4. Live' \subseteq disturbed'
    BY <2>1, <2>3, OneHasThePage
  <2> QED
    BY <1>2, <1>3, <1>4, <2>3, <2>4, ShownStays, PageIsLeft
<1> QED
  BY <1>5, <1>6

LEMMA StopConversationStep == DebateIInv /\ stop => DebateIInv'
<1> SUFFICES ASSUME DebateIInv, stop PROVE DebateIInv'
  OBVIOUS
<1>1. "Debate Stopped" \in Statuses /\ conversationTimeRemaining' \in 0..Limit
  BY DEF stop, Statuses, DebateIInv, DebateTypeOK
<1> QED
  BY <1>1, StopsStep DEF stop

\* A step of the clock or of the chat that leaves streams and transcript alone.
LEMMA RestStays ==
  ASSUME DebateIInv, PageTypes',
         UNCHANGED <<isConversationActive, conversationTimer, transcript, abortController, stream,
                     server, disturbed>>
  PROVE  DebateIInv'
<1>1. StreamTypes' /\ TranscriptTypes'
  BY InParts DEF StreamTypes, TranscriptTypes, server, transcript
<1>2. UNCHANGED <<multiMessages, currentAgentMessage, worker, queue>>
  BY DEF server, transcript
<1>3. Shown' = Shown /\ Live' = Live
  BY <1>2 DEF Shown, Live
<1>4. \A s \in Streams : Unopened(s)'
  BY <1>2, <1>3 DEF DebateIInv, Unopened
<1>5. ASSUME NEW d \in (Live \ disturbed)'
      PROVE  HasThePage(d)' /\ GoesOn(d)'
  <2>1. HasThePage(d) /\ GoesOn(d)
    BY <1>3, <1>5 DEF DebateIInv
  <2>2. HasThePage(d)'
    BY <1>2, <1>3, <2>1 DEF HasThePage
  <2>3. Position(d)' = Position(d)
    BY <1>2, <1>3 DEF Position
  <2> QED
    BY <1>2, <1>3, <2>1, <2>2, <2>3 DEF GoesOn
<1>6. AsSpoken(Shown, disturbed)'
  BY <1>3 DEF DebateIInv
<1>7. (currentAgentMessage # None /\ currentAgentMessage.of \notin disturbed =>
         Live \subseteq {currentAgentMessage.of})'
  BY <1>2, <1>3 DEF DebateIInv
<1> QED
  BY <1>1, <1>4, <1>5, <1>6, <1>7, InPartsNext

LEMMA TickStep == DebateIInv /\ tick => DebateIInv'
<1> SUFFICES ASSUME DebateIInv, tick PROVE DebateIInv'
  OBVIOUS
<1>1. PageTypes
  BY InParts
<1>2. conversationTimeRemaining \in 1..Limit
  <2>1. isConversationActive /\ conversationTimeRemaining \in 0..Limit
        /\ (isConversationActive => conversationTimeRemaining # 0)
    BY <1>1 DEF PageTypes, tick
  <2> QED
    BY <2>1, TurnsType
<1>3. conversationTimeRemaining' \in 0..Limit /\ UNCHANGED <<messages, transcript, disturbed>>
  <2>1. conversationTimeRemaining' = conversationTimeRemaining - 1
    BY DEF tick
  <2>2. conversationTimeRemaining' \in 0..Limit
    BY <1>2, <2>1, TurnsType
  <2>3. UNCHANGED <<messages, transcript, disturbed>>
    BY DEF tick
  <2> QED
    BY <2>2, <2>3
<1>4. CASE conversationTimeRemaining = 1
  <2>1. "Debate Time Limit Reached" \in Statuses
    BY DEF Statuses
  <2> QED
    BY <1>3, <1>4, <2>1, StopsStep DEF tick
<1>5. CASE conversationTimeRemaining # 1
  <2>1. UNCHANGED <<isConversationActive, conversationTimer, conversationStatus, abortController,
                    stream, server, isThinking>>
    BY <1>5 DEF tick
  <2>2. conversationTimeRemaining' # 0
    BY <1>2, <1>5, TurnsType DEF tick
  <2>3. PageTypes'
    BY <1>1, <1>3, <2>1, <2>2 DEF PageTypes
  <2> QED
    BY <1>3, <2>1, <2>3, RestStays
<1> QED
  BY <1>4, <1>5

LEMMA ClearChatStep == DebateIInv /\ clear_chat => DebateIInv'
<1> SUFFICES ASSUME DebateIInv, clear_chat PROVE DebateIInv'
  OBVIOUS
<1>1. PageTypes
  BY InParts
<1>2. messages' = "none" /\ UNCHANGED <<isThinking, isConversationActive, clock, conversationStatus,
        transcript, abortController, stream, server, disturbed>>
  BY DEF clear_chat
<1>3. PageTypes'
  BY <1>1, <1>2 DEF PageTypes, clock
<1> QED
  BY <1>2, <1>3, RestStays DEF clock

LEMMA NothingMoves == DebateIInv /\ UNCHANGED debate_vars => DebateIInv'
<1> SUFFICES ASSUME DebateIInv, UNCHANGED debate_vars PROVE DebateIInv'
  OBVIOUS
<1>1. PageTypes
  BY InParts
<1>2. PageTypes'
  BY <1>1 DEF PageTypes, debate_vars
<1> QED
  BY <1>2, RestStays DEF debate_vars, transcript, server

LEMMA ClearDebateStep == DebateIInv /\ clearMultiDebate => DebateIInv'
<1> SUFFICES ASSUME DebateIInv, clearMultiDebate PROVE DebateIInv'
  OBVIOUS
<1>1. /\ ~isConversationActive /\ multiMessages' = <<>> /\ currentAgentMessage' = None
      /\ conversationStatus' = "" /\ conversationTimeRemaining' = Limit
      /\ UNCHANGED <<chat, isConversationActive, conversationTimer, abortController, stream,
                     server, disturbed>>
  BY DEF clearMultiDebate
<1>2. UNCHANGED <<stream, worker, queue, disturbed>> /\ Live' = Live
  BY <1>1 DEF server, Live
<1>3. PageTypes /\ StreamTypes /\ TranscriptTypes
  BY InParts
<1>4. PageTypes'
  BY <1>1, <1>3, FreshPage DEF PageTypes, chat
<1>5. StreamTypes'
  BY <1>2, <1>3 DEF StreamTypes
<1>6. TranscriptTypes'
  BY <1>1, <1>2, <1>3, FreshPage DEF TranscriptTypes
<1>7. Live' \subseteq disturbed'
  BY <1>1, <1>2, OneHasThePage
<1> QED
  BY <1>1, <1>2, <1>4, <1>5, <1>6, <1>7, ShownIsCut, PageIsLeft

LEMMA LoadStateStep == DebateIInv /\ loadState => DebateIInv'
<1> SUFFICES ASSUME DebateIInv, loadState PROVE DebateIInv'
  OBVIOUS
<1>1. /\ multiMessages' \in {multiMessages, <<>>} /\ currentAgentMessage' = None
      /\ messages' = "none" /\ isThinking' = FALSE /\ isConversationActive' = FALSE
      /\ conversationTimeRemaining' = Limit /\ conversationTimer' = FALSE
      /\ conversationStatus' = "" /\ abortController' = None /\ disturbed' = disturbed
      /\ stream' = [s \in Streams |-> IF stream[s] = "open" THEN "closed" ELSE stream[s]]
      /\ worker' = [s \in Streams |-> IF stream[s] = "open" THEN Over ELSE worker[s]]
      /\ queue' = [s \in Streams |-> <<>>]
  BY DEF loadState
<1>2. StreamTypes /\ TranscriptTypes
  BY InParts
<1>3. PageTypes'
  BY <1>1, FreshPage DEF PageTypes
<1>4. StreamTypes'
  <2>1. stream' \in [Streams -> {"idle", "open", "closed"}]
    BY <1>1, <1>2 DEF StreamTypes
  <2>2. worker' \in [Streams -> Workers]
    BY <1>1, <1>2, OverType DEF StreamTypes
  <2>3. queue' \in [Streams -> Seq(Chunk)]
    BY <1>1, FreshPage
  <2>4. \A r \in Streams : worker'[r].pc = "speaking" => worker'[r].turn \in 1..Turns
    BY <1>1, <1>2, OverType DEF StreamTypes
  <2> QED
    BY <2>1, <2>2, <2>3, <2>4 DEF StreamTypes
<1>5. TranscriptTypes'
  BY <1>1, <1>2, FreshPage DEF TranscriptTypes
<1>6. ASSUME NEW s \in Streams, stream'[s] = "idle"
      PROVE  stream[s] = "idle" /\ worker'[s] = worker[s] /\ queue'[s] = queue[s]
  <2>1. stream[s] = "idle"
    BY <1>1, <1>6
  <2>2. queue[s] = <<>>
    BY <2>1 DEF DebateIInv, Unopened
  <2> QED
    BY <1>1, <2>1, <2>2
<1>7. Live' = {}
  BY <1>1 DEF Live, Streams
<1> QED
  BY <1>1, <1>3, <1>4, <1>5, <1>6, <1>7, ShownIsCut, PageIsLeft

\* fetch, of a stream that nobody has opened.
LEMMA Opens ==
  ASSUME DebateIInv, NEW s \in Streams, stream[s] = "idle", Fetch(s), UNCHANGED queue
  PROVE  /\ StreamTypes'
         /\ \A r \in Streams : stream'[r] = IF r = s THEN "open" ELSE stream[r]
         /\ \A r \in Streams : r # s => worker'[r] = worker[r]
         /\ worker'[s] = [pc |-> "preflight", turn |-> 0, said |-> 0] /\ queue'[s] = <<>>
<1>1. StreamTypes /\ Unopened(s)
  BY InParts
<1>2. PICK w : w = [pc |-> "preflight", turn |-> 0, said |-> 0]
  OBVIOUS
<1>3. w \in Workers /\ w.pc = "preflight"
  BY <1>2, TurnsType DEF Workers
<1>4. worker' = [worker EXCEPT ![s] = w] /\ queue[s] = <<>>
  <2>1. worker[s] = [pc |-> "off", turn |-> 0, said |-> 0] /\ queue[s] = <<>>
    BY <1>1 DEF Unopened
  <2>2. worker' = [worker EXCEPT ![s] = [worker[s] EXCEPT !.pc = "preflight"]]
    BY DEF Fetch
  <2>3. [worker[s] EXCEPT !.pc = "preflight"] = w
    BY <1>2, <2>1
  <2> QED
    BY <2>1, <2>2, <2>3
<1>5. stream' = [stream EXCEPT ![s] = "open"]
  BY DEF Fetch
<1>6. StreamTypes'
  BY <1>1, <1>3, <1>4, <1>5 DEF StreamTypes
<1> QED
  BY <1>1, <1>2, <1>4, <1>5, <1>6 DEF StreamTypes

LEMMA SendMessageStep ==
  ASSUME NEW c \in Chats
  PROVE  DebateIInv /\ sendMessage(c) => DebateIInv'
<1> SUFFICES ASSUME DebateIInv, sendMessage(c) PROVE DebateIInv'
  OBVIOUS
<1>1. /\ c \in Streams /\ c \notin Debates /\ stream[c] = "idle" /\ Fetch(c) /\ UNCHANGED queue
      /\ messages' = "user" /\ isThinking' = TRUE /\ disturbed' = disturbed \cup Live
      /\ UNCHANGED <<isConversationActive, clock, conversationStatus, transcript, queue>>
  BY StreamsAssumption DEF sendMessage, Streams
<1>2. /\ StreamTypes'
      /\ \A r \in Streams : stream'[r] = IF r = c THEN "open" ELSE stream[r]
      /\ \A r \in Streams : r # c => worker'[r] = worker[r]
  BY <1>1, Opens
<1>3. Live' = Live
  BY <1>1, <1>2 DEF Live, Streams
<1>4. PageTypes'
  <2>1. PageTypes
    BY InParts
  <2> QED
    BY <1>1, <2>1 DEF PageTypes, clock, Fetch
<1>5. TranscriptTypes'
  <2>1. TranscriptTypes /\ Live \subseteq Debates
    BY InParts DEF Live
  <2> QED
    BY <1>1, <2>1 DEF TranscriptTypes, transcript
<1>6. disturbed \subseteq disturbed' /\ Live' \subseteq disturbed' /\ UNCHANGED transcript
  BY <1>1, <1>3
<1> QED
  BY <1>1, <1>2, <1>3, <1>4, <1>5, <1>6, ShownStays, PageIsLeft

LEMMA ChatChunkStep ==
  ASSUME NEW c \in Chats
  PROVE  DebateIInv /\ chat_chunk(c) => DebateIInv'
<1> SUFFICES ASSUME DebateIInv, chat_chunk(c) PROVE DebateIInv'
  OBVIOUS
<1>1. /\ c \in Streams /\ c \notin Debates /\ stream[c] = "open" /\ queue[c] # <<>>
      /\ queue' = [queue EXCEPT ![c] = Tail(@)]
      /\ messages' = "assistant" /\ isThinking' \in BOOLEAN
      /\ UNCHANGED <<isConversationActive, clock, conversationStatus, transcript,
                     abortController, stream, worker, disturbed>>
  BY StreamsAssumption DEF chat_chunk, Receive, Streams
<1>2. PageTypes /\ StreamTypes /\ TranscriptTypes
  BY InParts
<1>3. UNCHANGED <<multiMessages, currentAgentMessage, conversationTimer, conversationTimeRemaining>>
  BY <1>1 DEF transcript, clock
<1>4. PageTypes' /\ TranscriptTypes'
  BY <1>1, <1>2, <1>3 DEF PageTypes, TranscriptTypes
<1>5. StreamTypes'
  <2>1. Tail(queue[c]) \in Seq(Chunk)
    BY <1>1, <1>2 DEF StreamTypes
  <2> QED
    BY <1>1, <1>2, <2>1 DEF StreamTypes
<1>6. \A r \in Streams : r # c => queue'[r] = queue[r]
  BY <1>1, <1>2 DEF StreamTypes
<1>7. Shown' = Shown /\ Live' = Live
  BY <1>1, <1>3 DEF Shown, Live
<1>8. \A s \in Streams : Unopened(s)'
  BY <1>1, <1>6, <1>7 DEF DebateIInv, Unopened
<1>9. ASSUME NEW d \in (Live \ disturbed)'
      PROVE  HasThePage(d)' /\ GoesOn(d)'
  <2>1. HasThePage(d) /\ GoesOn(d)
    BY <1>1, <1>7, <1>9 DEF DebateIInv
  <2>2. HasThePage(d)'
    BY <1>1, <1>3, <1>7, <2>1 DEF HasThePage
  <2>3. Position(d)' = Position(d)
    BY <1>3, <1>7 DEF Position
  <2>4. d \in Streams /\ d # c
    BY <1>1, <1>9 DEF Live, Streams
  <2>5. queue'[d] = queue[d]
    BY <1>6, <2>4
  <2> QED
    BY <1>1, <1>3, <1>7, <2>1, <2>2, <2>3, <2>5 DEF GoesOn
<1>10. (currentAgentMessage # None /\ currentAgentMessage.of \notin disturbed =>
         Live \subseteq {currentAgentMessage.of})'
  BY <1>1, <1>3, <1>7 DEF DebateIInv
<1>11. AsSpoken(Shown, disturbed)'
  BY <1>1, <1>7 DEF DebateIInv
<1> QED
  BY <1>4, <1>5, <1>8, <1>9, <1>10, <1>11, InPartsNext

LEMMA StartStep ==
  ASSUME NEW d \in Debates
  PROVE  DebateIInv /\ startMultiConversation(d) => DebateIInv'
<1> SUFFICES ASSUME DebateIInv, startMultiConversation(d) PROVE DebateIInv'
  OBVIOUS
<1>1. /\ d \in Streams /\ d \notin Chats /\ stream[d] = "idle" /\ Fetch(d) /\ UNCHANGED queue
      /\ isConversationActive' = TRUE /\ conversationTimeRemaining' = Limit
      /\ conversationTimer' = TRUE /\ conversationStatus' = "Connecting"
      /\ currentAgentMessage' = None /\ multiMessages' = multiMessages
      /\ abortController' = d /\ UNCHANGED <<messages, isThinking>>
      /\ disturbed' = disturbed \cup Live
           \cup IF Live # {} \/ \E c \in Chats : stream[c] = "open" THEN {d} ELSE {}
  BY StreamsAssumption DEF startMultiConversation, Streams, Fetch, chat
<1>2. /\ StreamTypes'
      /\ \A r \in Streams : stream'[r] = IF r = d THEN "open" ELSE stream[r]
      /\ \A r \in Streams : r # d => worker'[r] = worker[r]
      /\ worker'[d] = [pc |-> "preflight", turn |-> 0, said |-> 0] /\ queue'[d] = <<>>
  BY <1>1, Opens
<1>3. Live' = Live \cup {d}
  BY <1>1, <1>2 DEF Live, Streams
<1>4. PageTypes /\ StreamTypes /\ TranscriptTypes
  BY InParts
<1>5. PageTypes'
  BY <1>1, <1>4, FreshPage DEF PageTypes
<1>6. TranscriptTypes'
  <2>1. Live \subseteq Debates
    BY DEF Live
  <2> QED
    BY <1>1, <1>4, <2>1 DEF TranscriptTypes
<1>7. disturbed \subseteq disturbed' /\ Live \subseteq disturbed'
  BY <1>1
<1>8. /\ Shown' = multiMessages'
      /\ \A j \in DOMAIN Shown' : \E k \in DOMAIN Shown : Shown'[j].of = Shown[k].of
      /\ AsSpoken(Shown', disturbed')
  BY <1>1, <1>7, ShownIsCut
<1>9. \A s \in Streams : Unopened(s)'
  BY <1>1, <1>2, <1>8 DEF DebateIInv, Unopened
<1>10. ASSUME NEW e \in (Live \ disturbed)'
       PROVE  HasThePage(e)' /\ GoesOn(e)'
  <2>1. e = d /\ Live = {} /\ \A c \in Chats : stream[c] # "open"
    BY <1>1, <1>3, <1>7, <1>10
  <2>2. \A j \in DOMAIN Shown' : Shown'[j].of # d
    BY <1>1, <1>8 DEF DebateIInv, Unopened
  <2>3. HasThePage(d)'
    <3>1. \A c \in Chats : stream'[c] # "open"
      BY <1>1, <1>2, <2>1 DEF Streams
    <3> QED
      BY <1>1, <1>3, <2>1, <3>1 DEF HasThePage
  <2>4. Said(Shown', d) = 0
    <3>1. {k \in DOMAIN Shown' : Shown'[k].of = d} = {}
      BY <2>2
    <3> QED
      BY <3>1, FS_EmptySet DEF Said
  <2>5. Position(d)' = [turn |-> 0, kind |-> "turn_complete"]
    BY <1>1, <2>4 DEF Position
  <2>6. PICK x : x = Position(d)'
    OBVIOUS
  <2>7. x.turn = 0 /\ x.kind = "turn_complete"
    BY <2>5, <2>6
  <2>8. ReadOn(d, x, queue'[d]) /\ LastRead(x, queue'[d]) = x
    BY <1>2 DEF ReadOn, LastRead
  <2>9. WorkerAt(worker'[d], x)
    BY <1>2, <2>7 DEF WorkerAt
  <2>10. GoesOn(d)'
    BY <1>1, <2>2, <2>6, <2>8, <2>9 DEF GoesOn
  <2> QED
    BY <2>1, <2>3, <2>10
<1>11. (currentAgentMessage # None /\ currentAgentMessage.of \notin disturbed =>
          Live \subseteq {currentAgentMessage.of})'
  BY <1>1
<1>12. AsSpoken(Shown, disturbed)'
  BY <1>8
<1> QED
  BY <1>2, <1>5, <1>6, <1>9, <1>10, <1>11, <1>12, InPartsNext
------------------------------------------------------------------------------
(* Debate: the page reads its debate *)

\* Of two live debates none has the page; so who reads is the one that has it.
LEMMA ReaderHasThePage ==
  ASSUME DebateIInv, NEW d \in Debates, stream[d] = "open"
  PROVE  /\ \A e \in Live \ disturbed : e = d
         /\ d \notin disturbed => HasThePage(d) /\ GoesOn(d)
         /\ d \in disturbed /\ currentAgentMessage # None => currentAgentMessage.of \in disturbed
<1>1. d \in Live
  BY DEF Live
<1>2. \A e \in Live \ disturbed : HasThePage(e) /\ GoesOn(e)
  BY DEF DebateIInv
<1>3. \A e \in Live \ disturbed : e = d
  BY <1>1, <1>2 DEF HasThePage
<1>4. d \in disturbed /\ currentAgentMessage # None => currentAgentMessage.of \in disturbed
  BY <1>1 DEF DebateIInv
<1> QED
  BY <1>1, <1>2, <1>3, <1>4

\* What the first chunk is, from where the page is, and what is left behind it.
LEMMA ReadsTheFirst ==
  ASSUME DebateIInv, NEW d \in Debates, NEW kind, Receive(d, kind), d \notin disturbed,
         NEW item, item = Head(queue[d])
  PROVE  /\ item \in Chunk /\ item.kind = kind /\ Follows(d, Position(d), item)
         /\ \A x : Alike(x, item) =>
              ReadOn(d, x, queue'[d]) /\ WorkerAt(worker[d], LastRead(x, queue'[d]))
<1>1. d \in Streams /\ stream[d] = "open" /\ queue[d] # <<>> /\ queue'[d] = Tail(queue[d])
      /\ item.kind = kind /\ queue[d] \in Seq(Chunk)
  BY DEF Receive, Streams, DebateIInv, DebateTypeOK
<1>2. GoesOn(d)
  BY <1>1, ReaderHasThePage
<1>3. PICK q \in Seq(Chunk) : q = queue[d]
  BY <1>1
<1>4. PICK p : p = Position(d)
  OBVIOUS
<1>5. PICK w : w = worker[d]
  OBVIOUS
<1>6. q # <<>> /\ ReadOn(d, p, q) /\ WorkerAt(w, LastRead(p, q)) /\ item = Head(q)
  BY <1>1, <1>2, <1>3, <1>4, <1>5 DEF GoesOn
<1>7. item \in Chunk /\ 1 \in DOMAIN q /\ item = q[1]
  BY <1>3, <1>6
<1>8. Follows(d, p, item)
  BY <1>6, <1>7 DEF ReadOn
<1>9. ASSUME NEW x, Alike(x, item)
      PROVE  ReadOn(d, x, queue'[d]) /\ WorkerAt(worker[d], LastRead(x, queue'[d]))
  <2>1. PICK r : r = Tail(q)
    OBVIOUS
  <2>2. ReadOn(d, x, r) /\ WorkerAt(w, LastRead(x, r))
    BY <1>3, <1>6, <1>9, <2>1, ReadOnTail
  <2> QED
    BY <1>1, <1>3, <1>5, <2>1, <2>2
<1> QED
  BY <1>1, <1>4, <1>7, <1>8, <1>9

\* What a reading must show.
LEMMA PageReads ==
  ASSUME DebateIInv, NEW d \in Debates, NEW kind, Receive(d, kind),
         UNCHANGED <<chat, isConversationActive, clock, abortController, stream, worker, disturbed>>,
         conversationStatus' \in Statuses, TranscriptTypes',
         \A j \in DOMAIN Shown' :
           Shown'[j].of = d \/ \E k \in DOMAIN Shown : Shown'[j].of = Shown[k].of,
         AsSpoken(Shown', disturbed),
         currentAgentMessage' # None =>
           \/ currentAgentMessage'.of = d
           \/ currentAgentMessage # None /\ currentAgentMessage'.of = currentAgentMessage.of,
         d \notin disturbed => GoesOn(d)'
  PROVE  DebateIInv'
<1>1. UNCHANGED <<messages, isThinking, isConversationActive, conversationTimeRemaining,
                  conversationTimer, abortController, stream, worker, disturbed>>
  BY DEF chat, clock
<1>2. /\ d \in Streams /\ stream[d] = "open" /\ queue[d] # <<>>
      /\ queue' = [queue EXCEPT ![d] = Tail(@)]
  BY DEF Receive, Streams
<1>3. PageTypes /\ StreamTypes /\ TranscriptTypes
  BY InParts
<1>4. PageTypes'
  BY <1>1, <1>3 DEF PageTypes
<1>5. StreamTypes'
  <2>1. Tail(queue[d]) \in Seq(Chunk)
    BY <1>2, <1>3 DEF StreamTypes
  <2> QED
    BY <1>1, <1>2, <1>3, <2>1 DEF StreamTypes
<1>6. Live' = Live
  BY <1>1 DEF Live
<1>7. \A s \in Streams : Unopened(s)'
  <2>1. \A r \in Streams : r # d => queue'[r] = queue[r]
    BY <1>2, <1>3 DEF StreamTypes
  <2> QED
    BY <1>1, <1>2, <2>1 DEF DebateIInv, Unopened
<1>8. ASSUME NEW e \in (Live \ disturbed)'
      PROVE  HasThePage(e)' /\ GoesOn(e)'
  <2>1. e = d /\ d \notin disturbed /\ HasThePage(d)
    BY <1>1, <1>2, <1>6, <1>8, ReaderHasThePage
  <2>2. HasThePage(d)'
    BY <1>1, <1>6, <2>1 DEF HasThePage
  <2> QED
    BY <2>1, <2>2
<1>9. (currentAgentMessage # None /\ currentAgentMessage.of \notin disturbed =>
         Live \subseteq {currentAgentMessage.of})'
  <2>1. SUFFICES ASSUME currentAgentMessage' # None, currentAgentMessage'.of \notin disturbed
                 PROVE  Live \subseteq {currentAgentMessage'.of}
    BY <1>1, <1>6
  <2>2. CASE currentAgentMessage'.of = d
    BY <1>2, <2>1, <2>2, ReaderHasThePage DEF HasThePage
  <2>3. CASE currentAgentMessage # None /\ currentAgentMessage'.of = currentAgentMessage.of
    BY <2>1, <2>3 DEF DebateIInv
  <2> QED
    BY <2>1, <2>2, <2>3
<1>10. AsSpoken(Shown, disturbed)'
  BY <1>1
<1> QED
  BY <1>4, <1>5, <1>7, <1>8, <1>9, <1>10, InPartsNext
\* The message being spoken is the last of the transcript.
LEMMA SpokenIsLast ==
  ASSUME DebateIInv
  PROVE  /\ Shown \in Seq(Message) /\ DOMAIN Shown = 1..Len(Shown)
         /\ currentAgentMessage = None => Shown = multiMessages
         /\ currentAgentMessage # None =>
              /\ currentAgentMessage \in Message /\ Len(Shown) \in DOMAIN Shown
              /\ Shown[Len(Shown)] = currentAgentMessage
              /\ Shown = Append(multiMessages, currentAgentMessage)
<1>1. multiMessages \in Seq(Message) /\ currentAgentMessage \in Message \cup {None}
  BY DEF DebateIInv, DebateTypeOK
<1>2. /\ Shown \in Seq(Message)
      /\ currentAgentMessage = None => Shown = multiMessages
      /\ currentAgentMessage # None =>
           currentAgentMessage \in Message /\ Shown = Append(multiMessages, currentAgentMessage)
  BY <1>1, ShownIs
<1>3. DOMAIN Shown = 1..Len(Shown)
  BY <1>2
<1>4. CASE currentAgentMessage # None
  <2>1. PICK list \in Seq(Message), m \in Message :
          list = multiMessages /\ m = currentAgentMessage
    BY <1>1, <1>2, <1>4
  <2>2. PICK longer : longer = Append(list, m)
    OBVIOUS
  <2>3. OneMore(list, m, longer)
    BY <2>1, <2>2, Grown
  <2>4. Len(longer) \in DOMAIN longer /\ longer[Len(longer)] = m
    BY <2>3 DEF OneMore
  <2> QED
    BY <1>2, <1>3, <1>4, <2>1, <2>2, <2>4
<1> QED
  BY <1>2, <1>3, <1>4

\* Unless it is breaking off just now, a debate that has the page has not broken off.
LEMMA NotBroken ==
  ASSUME DebateIInv, NEW d \in Debates, stream[d] = "open", d \notin disturbed,
         currentAgentMessage # None => currentAgentMessage.agent # 0
  PROVE  \A j \in DOMAIN Shown : Shown[j].of = d => Shown[j].agent # 0
<1>1. GoesOn(d)
  BY ReaderHasThePage
<1> QED
  BY <1>1, SpokenIsLast DEF GoesOn

LEMMA AgentsAreNumbers == \A a \in Agents : a # 0
<1>1. \A i \in DOMAIN agents : agents[i] \in Nat \ {0}
  BY AgentsAssumption
<1> QED
  BY <1>1 DEF Agents, ToSet

\* A chunk that begins a message, the first or another agent's.
LEMMA NewMessage ==
  ASSUME DebateIInv, NEW d \in Debates, Receive(d, "chunk"),
         UNCHANGED <<worker, disturbed>>,
         NEW item, item = Head(queue[d]),
         currentAgentMessage # None => currentAgentMessage.agent # item.agent,
         multiMessages' = Shown,
         currentAgentMessage' = [agent |-> item.agent, content |-> {item.turn}, of |-> d]
  PROVE  /\ TranscriptTypes'
         /\ \A j \in DOMAIN Shown' :
              Shown'[j].of = d \/ \E k \in DOMAIN Shown : Shown'[j].of = Shown[k].of
         /\ AsSpoken(Shown', disturbed)
         /\ currentAgentMessage' # None /\ currentAgentMessage'.of = d
         /\ d \notin disturbed => GoesOn(d)'
<1>1. /\ stream[d] = "open" /\ item \in Chunk
      /\ Shown \in Seq(Message) /\ AsSpoken(Shown, disturbed)
  <2>1. d \in Streams /\ queue[d] # <<>> /\ stream[d] = "open"
    BY DEF Receive, Streams
  <2>2. queue[d] \in Seq(Chunk)
    BY <2>1 DEF DebateIInv, DebateTypeOK
  <2> QED
    BY <2>1, <2>2, SpokenIsLast DEF DebateIInv
<1>2. PICK m : m = [agent |-> item.agent, content |-> {item.turn}, of |-> d]
  OBVIOUS
<1>3. m \in Message /\ m.agent = item.agent /\ m.content = {item.turn} /\ m.of = d /\ m # None
  <2>1. m \in Message
    BY <1>1, <1>2 DEF Message, Chunk
  <2> QED
    BY <1>2, <2>1, NoneAssumption
<1>4. currentAgentMessage' = m
  BY <1>2
<1>5. PICK list \in Seq(Message) : list = Shown
  BY <1>1
<1>6. PICK longer : longer = Append(list, m)
  OBVIOUS
<1>7. OneMore(list, m, longer) /\ Shown' = longer
  <2>1. OneMore(list, m, longer)
    BY <1>3, <1>5, <1>6, Grown
  <2>2. Shown' = multiMessages' \o <<m>>
    BY <1>3, <1>4 DEF Shown
  <2>3. list \o <<m>> = Append(list, m)
    BY <1>3
  <2> QED
    BY <1>5, <1>6, <2>1, <2>2, <2>3
<1>8. TranscriptTypes'
  <2>1. TranscriptTypes
    BY InParts
  <2> QED
    BY <1>1, <1>3, <1>4, <2>1 DEF TranscriptTypes
<1>9. \A j \in DOMAIN Shown' :
        Shown'[j].of = d \/ \E k \in DOMAIN Shown : Shown'[j].of = Shown[k].of
  <2>1. \A j \in DOMAIN longer : longer[j].of = d \/ (j \in DOMAIN list /\ longer[j] = list[j])
    BY <1>3, <1>7 DEF OneMore
  <2> QED
    BY <1>5, <1>7, <2>1
<1>10. CASE d \in disturbed
  <2>1. PICK late : late = disturbed
    OBVIOUS
  <2>2. AsSpoken(longer, late)
    BY <1>1, <1>3, <1>5, <1>6, <1>10, <2>1, LongerAsSpoken
  <2> QED
    BY <1>3, <1>4, <1>7, <1>8, <1>9, <1>10, <2>1, <2>2
<1>11. CASE d \notin disturbed
  <2>1. GoesOn(d) /\ HasThePage(d)
    BY <1>1, <1>11, ReaderHasThePage
  <2>2. item.kind = "chunk" /\ Follows(d, Position(d), item)
    BY <1>11, ReadsTheFirst
  <2>3. currentAgentMessage # None => currentAgentMessage.agent # 0
    BY <2>1, <2>2 DEF Follows, Position
  <2>4. \A j \in DOMAIN list : list[j].of = d => list[j].agent # 0
    BY <1>1, <1>5, <1>11, <2>3, NotBroken
  \* Either the next turn, or the word that the debate broke off.
  <2>5. \/ /\ item.turn = Said(list, d) + 1 /\ item.turn \in 1..Turns
           /\ item.agent = agent_id(d, Speaker(item.turn))
        \/ item.agent = 0 /\ item.turn = 0
    <3>1. PICK x : x = Position(d)
      OBVIOUS
    <3>2. CASE currentAgentMessage = None
      <4>1. x.turn = Said(list, d) /\ x.kind = "turn_complete"
        BY <1>5, <3>1, <3>2 DEF Position
      <4> QED
        BY <2>2, <3>1, <4>1 DEF Follows
    <3>3. CASE currentAgentMessage # None
      <4>1. x.turn = Said(list, d) /\ x.kind = "chunk"
        BY <1>5, <2>3, <3>1, <3>3 DEF Position
      <4>2. currentAgentMessage.agent = agent_id(d, Speaker(x.turn))
        BY <1>5, <2>1, <2>3, <3>3, <4>1 DEF GoesOn
      <4> QED
        BY <2>2, <3>1, <3>3, <4>1, <4>2 DEF Follows
    <3> QED
      BY <3>2, <3>3
  <2>6. item.agent # 0 =>
          /\ item.turn = Said(list, d) + 1 /\ item.agent = agent_id(d, Speaker(item.turn))
          /\ role[d][item.agent] = role[d][Speaker(item.turn)]
    BY <2>5, SpeakerType, AgentIdType
  <2>7. item.agent = 0 => item.turn = 0
    BY <2>5, SpeakerType, AgentIdType, AgentsAreNumbers
  <2>8. PICK late : late = disturbed
    OBVIOUS
  <2>9. AsSpoken(longer, late)
    <3>1. \A j \in DOMAIN list : list[j].of = m.of => list[j].agent # 0
      BY <1>3, <2>4
    <3>2. m.agent = 0 => m.content = {0}
      BY <1>3, <2>7
    <3>3. m.agent # 0 => /\ m.content = {Said(list, m.of) + 1}
                         /\ role[m.of][m.agent] = role[m.of][Speaker(Said(list, m.of) + 1)]
      BY <1>3, <2>6
    <3>4. AsSpoken(list, late)
      BY <1>1, <1>5, <2>8
    <3> QED
      BY <1>3, <1>6, <3>1, <3>2, <3>3, <3>4, LongerAsSpoken
  <2>10. Said(longer, d) = Said(list, d) + 1
    BY <1>3, <1>7 DEF OneMore
  <2>11. Alike(Position(d)', item)
    BY <1>3, <1>4, <1>7, <2>2, <2>6, <2>7, <2>10 DEF Position, Alike
  <2>12. PICK x : x = Position(d)'
    OBVIOUS
  <2>13. ReadOn(d, x, queue'[d]) /\ WorkerAt(worker'[d], LastRead(x, queue'[d]))
    BY <1>11, <2>11, <2>12, ReadsTheFirst
  <2>14. \A j \in DOMAIN longer :
           longer[j].of = d /\ longer[j].agent = 0 => j = Len(longer)
    BY <1>5, <1>7, <2>4 DEF OneMore
  <2>15. m.agent # 0 => m.agent = agent_id(d, Speaker(Said(longer, d)))
    BY <1>3, <2>6, <2>10
  <2>16. GoesOn(d)'
    BY <1>3, <1>4, <1>7, <2>12, <2>13, <2>14, <2>15 DEF GoesOn
  <2> QED
    BY <1>3, <1>4, <1>7, <1>8, <1>9, <2>8, <2>9, <2>16
<1> QED
  BY <1>10, <1>11
\* A chunk of the agent that is speaking.
LEMMA SameMessage ==
  ASSUME DebateIInv, NEW d \in Debates, Receive(d, "chunk"),
         UNCHANGED <<worker, disturbed, multiMessages>>,
         NEW item, item = Head(queue[d]),
         currentAgentMessage # None, currentAgentMessage.agent = item.agent,
         currentAgentMessage' = [currentAgentMessage EXCEPT !.content = @ \cup {item.turn}]
  PROVE  /\ TranscriptTypes'
         /\ \A j \in DOMAIN Shown' : \E k \in DOMAIN Shown : Shown'[j].of = Shown[k].of
         /\ AsSpoken(Shown', disturbed)
         /\ currentAgentMessage' # None /\ currentAgentMessage'.of = currentAgentMessage.of
         /\ d \notin disturbed => GoesOn(d)'
<1>1. /\ d \in Streams /\ stream[d] = "open" /\ item \in Chunk
      /\ multiMessages \in Seq(Message) /\ currentAgentMessage \in Message
      /\ AsSpoken(Shown, disturbed) /\ Shown = Append(multiMessages, currentAgentMessage)
  <2>1. d \in Streams /\ queue[d] # <<>> /\ stream[d] = "open"
    BY DEF Receive, Streams
  <2>2. queue[d] \in Seq(Chunk)
    BY <2>1 DEF DebateIInv, DebateTypeOK
  <2> QED
    BY <2>1, <2>2, SpokenIsLast DEF DebateIInv, DebateTypeOK
<1>2. PICK old \in Message : old = currentAgentMessage
  BY <1>1
<1>3. PICK m : m = [old EXCEPT !.content = @ \cup {item.turn}]
  OBVIOUS
<1>4. /\ m \in Message /\ m.agent = old.agent /\ m.of = old.of /\ m # None
      /\ m.content = old.content \cup {item.turn} /\ currentAgentMessage' = m
  <2>1. m \in Message /\ m.agent = old.agent /\ m.of = old.of
        /\ m.content = old.content \cup {item.turn}
    BY <1>1, <1>2, <1>3 DEF Message, Chunk
  <2> QED
    BY <1>2, <1>3, <2>1, NoneAssumption
<1>5. PICK list \in Seq(Message) : list = multiMessages
  BY <1>1
<1>6. PICK before : before = Append(list, old)
  OBVIOUS
<1>7. PICK after : after = Append(list, m)
  OBVIOUS
<1>8. /\ OneMore(list, old, before) /\ OneMore(list, m, after)
      /\ Shown = before /\ Shown' = after
  <2>1. OneMore(list, old, before) /\ OneMore(list, m, after)
    BY <1>2, <1>4, <1>6, <1>7, Grown
  <2>2. Shown' = list \o <<m>>
    BY <1>4, <1>5 DEF Shown
  <2>3. list \o <<m>> = Append(list, m)
    BY <1>4
  <2> QED
    BY <1>1, <1>2, <1>5, <1>6, <1>7, <2>1, <2>2, <2>3
<1>9. TranscriptTypes'
  <2>1. TranscriptTypes
    BY InParts
  <2> QED
    BY <1>4, <2>1 DEF TranscriptTypes
<1>10. \A j \in DOMAIN Shown' : \E k \in DOMAIN Shown : Shown'[j].of = Shown[k].of
  <2>1. \A j \in DOMAIN after : j \in DOMAIN before /\ after[j].of = before[j].of
    BY <1>4, <1>8 DEF OneMore
  <2> QED
    BY <1>8, <2>1
<1>11. CASE d \in disturbed
  <2>1. old.of \in disturbed
    BY <1>1, <1>2, <1>11, ReaderHasThePage
  <2>2. PICK late : late = disturbed
    OBVIOUS
  <2>3. AsSpoken(list, late)
    BY <1>1, <1>2, <1>6, <1>8, <2>2, ShorterAsSpoken
  <2>4. AsSpoken(after, late)
    BY <1>4, <1>7, <2>1, <2>2, <2>3, LongerAsSpoken
  <2> QED
    BY <1>2, <1>4, <1>8, <1>9, <1>10, <1>11, <2>2, <2>4
<1>12. CASE d \notin disturbed
  <2>1. GoesOn(d) /\ old.of = d
    BY <1>1, <1>2, <1>12, ReaderHasThePage DEF HasThePage
  <2>2. item.kind = "chunk" /\ Follows(d, Position(d), item)
    BY <1>12, ReadsTheFirst
  <2>3. old.agent = item.agent /\ old # None
    BY <1>2, NoneAssumption
  \* It is the turn whose text the message has already.
  <2>4. item.agent # 0 /\ item.turn = Said(before, d) /\ item.turn \in 1..Turns
    <3>1. PICK x : x = Position(d)
      OBVIOUS
    <3>2. CASE item.agent = 0
      <4>1. x.turn = 0 /\ x.kind = "chunk"
        BY <1>2, <2>3, <3>1, <3>2 DEF Position
      <4>2. \A turn \in 1..Turns : agent_id(d, Speaker(turn)) # 0
        BY SpeakerType, AgentIdType, AgentsAreNumbers
      <4> QED
        BY <2>2, <3>1, <3>2, <4>1, <4>2 DEF Follows
    <3>3. CASE item.agent # 0
      <4>1. x.turn = Said(before, d) /\ x.kind = "chunk"
        BY <1>2, <1>8, <2>3, <3>1, <3>3 DEF Position
      <4> QED
        BY <2>2, <3>1, <3>3, <4>1 DEF Follows
    <3> QED
      BY <3>2, <3>3
  <2>5. old.content = {item.turn}
    <3>1. PICK last : last = Len(list) + 1
      OBVIOUS
    <3>2. last \in DOMAIN before /\ before[last] = old
          /\ Place(before, last) = Said(list, d) + 1 /\ Said(before, d) = Said(list, d) + 1
      BY <1>8, <2>1, <3>1 DEF OneMore
    <3>3. InTurn(before, last) \/ BrokeOff(before, last)
      BY <1>1, <1>8, <1>12, <2>1, <3>2 DEF AsSpoken
    <3>4. ~BrokeOff(before, last)
      BY <2>3, <2>4, <3>2 DEF BrokeOff
    <3> QED
      BY <2>4, <3>2, <3>3, <3>4 DEF InTurn
  <2>6. m = old
    BY <1>1, <1>2, <1>3, <2>5 DEF Message
  <2>7. after = before /\ UNCHANGED <<currentAgentMessage>>
    BY <1>2, <1>4, <1>6, <1>7, <2>6
  <2>8. Position(d)' = Position(d)
    BY <1>8, <2>7 DEF Position
  <2>9. PICK x : x = Position(d)
    OBVIOUS
  <2>10. Alike(x, item)
    BY <1>2, <1>8, <2>2, <2>3, <2>4, <2>9 DEF Position, Alike
  <2>11. ReadOn(d, x, queue'[d]) /\ WorkerAt(worker'[d], LastRead(x, queue'[d]))
    BY <1>12, <2>10, ReadsTheFirst
  <2>12. GoesOn(d)'
    BY <1>8, <2>1, <2>7, <2>8, <2>9, <2>11 DEF GoesOn
  <2> QED
    BY <1>1, <1>2, <1>4, <1>8, <1>9, <1>10, <2>7, <2>12
<1> QED
  BY <1>11, <1>12

LEMMA ChunkStep ==
  ASSUME NEW d \in Debates
  PROVE  DebateIInv /\ chunk(d) => DebateIInv'
<1> SUFFICES ASSUME DebateIInv, chunk(d) PROVE DebateIInv'
  OBVIOUS
<1>1. PICK item : item = Head(queue[d])
  OBVIOUS
<1>2. /\ Receive(d, "chunk")
      /\ UNCHANGED <<chat, isConversationActive, clock, abortController, stream, worker, disturbed>>
      /\ conversationStatus' \in {conversationStatus, "speaking"}
  BY DEF chunk
<1>3. conversationStatus' \in Statuses
  BY <1>2 DEF DebateIInv, DebateTypeOK, Statuses
<1>4. CASE /\ currentAgentMessage # None => currentAgentMessage.agent # item.agent
           /\ currentAgentMessage' = [agent |-> item.agent, content |-> {item.turn}, of |-> d]
           /\ multiMessages' = Shown
  <2>1. /\ TranscriptTypes'
        /\ \A j \in DOMAIN Shown' :
             Shown'[j].of = d \/ \E k \in DOMAIN Shown : Shown'[j].of = Shown[k].of
        /\ AsSpoken(Shown', disturbed)
        /\ currentAgentMessage' # None /\ currentAgentMessage'.of = d
        /\ d \notin disturbed => GoesOn(d)'
    BY <1>1, <1>2, <1>4, NewMessage
  <2> QED
    BY <1>2, <1>3, <2>1, PageReads
<1>5. CASE /\ currentAgentMessage # None /\ currentAgentMessage.agent = item.agent
           /\ currentAgentMessage' = [currentAgentMessage EXCEPT !.content = @ \cup {item.turn}]
           /\ multiMessages' = multiMessages
  <2>1. /\ TranscriptTypes'
        /\ \A j \in DOMAIN Shown' : \E k \in DOMAIN Shown : Shown'[j].of = Shown[k].of
        /\ AsSpoken(Shown', disturbed)
        /\ currentAgentMessage' # None /\ currentAgentMessage'.of = currentAgentMessage.of
        /\ d \notin disturbed => GoesOn(d)'
    BY <1>1, <1>2, <1>5, SameMessage
  <2> QED
    BY <1>2, <1>3, <1>5, <2>1, PageReads
<1>6. \/ /\ currentAgentMessage = None /\ multiMessages' = multiMessages
         /\ currentAgentMessage' = [agent |-> item.agent, content |-> {item.turn}, of |-> d]
      \/ /\ currentAgentMessage # None /\ currentAgentMessage.agent = item.agent
         /\ currentAgentMessage' = [currentAgentMessage EXCEPT !.content = @ \cup {item.turn}]
         /\ multiMessages' = multiMessages
      \/ /\ currentAgentMessage # None /\ currentAgentMessage.agent # item.agent
         /\ multiMessages' = Append(multiMessages, currentAgentMessage)
         /\ currentAgentMessage' = [agent |-> item.agent, content |-> {item.turn}, of |-> d]
  BY <1>1 DEF chunk
<1>7. /\ currentAgentMessage = None => Shown = multiMessages
      /\ currentAgentMessage # None => Shown = Append(multiMessages, currentAgentMessage)
  BY SpokenIsLast
<1>8. CASE currentAgentMessage = None
  BY <1>4, <1>6, <1>7, <1>8
<1>9. CASE currentAgentMessage # None /\ currentAgentMessage.agent = item.agent
  BY <1>5, <1>6, <1>9
<1>10. CASE currentAgentMessage # None /\ currentAgentMessage.agent # item.agent
  BY <1>4, <1>6, <1>7, <1>10
<1> QED
  BY <1>8, <1>9, <1>10
LEMMA FinishTurnStep ==
  ASSUME NEW d \in Debates
  PROVE  DebateIInv /\ finish_turn(d) => DebateIInv'
<1> SUFFICES ASSUME DebateIInv, finish_turn(d) PROVE DebateIInv'
  OBVIOUS
<1>1. PICK item : item = Head(queue[d])
  OBVIOUS
<1>2. /\ Receive(d, "turn_complete") /\ currentAgentMessage' = None
      /\ multiMessages' = IF currentAgentMessage = None THEN multiMessages
                          ELSE Append(multiMessages, currentAgentMessage)
      /\ UNCHANGED <<chat, isConversationActive, clock, conversationStatus, abortController,
                     stream, worker, disturbed>>
  BY DEF finish_turn
<1>3. multiMessages' = Shown /\ Shown \in Seq(Message)
  BY <1>2, SpokenIsLast
<1>4. Shown' = Shown
  <2>1. Shown' = multiMessages' \o <<>>
    BY <1>2 DEF Shown
  <2>2. multiMessages' \o <<>> = multiMessages'
    BY <1>3
  <2> QED
    BY <1>3, <2>1, <2>2
<1>5. TranscriptTypes'
  <2>1. TranscriptTypes
    BY InParts
  <2> QED
    BY <1>2, <1>3, <2>1 DEF TranscriptTypes
<1>6. conversationStatus' \in Statuses /\ AsSpoken(Shown', disturbed) /\ stream[d] = "open"
  BY <1>2, <1>4 DEF DebateIInv, DebateTypeOK, Receive
<1>7. ASSUME d \notin disturbed
      PROVE  GoesOn(d)'
  <2>1. GoesOn(d)
    BY <1>6, <1>7, ReaderHasThePage
  <2>2. item.kind = "turn_complete" /\ Follows(d, Position(d), item)
    BY <1>1, <1>2, <1>7, ReadsTheFirst
  <2>3. /\ currentAgentMessage # None /\ currentAgentMessage.agent # 0
        /\ item.turn = Said(Shown, d)
    <3>1. PICK x : x = Position(d)
      OBVIOUS
    <3>2. x.kind = "chunk" /\ x.turn = item.turn /\ item.turn \in 1..Turns
      BY <2>2, <3>1 DEF Follows
    <3> QED
      BY <3>1, <3>2 DEF Position
  <2>4. \A j \in DOMAIN Shown : Shown[j].of = d => Shown[j].agent # 0
    BY <1>6, <1>7, <2>3, NotBroken
  <2>5. Position(d)' = [turn |-> Said(Shown, d), kind |-> "turn_complete"]
    BY <1>2, <1>4 DEF Position
  <2>6. PICK x : x = Position(d)'
    OBVIOUS
  <2>7. Alike(x, item)
    BY <2>2, <2>3, <2>5, <2>6 DEF Alike
  <2>8. ReadOn(d, x, queue'[d]) /\ WorkerAt(worker'[d], LastRead(x, queue'[d]))
    BY <1>1, <1>2, <1>7, <2>7, ReadsTheFirst
  <2> QED
    BY <1>2, <1>4, <2>4, <2>6, <2>8 DEF GoesOn
<1> QED
  BY <1>2, <1>4, <1>5, <1>6, <1>7, PageReads

------------------------------------------------------------------------------
(* Debate: the theorems *)

LEMMA DebateInitIInv == DebateInit => DebateIInv
<1> SUFFICES ASSUME DebateInit PROVE DebateIInv
  OBVIOUS
<1>1. /\ messages = "none" /\ isThinking = FALSE /\ isConversationActive = FALSE
      /\ conversationTimeRemaining = Limit /\ conversationTimer = FALSE
      /\ conversationStatus = "" /\ multiMessages = <<>> /\ currentAgentMessage = None
      /\ abortController = None /\ stream = [s \in Streams |-> "idle"]
      /\ worker = [s \in Streams |-> [pc |-> "off", turn |-> 0, said |-> 0]]
      /\ queue = [s \in Streams |-> <<>>] /\ disturbed = {}
  BY DEF DebateInit
<1>2. PICK w : w = [pc |-> "off", turn |-> 0, said |-> 0]
  OBVIOUS
<1>3. w \in Workers /\ w.pc = "off"
  BY <1>2, TurnsType DEF Workers
<1>4. worker = [s \in Streams |-> w]
  BY <1>1, <1>2
<1>5. PageTypes
  BY <1>1, FreshPage DEF PageTypes
<1>6. StreamTypes
  BY <1>1, <1>3, <1>4, FreshPage DEF StreamTypes
<1>7. TranscriptTypes
  BY <1>1, FreshPage DEF TranscriptTypes
<1>8. Shown = <<>>
  BY <1>1, <1>7, ShownIs DEF TranscriptTypes
<1>9. \A s \in Streams : Unopened(s)
  <2>1. \A s \in Streams : worker[s] = w /\ queue[s] = <<>>
    BY <1>1, <1>4
  <2>2. \A j : j \notin DOMAIN Shown
    BY <1>8
  <2> QED
    BY <1>2, <2>1, <2>2 DEF Unopened
<1>10. Live = {}
  BY <1>1 DEF Live, Streams
<1>11. AsSpoken(Shown, disturbed)
  BY <1>8 DEF AsSpoken
<1> QED
  BY <1>1, <1>5, <1>6, <1>7, <1>9, <1>10, <1>11, InParts

LEMMA DebateNextKeeps == DebateIInv /\ [DebateNext]_debate_vars => DebateIInv'
<1> SUFFICES ASSUME DebateIInv, [DebateNext]_debate_vars PROVE DebateIInv'
  OBVIOUS
<1>1. ASSUME NEW d \in Debates,
             \/ preflight(d) \/ speak(d) \/ end_turn(d) \/ loop_fails(d)
             \/ startMultiConversation(d) \/ chunk(d) \/ finish_turn(d)
             \/ debate_concludes(d) \/ connection_breaks(d)
      PROVE  DebateIInv'
  BY <1>1, PreflightStep, SpeakStep, EndTurnStep, LoopFailsStep, StartStep, ChunkStep,
     FinishTurnStep, DebateEndsStep
<1>2. ASSUME NEW c \in Chats,
             \/ sendMessage(c) \/ answer_chunk(c) \/ answer_end(c) \/ chat_chunk(c) \/ chat_end(c)
      PROVE  DebateIInv'
  BY <1>2, SendMessageStep, AnswerStep, ChatChunkStep, ChatEndStep
<1>3. CASE clear_chat \/ stop \/ tick \/ clearMultiDebate \/ loadState
  BY <1>3, ClearChatStep, StopConversationStep, TickStep, ClearDebateStep, LoadStateStep
<1>4. CASE Quiet \/ UNCHANGED debate_vars
  BY <1>4, NothingMoves DEF Quiet
<1> QED
  BY <1>1, <1>2, <1>3, <1>4 DEF DebateNext

LEMMA DebateInvariance == DebateSpec => []DebateIInv
BY DebateInitIInv, DebateNextKeeps, PTL DEF DebateSpec

\* The page, its streams and their servers have their types: in particular the
\* countdown never leaves its range, and what is queued are chunks.
THEOREM DebateTypeCorrect == DebateSpec => []DebateTypeOK
<1>1. DebateIInv => DebateTypeOK
  BY DEF DebateIInv
<1> QED
  BY <1>1, DebateInvariance, PTL

\* A debate that had the page to itself reads as it was spoken, with any number of
\* participants, roles in common and rounds, and however it ended.
THEOREM TranscriptReadsAsSpoken == DebateSpec => []SpokenInTurn
<1>1. DebateIInv => SpokenInTurn
  BY DEF DebateIInv, AsSpoken, SpokenInTurn, InTurn, BrokeOff
<1> QED
  BY <1>1, DebateInvariance, PTL

\* What the run checks as DebateConsistent: page, streams and servers have their
\* types, and the transcript of a debate that had the page to itself is in turn.
THEOREM DebateConsistencyHolds == DebateSpec => []DebateConsistent
BY DebateTypeCorrect, TranscriptReadsAsSpoken, PTL DEF DebateConsistent

\* STOP and the time limit (llm.component.ts, stopMultiConversation) reach every
\* debate that had the page to itself.
THEOREM StopsReachTheirDebate == DebateSpec => []StopReachesTheDebate
<1>1. DebateIInv => StopReachesTheDebate
  BY DEF DebateIInv, HasThePage, StopReachesTheDebate
<1> QED
  BY <1>1, DebateInvariance, PTL
====
