------------------------------- MODULE Pipeline -------------------------------
(***************************************************************************)
(* The delivery pipeline (agents/autonomous.py) on one spec of the intake  *)
(* (agents/intake.py): agents write code in a git worktree, a gate runs    *)
(* the real tests, other agents review, and deterministic code commits,    *)
(* pushes and opens a pull request, or merges to main, watches CI and lets *)
(* the team repair it.                                                     *)
(*                                                                         *)
(* `sh` returns the exit code of every git command and nobody looks at it. *)
(* An agent whose answer did not come within the client's timeout is still *)
(* working, and so is one whose pipeline was killed.  The owner starts the *)
(* intake again whenever it has stopped (or lets it poll, --watch); teams  *)
(* push to main at any time.  Of the code only where it is matters.        *)
(***************************************************************************)
EXTENDS Naturals

CONSTANTS
  MAX_FIX_ITERS,   \* rounds of the fix loop after the first gate
  max_ci_fix,      \* attempts to repair a red CI
  ReviewAnswers,   \* answers of the reviewers: the words of Needles found in each
  ReleaseAnswers,  \* answers of the release manager
  MaxRuns          \* bound: runs of the pipeline on the spec

\* "NO-GO" contains "GO": a text with the first word has both.
Needles == {"NO-GO", "REQUEST-CHANGES", "APPROVE", "GO"}

ASSUME LimitsAssumption == MAX_FIX_ITERS \in Nat /\ max_ci_fix \in Nat /\ MaxRuns \in Nat
ASSUME AnswersAssumption ==
  \A t \in ReviewAnswers \cup ReleaseAnswers :
    t \subseteq Needles /\ ("NO-GO" \in t => "GO" \in t)

VARIABLES
  auto_release,  \* the intake's --auto-release
  spec,          \* the spec's directory: "inbox" or "done"
  job,           \* the running pipeline
  said,          \* what reviewers and release manager have answered in this run
  writer,        \* where an agent is writing that nobody waits for
  tree,          \* the worktree: the run it belongs to (0: none) and its changes
  repo,          \* the main checkout: branch, main, origin (tracking main), changes
  github         \* branch, main, and ci: the state of the run of each head of main

vars == <<auto_release, spec, job, said, writer, tree, repo, github>>

\* A commit is named by what it brings and the run (and attempt) that made it;
\* a head of main is the set of commits it contains.
Feature(r) == <<"feature", r, 0>>
Fix(r, i)  == <<"fix", r, i>>
Other      == <<"other", 0, 0>>
Commits == {Other} \cup {Feature(r) : r \in 1 .. MaxRuns}
             \cup {Fix(r, i) : r \in 1 .. MaxRuns, i \in 1 .. max_ci_fix}

\* What `git diff --name-only HEAD` and `git status` can tell apart: nothing,
\* untracked files only (the run log at least), or edits of tracked code.
Changes == {"none", "untracked", "edited"}

Outcomes == {"None", "aborted", "no changes", "opened PR", "auto-merged", "ESCALATED"}
Refusals == {"commit", "branch", "merge", "main"}
Steps == {"start_agents", "implement", "gate", "fix", "review", "document", "release", "commit",
          "open_pr", "merge", "watch", "recover", "escalate", "close", "file"}

Job == [pc : {"idle"} \cup Steps, run : 0 .. MaxRuns, fixes : 0 .. MAX_FIX_ITERS,
        attempts : 0 .. max_ci_fix, gate_green : BOOLEAN, finalized : Outcomes,
        refused : SUBSET Refusals]   \* history: git commands that failed in this run

NoTree == [run |-> 0, changes |-> "none"]
Silence == [code |-> {}, sec |-> {}, rel |-> {}]
NewJob(r) == [pc |-> "start_agents", run |-> r, fixes |-> 0, attempts |-> 0,
              gate_green |-> FALSE, finalized |-> "None", refused |-> {}]

Init ==
  /\ auto_release \in BOOLEAN
  /\ spec = "inbox"
  /\ job = [NewJob(0) EXCEPT !.pc = "idle"]
  /\ said = Silence
  /\ writer = "none"
  /\ tree = NoTree
  /\ repo = [branch |-> 0, main |-> {}, origin |-> {}, changes |-> "none"]
  /\ \E s \in {"success", "failure"} : github = [branch |-> 0, main |-> {}, ci |-> [h \in {{}} |-> s]]

At(step) == job.pc = step
Goto(step) == job' = [job EXCEPT !.pc = step]
Finalize(outcome) == job' = [job EXCEPT !.pc = "close", !.finalized = outcome, !.attempts = 0]

-------------------------------------------------------------------------------
(* Agents. *)

\* Steps during which the pipeline waits for an agent that may write.
Asking == {"implement", "fix", "document"}

\* write_file, edit_file or run_command of an agent, asked for or late.
agent_writes ==
  \/ /\ job.pc \in Asking \/ writer = "worktree"
     /\ tree.run # 0
     /\ \E c \in {"untracked", "edited"} : tree' = [tree EXCEPT !.changes = c]
     /\ UNCHANGED <<auto_release, spec, job, said, writer, repo, github>>
  \/ /\ writer = "repo"
     /\ \E c \in {"untracked", "edited"} : repo' = [repo EXCEPT !.changes = c]
     /\ UNCHANGED <<auto_release, spec, job, said, writer, tree, github>>

\* A late agent comes to the end of its bounded tool loop.
agent_ends ==
  /\ writer # "none"
  /\ writer' = "none"
  /\ UNCHANGED <<auto_release, spec, job, said, tree, repo, github>>

\* delegate with the client's timeout, as used by ask: the answer comes, or the
\* step goes on while the agent is still at work.
answered_or_late == writer' \in {writer, "worktree"}

-------------------------------------------------------------------------------
(* A run up to the release decision. *)

\* pending_specs finds the spec; create_worktree removes what an earlier run of
\* the same slug has left, branch and worktree, and raises if git refuses.
start ==
  /\ At("idle") /\ spec = "inbox" /\ job.run < MaxRuns
  /\ said' = Silence
  /\ \/ /\ job' = NewJob(job.run + 1)
        /\ tree' = [run |-> job.run + 1, changes |-> "untracked"]
        /\ repo' = [repo EXCEPT !.branch = 0]
     \/ /\ job' = [NewJob(job.run + 1) EXCEPT !.pc = "idle"]
        /\ tree' \in {tree, NoTree}
        /\ repo' \in {repo, [repo EXCEPT !.branch = 0]}
  /\ UNCHANGED <<auto_release, spec, writer, github>>

\* _free_ports kills every agent, those of a killed run included.
start_agents ==
  /\ At("start_agents")
  /\ writer' = "none"
  /\ Goto("implement")
  /\ UNCHANGED <<auto_release, spec, said, tree, repo, github>>

implement ==
  /\ At("implement")
  /\ answered_or_late
  /\ Goto("gate")
  /\ UNCHANGED <<auto_release, spec, said, tree, repo, github>>

\* The suites run only if the diff against HEAD names code.
may_pass(changes, ok) == ok => changes = "edited"

run_gate ==
  /\ At("gate")
  /\ \E green \in BOOLEAN :
       /\ may_pass(tree.changes, green)
       /\ job' = IF green THEN [job EXCEPT !.pc = "review", !.gate_green = TRUE, !.fixes = 0]
                 ELSE IF job.fixes < MAX_FIX_ITERS THEN [job EXCEPT !.pc = "fix"]
                 ELSE [job EXCEPT !.pc = "close", !.finalized = "aborted", !.fixes = 0]
  /\ UNCHANGED <<auto_release, spec, said, writer, tree, repo, github>>

\* Mutant of fix: the round is not counted.
fix_for_ever ==
  /\ At("fix")
  /\ answered_or_late
  /\ Goto("gate")
  /\ UNCHANGED <<auto_release, spec, said, tree, repo, github>>

\* One round of the fix loop: the layer that failed is asked, if one is named.
fix ==
  /\ At("fix")
  /\ answered_or_late
  /\ job' = [job EXCEPT !.pc = "gate", !.fixes = @ + 1]
  /\ UNCHANGED <<auto_release, spec, said, tree, repo, github>>

\* Both reviewers; they read and do not write.
review ==
  /\ At("review")
  /\ \E c, s \in ReviewAnswers : said' = [said EXCEPT !.code = c, !.sec = s]
  /\ Goto("document")
  /\ UNCHANGED <<auto_release, spec, writer, tree, repo, github>>

document ==
  /\ At("document")
  /\ answered_or_late
  /\ Goto("release")
  /\ UNCHANGED <<auto_release, spec, said, tree, repo, github>>

release ==
  /\ At("release")
  /\ \E t \in ReleaseAnswers : said' = [said EXCEPT !.rel = t]
  /\ Goto("commit")
  /\ UNCHANGED <<auto_release, spec, writer, tree, repo, github>>

\* Mutant of _verdict: the approving words are looked for first.
_verdict_hopeful(text) ==
  IF text \cap {"APPROVE", "GO"} # {} THEN "APPROVE/GO"
  ELSE IF text # {} THEN "REQUEST-CHANGES/NO-GO" ELSE "unclear"

_verdict(text) ==
  IF text \cap {"NO-GO", "REQUEST-CHANGES"} # {} THEN "REQUEST-CHANGES/NO-GO"
  ELSE IF text # {} THEN "APPROVE/GO" ELSE "unclear"

release_ok == \A who \in DOMAIN said : _verdict(said[who]) = "APPROVE/GO"

-------------------------------------------------------------------------------
(* Commit, pull request, merge, CI. *)

Refuse(what) == [job EXCEPT !.refused = @ \cup what]

\* `git add -A`, commit, push: the branch follows on GitHub unless a branch of
\* an earlier run, not merged since, is in the way.  A failing `git status`
\* reads as an empty one.
commit_and_push_branch ==
  /\ At("commit")
  /\ \/ /\ job' = [Refuse({"commit"}) EXCEPT !.pc = "close", !.finalized = "no changes"]
        /\ UNCHANGED <<tree, repo, github>>
     \/ \E committed, pushed \in BOOLEAN :
          /\ pushed /\ committed => github.branch = 0 \/ Feature(github.branch) \in repo.main
          /\ job' = [Refuse((IF committed THEN {} ELSE {"commit"}) \cup (IF pushed THEN {} ELSE {"branch"}))
                       EXCEPT !.pc = IF auto_release /\ release_ok THEN "merge" ELSE "open_pr"]
          /\ IF committed
             THEN tree' = [tree EXCEPT !.changes = "none"] /\ repo' = [repo EXCEPT !.branch = job.run]
             ELSE UNCHANGED <<tree, repo>>
          /\ github' = IF committed /\ pushed THEN [github EXCEPT !.branch = job.run] ELSE github
  /\ UNCHANGED <<auto_release, spec, said, writer>>

\* The answer begins with "opened PR" whatever gh says.
open_pr ==
  /\ At("open_pr")
  /\ Finalize("opened PR")
  /\ UNCHANGED <<auto_release, spec, said, writer, tree, repo, github>>

\* git push origin main with local main at `head`: accepted if it contains what
\* GitHub has; a new head starts a CI run and moves the tracking branch.
CanPush(head) == github.main \subseteq head
Pushed(head) ==
  [github EXCEPT !.main = head,
                 !.ci = [h \in DOMAIN @ \cup {head} |-> IF h \in DOMAIN @ THEN @[h] ELSE "running"]]

\* The merge commits what the branch has; a conflict, or a file an agent has
\* left changed in the main checkout, makes git refuse it.
merge ==
  /\ At("merge")
  /\ writer' = "none"
  /\ \E merged, pushed \in BOOLEAN :
       LET head == IF merged /\ repo.branch = job.run THEN repo.main \cup {Feature(job.run)} ELSE repo.main
       IN /\ pushed => CanPush(head)
          /\ job' = [Refuse((IF merged THEN {} ELSE {"merge"}) \cup (IF pushed THEN {} ELSE {"main"}))
                       EXCEPT !.pc = "watch"]
          /\ repo' = [repo EXCEPT !.main = head, !.origin = IF pushed THEN head ELSE @]
          /\ github' = IF pushed THEN Pushed(head) ELSE github
  /\ UNCHANGED <<auto_release, spec, said, tree>>

\* Mutant of watched: the newest state of any run will do.
watched_any == {github.ci[h] : h \in DOMAIN github.ci}

\* The run whose headSha is the tracking branch.
watched == {github.ci[repo.origin]}

\* _ci_green_for: a completed run decides, no answer in time counts as red.
_ci_green_for ==
  /\ At("watch")
  /\ \/ /\ "success" \in watched
        /\ Finalize("auto-merged")
     \/ Goto(IF job.attempts < max_ci_fix THEN "recover" ELSE "escalate")
  /\ UNCHANGED <<auto_release, spec, said, writer, tree, repo, github>>

\* One attempt: the team edits the main checkout, the gate runs there, and a
\* green one is committed, pushed and watched.
recover ==
  /\ At("recover")
  /\ \E c \in Changes \ {"none"}, green, committed, pushed \in BOOLEAN :
       LET n    == job.attempts + 1
           head == IF committed THEN repo.main \cup {Fix(job.run, n)} ELSE repo.main
       IN /\ c = "untracked" => repo.changes # "edited"
          /\ may_pass(c, green)
          /\ IF green
             THEN /\ pushed => CanPush(head)
                  /\ job' = [job EXCEPT !.pc = "watch", !.attempts = n]
                  /\ repo' = [repo EXCEPT !.main = head, !.origin = IF pushed THEN head ELSE @,
                                          !.changes = IF committed THEN "none" ELSE c]
                  /\ github' = IF pushed THEN Pushed(head) ELSE github
             ELSE /\ job' = [job EXCEPT !.pc = IF n < max_ci_fix THEN "recover" ELSE "escalate",
                                        !.attempts = n]
                  /\ repo' = [repo EXCEPT !.changes = c]
                  /\ UNCHANGED github
  /\ UNCHANGED <<auto_release, spec, said, writer, tree>>

escalate ==
  /\ At("escalate")
  /\ Finalize("ESCALATED")
  /\ UNCHANGED <<auto_release, spec, said, writer, tree, repo, github>>

-------------------------------------------------------------------------------
(* The end of a run. *)

\* Mutant of terminal: the worktree is removed whatever happened.
terminal_always == TRUE

terminal == job.finalized \in {"opened PR", "auto-merged", "no changes"}

\* run's finally, and what the intake sees: an answer, or the exception.
close ==
  /\ At("close")
  /\ writer' = "none"
  /\ IF terminal
     THEN tree' = NoTree /\ repo' = [repo EXCEPT !.branch = 0]
     ELSE UNCHANGED <<tree, repo>>
  /\ Goto(IF job.finalized = "None" THEN "idle" ELSE "file")
  /\ UNCHANGED <<auto_release, spec, said, github>>

\* The spec moves to done, whatever the outcome.
file_spec ==
  /\ At("file")
  /\ spec' = "done"
  /\ Goto("idle")
  /\ UNCHANGED <<auto_release, said, writer, tree, repo, github>>

job_step ==
  \/ start_agents \/ implement \/ run_gate \/ fix \/ review \/ document \/ release
  \/ commit_and_push_branch \/ open_pr \/ merge \/ _ci_green_for \/ recover \/ escalate
  \/ close \/ file_spec

\* A log that cannot be written, or an agent that recovery cannot reach: the
\* exception leaves through the finally.
raises ==
  /\ job.pc \in Steps \ {"start_agents", "close", "file"}
  /\ job' = [job EXCEPT !.pc = "close", !.fixes = 0, !.attempts = 0]
  /\ UNCHANGED <<auto_release, spec, said, writer, tree, repo, github>>

\* The process is killed: no finally, and its agents live on.
kill ==
  /\ job.pc # "idle"
  /\ job' = [job EXCEPT !.pc = "idle", !.finalized = "None", !.fixes = 0, !.attempts = 0]
  /\ writer' \in {writer} \cup (IF job.pc \in Asking THEN {"worktree"} ELSE {})
                          \cup (IF job.pc = "recover" THEN {"repo"} ELSE {})
  /\ UNCHANGED <<auto_release, spec, said, tree, repo, github>>

others_push ==
  /\ Other \notin github.main
  /\ github' = Pushed(github.main \cup {Other})
  /\ UNCHANGED <<auto_release, spec, job, said, writer, tree, repo>>

ci_completes ==
  /\ \E h \in DOMAIN github.ci, s \in {"success", "failure"} :
       /\ github.ci[h] = "running"
       /\ github' = [github EXCEPT !.ci[h] = s]
  /\ UNCHANGED <<auto_release, spec, job, said, writer, tree, repo>>

\* Nothing in the inbox, or nobody starts the intake again.
poll == At("idle") /\ UNCHANGED vars

Next == start \/ job_step \/ raises \/ kill \/ agent_writes \/ agent_ends
          \/ others_push \/ ci_completes \/ poll

\* Every wait of the pipeline ends: agents by the client's timeout, CI by the
\* deadline, test suites and git because the checkout's commands end.
Fairness == WF_vars(job_step)

Spec == Init /\ [][Next]_vars /\ Fairness

-------------------------------------------------------------------------------
(* Properties. *)

TypeOK ==
  /\ auto_release \in BOOLEAN
  /\ spec \in {"inbox", "done"}
  /\ job \in Job
  /\ said \in [{"code", "sec", "rel"} -> SUBSET Needles]
  /\ writer \in {"none", "worktree", "repo"}
  /\ tree \in [run : 0 .. MaxRuns, changes : Changes]
  /\ repo \in [branch : 0 .. MaxRuns, main : SUBSET Commits, origin : SUBSET Commits, changes : Changes]
  /\ github.branch \in 0 .. MaxRuns /\ github.main \in DOMAIN github.ci
  /\ \A h \in DOMAIN github.ci : h \subseteq Commits /\ github.ci[h] \in {"running", "success", "failure"}

\* The feature of this run is on main, here or on GitHub, only if the owner
\* asked for it, the gate was green, and no reviewer and no release manager
\* used a word of refusal or failed to use one of approval.
ReleasedOnlyIfCleared ==
  Feature(job.run) \in repo.main \cup github.main =>
    /\ auto_release /\ job.gate_green
    /\ \A who \in DOMAIN said :
         said[who] # {} /\ said[who] \cap {"NO-GO", "REQUEST-CHANGES"} = {}

\* Work that passed the gate is not thrown away until the next run of the spec
\* begins: it is in the worktree, on the branch, in the main checkout or on
\* GitHub - unless git refused the commit or the push of the branch, unnoticed.
GreenWorkSurvives ==
  job.gate_green =>
    \/ tree.run = job.run /\ tree.changes # "none"
    \/ job.run \in {repo.branch, github.branch}
    \/ Feature(job.run) \in repo.main
    \/ job.refused \cap {"commit", "branch"} # {}

\* "auto-merged ... CI green" is true unless git refused a step towards main,
\* unnoticed: GitHub's main has the feature, and CI passed on a head with it.
MergedUnlessRefused ==
  job.finalized = "auto-merged" /\ job.refused \cap {"commit", "merge", "main"} = {} =>
    /\ Feature(job.run) \in github.main
    /\ \E h \in DOMAIN github.ci : Feature(job.run) \in h /\ github.ci[h] = "success"

\* Trees and runs are what they should be, and no merge is reported in vain.
Consistent == TypeOK /\ MergedUnlessRefused

\* Every run comes to an end: fix rounds, recovery attempts and waits are bounded.
RunEnds == ~At("idle") ~> At("idle")
===============================================================================
