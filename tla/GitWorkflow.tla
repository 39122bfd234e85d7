------------------------------ MODULE GitWorkflow ------------------------------
(***************************************************************************)
(* The git commands of the CLI: /commit, /commit-push-pr, /pr, /branch and *)
(* /worktree (openyak-cli main.rs run_commit .. run_issue, and the         *)
(* handlers of the commands crate).  Each is a chain of git and gh         *)
(* subprocesses, any of which may fail, and between two of them the user's *)
(* editor goes on changing files: the model is that generates the message  *)
(* takes seconds.  A change is named by the kind of file it is in.         *)
(***************************************************************************)
CONSTANTS Default,    \* the default branch
          Branches,   \* branch names, Default among them
          NewBranch,  \* the name build_branch_name derives from the hint
          Trees       \* paths of additional worktrees

ASSUME GitAssumption == Default \in Branches /\ NewBranch \in Branches

VARIABLES head,       \* the branch checked out
          commits,    \* the changes each local branch has; absent branches are Gone
          dirty,      \* kinds of files changed in the working tree
          index,      \* changes staged
          remote,     \* what origin has of each branch
          pulls,      \* pull request of each branch: none, open or closed
          trees,      \* branch of each additional worktree, or none
          flow        \* the running command

gitVars == <<head, commits, dirty, index, remote, pulls, trees, flow>>
repository == <<head, commits, dirty, index, remote, pulls, trees>>

\* Files under .openyak/sessions and settings.local.json are "local".
FileKinds == {"code", "omx", "local"}
Gone == {"gone"}
Exists(b) == commits[b] # Gone
NoFlow == [cmd |-> "idle"]
Ended(result) == [cmd |-> "ended", result |-> result, branch |-> head]

GitInit ==
  /\ head = Default
  /\ commits = [b \in Branches |-> IF b = Default THEN {} ELSE Gone]
  /\ dirty = {} /\ index = {}
  /\ remote = [b \in Branches |-> IF b = Default THEN {} ELSE Gone]
  /\ pulls = [b \in Branches |-> "none"]
  /\ trees = [p \in Trees |-> "none"]
  /\ flow = NoFlow

\* What a status or a diff shows: the CLI leaves .omx out, the commands crate
\* does not; neither looks at the local files.
git_output_filtered == (dirty \cup index) \ {"omx", "local"}
git_stdout_filtered == (dirty \cup index) \ {"local"}
branch_diff == commits[head] \ commits[Default]

flow_goes(step) == flow' = [flow EXCEPT !.step = step]
gives_up == flow' = Ended("error")
skips == flow' = Ended("skipped")

\* The CLI's own checks, and the message: it describes the files the CLI sees.
start_flow(cmd, described) ==
  flow' = [cmd |-> cmd, step |-> "generate", described |-> described, late |-> {},
           branch |-> head, created |-> FALSE, changed |-> FALSE]

run_commit ==
  /\ flow = NoFlow
  /\ IF git_output_filtered = {} THEN skips ELSE start_flow("commit", git_output_filtered)
  /\ UNCHANGED repository

\* A missing or unauthenticated gh ends the command before anything is generated.
ensure_github_cli_ready(Then) == gives_up \/ Then

run_commit_push_pr ==
  /\ flow = NoFlow
  /\ IF git_output_filtered = {} /\ branch_diff = {} THEN skips
     ELSE ensure_github_cli_ready(start_flow("publish", git_output_filtered))
  /\ UNCHANGED repository

run_pr ==
  /\ flow = NoFlow
  /\ ensure_github_cli_ready(start_flow("pr", {}))
  /\ UNCHANGED repository

\* A draft without a commit message is refused where there is something to commit.
parse_commit_push_pr_draft(message) == message \/ flow.described = {}

generated ==
  /\ flow.cmd \in {"commit", "publish", "pr"} /\ flow.step = "generate"
  /\ \/ gives_up
     \/ flow.cmd = "commit" /\ flow_goes("status")
     \/ flow.cmd = "pr" /\ flow_goes("create")
     \/ /\ flow.cmd = "publish"
        /\ \E message \in BOOLEAN :
             IF ~ parse_commit_push_pr_draft(message) THEN gives_up
             ELSE IF git_stdout_filtered = {} /\ branch_diff = {} THEN skips
             ELSE /\ flow' = [flow EXCEPT !.step = "branch", !.changed = git_stdout_filtered # {},
                                          !.late = IF message THEN @ ELSE @ \cup {"unnamed"}]
  /\ UNCHANGED repository

\* On the default branch a new one is created, and switched to.
ensure_commit_push_pr_branch ==
  /\ flow.cmd = "publish" /\ flow.step = "branch"
  /\ LET next == IF ~ flow.changed THEN "diff"
                 ELSE IF "unnamed" \in flow.late THEN "refuse" ELSE "status" IN
     \/ /\ head # Default
        /\ flow' = [flow EXCEPT !.step = next, !.branch = head]
        /\ UNCHANGED repository
     \/ /\ head = Default /\ ~ Exists(NewBranch)
        /\ commits' = [commits EXCEPT ![NewBranch] = commits[head]]
        /\ head' = NewBranch
        /\ flow' = [flow EXCEPT !.step = next, !.branch = NewBranch, !.created = TRUE]
        /\ UNCHANGED <<dirty, index, remote, pulls, trees>>
     \/ head = Default /\ gives_up /\ UNCHANGED repository

\* handle_commit_slash_command looks at the status again, then stages
\* everything, takes the local files out of the index, and commits.
handle_commit_slash_command ==
  /\ flow.cmd \in {"commit", "publish"} /\ flow.step \in {"status", "refuse"}
  /\ \/ flow.step = "refuse" /\ gives_up
     \/ /\ flow.step = "status" /\ git_stdout_filtered = {}
        /\ IF flow.cmd = "commit" THEN skips ELSE flow_goes("diff")
     \/ flow.step = "status" /\ git_stdout_filtered # {} /\ flow_goes("add")
  /\ UNCHANGED repository

\* Mutant: only what was not staged before is taken out again.
git_stage_workspace_changes_added ==
  \/ /\ flow.cmd \in {"commit", "publish"} /\ flow.step = "add"
     /\ index' = index \cup (dirty \ {"local"}) /\ dirty' = {}
     /\ flow_goes("commit")
     /\ UNCHANGED <<head, commits, remote, pulls, trees>>

git_stage_workspace_changes ==
  \/ /\ flow.cmd \in {"commit", "publish"} /\ flow.step = "add"
     /\ \/ gives_up /\ UNCHANGED repository
        \/ /\ index' = index \cup dirty /\ dirty' = {}
           /\ flow_goes("reset")
           /\ UNCHANGED <<head, commits, remote, pulls, trees>>
  \/ /\ flow.cmd \in {"commit", "publish"} /\ flow.step = "reset"
     /\ \/ gives_up /\ UNCHANGED repository
        \/ /\ index' = index \ {"local"}
           /\ dirty' = dirty \cup (index \cap {"local"})
           /\ flow_goes("commit")
           /\ UNCHANGED <<head, commits, remote, pulls, trees>>

git_commit ==
  /\ flow.cmd \in {"commit", "publish"} /\ flow.step = "commit"
  /\ \/ gives_up /\ UNCHANGED repository
     \/ /\ index # {}
        /\ commits' = [commits EXCEPT ![head] = @ \cup index]
        /\ index' = {}
        /\ flow' = IF flow.cmd = "commit"
                   THEN [cmd |-> "committed", of |-> index, described |-> flow.described,
                         late |-> flow.late]
                   ELSE [flow EXCEPT !.step = "diff"]
        /\ UNCHANGED <<head, dirty, remote, pulls, trees>>

git_diff ==
  /\ flow.cmd = "publish" /\ flow.step = "diff"
  /\ IF branch_diff = {} THEN skips ELSE flow_goes("push")
  /\ UNCHANGED repository

\* git push --set-upstream origin <branch>
git_push ==
  /\ flow.cmd = "publish" /\ flow.step = "push"
  /\ \/ gives_up /\ UNCHANGED repository
     \/ /\ remote' = [remote EXCEPT ![flow.branch] = commits[flow.branch]]
        /\ flow_goes("create")
        /\ UNCHANGED <<head, commits, dirty, index, pulls, trees>>

\* gh pr create; when it fails, /commit-push-pr reports the one gh pr view shows.
gh_pr_create ==
  /\ flow.cmd \in {"publish", "pr"} /\ flow.step = "create"
  /\ \/ /\ remote[head] # Gone /\ pulls[head] # "open" /\ head # Default
        /\ pulls' = [pulls EXCEPT ![head] = "open"]
        /\ flow' = [Ended("created") EXCEPT !.cmd = IF flow.cmd = "publish" THEN "publish done"
                                                  ELSE "pr done"]
     \/ /\ flow.cmd = "publish" /\ pulls[head] # "none"
        /\ flow' = [Ended("existing") EXCEPT !.cmd = "publish done"]
        /\ UNCHANGED pulls
     \/ gives_up /\ UNCHANGED pulls
  /\ UNCHANGED <<head, commits, dirty, index, remote, trees>>

\* The report is read, and the next command can come.
read_report ==
  /\ flow.cmd \in {"ended", "committed", "publish done", "pr done"}
  /\ flow' = NoFlow
  /\ UNCHANGED repository

\* /branch create, /branch switch; git keeps the changes in the working tree.
handle_branch_slash_command ==
  /\ flow = NoFlow
  /\ \E b \in Branches :
       /\ b # head /\ \A p \in Trees : trees[p] # b
       /\ commits' = IF Exists(b) THEN commits ELSE [commits EXCEPT ![b] = commits[head]]
       /\ head' = b
  /\ UNCHANGED <<dirty, index, remote, pulls, trees, flow>>

\* /worktree add takes an existing branch or creates it; remove leaves it.
handle_worktree_slash_command ==
  /\ flow = NoFlow
  /\ \E p \in Trees :
       \/ /\ trees[p] = "none"
          /\ \E b \in Branches :
               /\ b # head /\ \A q \in Trees : trees[q] # b
               /\ commits' = IF Exists(b) THEN commits ELSE [commits EXCEPT ![b] = commits[head]]
               /\ trees' = [trees EXCEPT ![p] = b]
       \/ /\ trees[p] # "none"
          /\ trees' = [trees EXCEPT ![p] = "none"]
          /\ UNCHANGED commits
  /\ UNCHANGED <<head, dirty, index, remote, pulls, flow>>

\* The user edits a file, or stages one, at any time; a merged or rejected
\* request is closed on GitHub.
edit ==
  /\ \E k \in FileKinds \ dirty : 
       /\ dirty' = dirty \cup {k}
       /\ flow' = IF "late" \in DOMAIN flow /\ flow.cmd # "committed"
                  THEN [flow EXCEPT !.late = @ \cup {k}] ELSE flow
  /\ UNCHANGED <<head, commits, index, remote, pulls, trees>>

stage ==
  /\ flow = NoFlow
  /\ \E k \in dirty : index' = index \cup {k} /\ dirty' = dirty \ {k}
  /\ UNCHANGED <<head, commits, remote, pulls, trees, flow>>

close ==
  /\ \E b \in Branches : pulls[b] = "open" /\ pulls' = [pulls EXCEPT ![b] = "closed"]
  /\ UNCHANGED <<head, commits, dirty, index, remote, trees, flow>>

GitNext ==
  \/ run_commit \/ run_commit_push_pr \/ run_pr \/ generated
  \/ ensure_commit_push_pr_branch \/ handle_commit_slash_command
  \/ git_stage_workspace_changes \/ git_commit \/ git_diff \/ git_push \/ gh_pr_create
  \/ read_report \/ handle_branch_slash_command \/ handle_worktree_slash_command
  \/ edit \/ stage \/ close

--------------------------------------------------------------------------------
(* Properties *)

\* Sessions and local settings are never committed, even when the user had
\* staged them, edited them between the steps, or an earlier attempt failed
\* between git add and git reset.
LocalFilesStayLocal == \A b \in Branches : "local" \notin commits[b]

\* A commit holds what its message was generated from, what was edited while it
\* was generated, and .omx files, which the message's view of the workspace
\* leaves out and the commit's does not.
CommittedWasDescribed ==
  flow.cmd = "committed" => flow.of \subseteq flow.described \cup flow.late \cup {"omx"}

\* /commit-push-pr neither commits to the default branch nor pushes it, also
\* when an attempt that failed halfway is repeated; and when it reports a pull
\* request, there is one for the branch, and origin has all of its commits.
PublishedTruthfully ==
  /\ remote[Default] = {}
  /\ flow.cmd = "publish" /\ flow.step \in {"add", "reset", "commit"} => head # Default
  /\ flow.cmd = "publish done" =>
       /\ pulls[flow.branch] # "none"
       /\ remote[flow.branch] = commits[flow.branch]
================================================================================
