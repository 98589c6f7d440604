------------------------------- MODULE GitRepo -------------------------------
(***************************************************************************)
(* The git state that platform/delegation/worktree.py changes: per task a  *)
(* worktree directory, the branch task/<id> and the tag rejected/<id>, and *)
(* the integration branch main of the live repository.  Every operation    *)
(* but the commit runs under _REPO_GIT_LOCK, so each is one step.          *)
(*                                                                         *)
(* A ref is "base" while it points at the commit the worktree was created  *)
(* from and "work" once the engine has committed the accepted work on it.  *)
(***************************************************************************)
CONSTANT Task

VARIABLES
    dir,        \* tasks whose directory .worktrees/<id> exists
    bare,       \* those of them whose directory is no worktree of git's any more
    ref,        \* [Task -> Ref]: the branch task/<id>
    tag,        \* [Task -> Ref]: the tag rejected/<id>
    main        \* tasks whose work is reachable from main

gitVars == <<dir, bare, ref, tag, main>>

Ref == {"none", "base", "work"}

GitInit ==
    /\ dir = {} /\ bare = {}
    /\ ref = [t \in Task |-> "none"]
    /\ tag = [t \in Task |-> "none"]
    /\ main = {}

\* git worktree add -b: refused when the path or the branch exists already.
CreateWorktree(t) ==
    /\ t \notin dir /\ ref[t] = "none"
    /\ dir' = dir \cup {t}
    /\ ref' = [ref EXCEPT ![t] = "base"]
    /\ UNCHANGED <<bare, tag, main>>

\* The engine's commit of the staged work, inside the worktree.
Commit(t) ==
    /\ ref' = [ref EXCEPT ![t] = "work"]
    /\ UNCHANGED <<dir, bare, tag, main>>

\* Mistakes the merge could make: taking the failure to find the branch for
\* success; merging into whatever branch the repository is on (into=None).
MergeForgiving(t) ==
    /\ main' = IF ref[t] = "work" THEN main \cup {t} ELSE main
    /\ UNCHANGED <<dir, bare, ref, tag>>
MergeElsewhere(t) == ref[t] # "none" /\ UNCHANGED gitVars

\* A successful merge_worktree.  Merging a branch that still points at its
\* base is "Already up to date": it succeeds and brings nothing in.
Merge(t) ==
    /\ ref[t] # "none"
    /\ main' = IF ref[t] = "work" THEN main \cup {t} ELSE main
    /\ UNCHANGED <<dir, bare, ref, tag>>

\* The mistake of reporting a tag that was never moved to the branch.
PreserveNothing(t) == ref[t] # "none" /\ UNCHANGED gitVars

\* A successful preserve_branch: tag -f.
PreserveBranch(t) ==
    /\ ref[t] # "none"
    /\ tag' = [tag EXCEPT ![t] = ref[t]]
    /\ UNCHANGED <<dir, bare, ref, main>>

\* remove_worktree with its default delete_branch=True.  dirGone and branchGone
\* say which of the two best-effort git commands did its work; "worktree
\* remove" cannot when the caller has no path for it (named = FALSE) or the
\* path is no worktree, and "branch -D" refuses a branch that a worktree still
\* has checked out.
RemoveWorktree(t, named, dirGone, branchGone) ==
    /\ dir' = IF named /\ dirGone THEN dir \ ({t} \ bare) ELSE dir
    /\ ref' = IF branchGone /\ t \notin dir' \ bare THEN [ref EXCEPT ![t] = "none"] ELSE ref
    /\ UNCHANGED <<bare, tag, main>>

\* Somebody writes a file under a path that was removed: write_file makes the
\* directories above it anew, and git does not know them.
WriteAnew(t) ==
    /\ t \notin dir
    /\ dir' = dir \cup {t} /\ bare' = bare \cup {t}
    /\ UNCHANGED <<ref, tag, main>>

GitTypeOK ==
    /\ dir \subseteq Task /\ bare \subseteq dir
    /\ ref \in [Task -> Ref]
    /\ tag \in [Task -> Ref]
    /\ main \subseteq Task
=============================================================================
