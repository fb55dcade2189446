-------------------------------- MODULE Git --------------------------------
(***************************************************************************)
(* packages/git/src/index.ts. The library (external) does each add and     *)
(* each commit under a lock of the index of the repository; a commit takes *)
(* the whole index, whoever has added to it.                               *)
(***************************************************************************)
EXTENDS Requests

VARIABLES
  cloned,   \* the repositories there are
  index,    \* the files in the indexes, as pairs of a repository and a file
  head,     \* the files in the last commits
  adding    \* request -> the files whose git.add is under way

gitVars == <<cloned, index, head, adding>>

GitTypeOK ==
  /\ head \subseteq index
  /\ \A f \in index : f[1] \in cloned
  /\ DOMAIN adding = Requests

GitInit == cloned = {} /\ index = {} /\ head = {} /\ adding = [r \in Requests |-> {}]

\* CLONE, for one repository of its sentence, and VERIFY
Clones(r) ==
  /\ Doing(r, "before", "clone", 0)
  /\ \/ cloned' = cloned \cup {Step(r).repo} /\ Continue(r)
     \/ Reject(r, "clone") /\ UNCHANGED cloned
  /\ UNCHANGED <<index, head, adding>>

Verifies(r) ==
  /\ Doing(r, "before", "verify", 0)
  /\ IF Step(r).repos \subseteq cloned THEN Continue(r) ELSE Reject(r, "no repository")
  /\ UNCHANGED gitVars

Files(step) == {<<step.repo, f>> : f \in step.files}
Of(repo, files) == {f \in files : f[1] = repo}

\* COMMIT starts all git.add at once.
StartsCommit(r) ==
  /\ Doing(r, "success", "commit", 0)
  /\ IF Step(r).defined
     THEN adding' = [adding EXCEPT ![r] = Files(Step(r))] /\ Await(r)
     ELSE Reject(r, "no details") /\ UNCHANGED adding
  /\ UNCHANGED <<cloned, index, head>>

\* They go on when the hook has failed.
Adds(r, f) ==
  /\ up /\ f[1] \in cloned
  /\ adding' = [adding EXCEPT ![r] = @ \ {f}]
  /\ index' = index \cup {f}
  /\ UNCHANGED <<frame, cloned, head>>

\* The file is not there, or there is no repository: Promise.all rejects.
AddFails(r, f) ==
  /\ up
  /\ adding' = [adding EXCEPT ![r] = @ \ {f}]
  /\ IF Doing(r, "success", "commit", 1) THEN Reject(r, "add") ELSE UNCHANGED frame
  /\ UNCHANGED <<cloned, index, head>>

\* Mutant: the hook does not wait for git.add.
Commits_AtOnce(r) ==
  /\ Doing(r, "success", "commit", 1)
  /\ head' = head \cup Of(Step(r).repo, index)
  /\ Continue(r)
  /\ UNCHANGED <<cloned, index, adding>>

\* All files are added; the commit takes what is in the index.
Commits(r) ==
  /\ Doing(r, "success", "commit", 1)
  /\ adding[r] = {}
  /\ \/ head' = head \cup Of(Step(r).repo, index) /\ Step(r).repo \in cloned /\ Continue(r)
     \/ Reject(r, "commit") /\ UNCHANGED head
  /\ UNCHANGED <<cloned, index, adding>>

GitNext ==
  \E r \in Requests :
    /\ Uses(r, "git")
    /\ \/ Clones(r) \/ Verifies(r) \/ StartsCommit(r) \/ Commits(r)
       \/ \E f \in adding[r] : Adds(r, f) \/ AddFails(r, f)

-----------------------------------------------------------------------------
\* The files of a request that is done are in the last commit of its repository,
\* with commits of other requests before, in between and after.
CommitsAreComplete ==
  \A r \in Requests :
    (Uses(r, "git") /\ stage[r] = "done") =>
      \A c \in DOMAIN plan[r].calls : \A i \in DOMAIN plan[r].calls[c].success :
        Files(plan[r].calls[c].success[i]) \subseteq head
=============================================================================
