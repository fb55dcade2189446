------------------------------- MODULE Files -------------------------------
(***************************************************************************)
(* packages/files/src/index.ts. input is a variable of the package.        *)
(***************************************************************************)
EXTENDS SharedInput

Input == {"files.input"}

\* What a sentence looks up in the result, and in the input if it is not there:
\* what to store or download, and where to.
Values == {"content", "path"}

\* A sentence tells which of its two values the result of the contract lacks, and
\* whether its own input has these.
ASSUME FilesAssumption ==
  \A step \in Asked("files", "success") :
    /\ step.op \in {"store", "download"} /\ step.lacks \subseteq Values
    /\ step.lacks = {} => step.defined

\* Mutant: the input is set at the end of the hook only.
StartsFiles_KeepsInput(r) ==
  /\ Doing(r, "before", "files", 0)
  /\ uses' = uses \cup {UseOf(r, Input, owner)}
  /\ \/ "wrong" \in Step(r).files /\ Reject(r, "file") /\ UNCHANGED owner
     \/ "wrong" \notin Step(r).files /\ Step(r).folders = {} /\ Continue(r) /\ Set(r, Input)
     \/ "wrong" \notin Step(r).files /\ Step(r).folders # {} /\ Await(r) /\ UNCHANGED owner

\* onBefore up to its first await. READ and READ_AND_SAVE do not wait: a file
\* that is missing counts as empty, one outside FILES_DIR or that is not JSON
\* ends the hook. LS takes its folders from the input in the same turn.
StartsFiles(r) ==
  /\ Doing(r, "before", "files", 0)
  /\ Set(r, Input)
  /\ uses' = uses \cup {UseOf(r, Input, owner')}
  /\ \/ "wrong" \in Step(r).files /\ Reject(r, "file")
     \/ "wrong" \notin Step(r).files /\ Step(r).folders = {} /\ Continue(r)
     \/ "wrong" \notin Step(r).files /\ Step(r).folders # {} /\ Await(r)

\* LS: readdir of all folders; one outside FILES_DIR or unreadable ends the hook.
ReadsFolders(r) ==
  /\ Doing(r, "before", "files", 1)
  /\ \/ "wrong" \notin Step(r).folders /\ Await(r)
     \/ Reject(r, "folder")
  /\ UNCHANGED sharedVars

\* stat of all the files listed, some of which may be gone; at the end of the
\* hook the input is set again.
StatsFiles(r) ==
  /\ Doing(r, "before", "files", 2)
  /\ \/ Receive(r, Step(r).name, <<"stats">>) /\ Set(r, Input)
     \/ Reject(r, "ENOENT") /\ UNCHANGED owner
  /\ UNCHANGED uses

\* result[name] || input[name], for each of the two values: one may come from the
\* result, the other from what another request has left in input, which may have
\* an entry of this name or not.
LooksUp(r) ==
  /\ uses' = IF Step(r).lacks = {} THEN uses ELSE uses \cup {UseOf(r, Input, owner)}
  /\ UNCHANGED owner

Strange(r) == Step(r).lacks # {} /\ owner["files.input"] # r
Finds(r) == Step(r).defined \/ Strange(r)
Misses(r) == ~Step(r).defined \/ Strange(r)

\* DOWNLOAD looks up url and folder and asks for the archive. Errors from here
\* on are handed to Express as well (Dispatch).
StartsDownload(r) ==
  /\ Doing(r, "success", "download", 0)
  /\ LooksUp(r)
  /\ \/ Finds(r) /\ Await(r)
     \/ Misses(r) /\ Reject(r, "not defined")

\* The archive has arrived and is extracted; then the temporary file goes.
Downloads(r) ==
  /\ Doing(r, "success", "download", 1) \/ Doing(r, "success", "download", 2)
  /\ \/ at[r] = 1 /\ Await(r)
     \/ at[r] = 2 /\ Continue(r)
     \/ Reject(r, "download")
  /\ UNCHANGED sharedVars

\* STORE_RESULT does not wait.
StoresResult(r) ==
  /\ Doing(r, "success", "store", 0)
  /\ LooksUp(r)
  /\ \/ Finds(r) /\ (Continue(r) \/ Reject(r, "file"))
     \/ Misses(r) /\ Reject(r, "not defined")

FilesNext ==
  \E r \in Requests :
    /\ Uses(r, "files")
    /\ \/ StartsFiles(r) \/ ReadsFolders(r) \/ StatsFiles(r)
       \/ StartsDownload(r) \/ Downloads(r) \/ StoresResult(r)
=============================================================================
