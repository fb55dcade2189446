------------------------------- MODULE Logger -------------------------------
(***************************************************************************)
(* packages/logger/src/index.ts. input is a variable of the package.       *)
(***************************************************************************)
EXTENDS SharedInput

LogInput == {"logger.input"}

\* Mutant: an input that is there is kept.
StartsLogger_Once(r) ==
  /\ Doing(r, "before", "logger", 0)
  /\ IF owner["logger.input"] = None THEN Set(r, LogInput) ELSE UNCHANGED owner
  /\ Continue(r)
  /\ UNCHANGED uses

StartsLogger(r) ==
  /\ Doing(r, "before", "logger", 0)
  /\ Set(r, LogInput)
  /\ Continue(r)
  /\ UNCHANGED uses

\* APPEND, APPEND_NAMED, APPEND_ARRAY look up path and lines in the result and
\* the input; a value that is missing or a path outside LOGGER_DIR rejects. What
\* another request has left in input may have the values or not. addLog opens
\* the stream and writes to it.
StartsLog(r) ==
  /\ Doing(r, "success", "log", 0)
  /\ uses' = uses \cup {UseOf(r, LogInput, owner)}
  /\ LET strange == owner["logger.input"] # r
     IN \/ (Step(r).defined \/ strange) /\ Await(r)
        \/ (~Step(r).defined \/ strange) /\ Reject(r, "not defined")
  /\ UNCHANGED owner

\* The stream is closed and the promise resolves.
LogIsWritten(r) ==
  /\ Doing(r, "success", "log", 1)
  /\ Continue(r)
  /\ UNCHANGED sharedVars

\* The stream has an error: its handler throws, out of every promise.
LogFails(r) ==
  /\ Doing(r, "success", "log", 1)
  /\ Crash
  /\ UNCHANGED sharedVars

LoggerNext ==
  \E r \in Requests :
    /\ Uses(r, "logger")
    /\ StartsLogger(r) \/ StartsLog(r) \/ LogIsWritten(r) \/ LogFails(r)
=============================================================================
