----------------------------- MODULE MCLifecycle -----------------------------
\* One contract call.  Any subset of these hooks may get registered: phases
\* without hooks, with one, and (onBefore, onSuccess, onFinish) with two, so
\* that a rejection can leave a hook behind before, after and at the end of
\* the Zenroom run.
EXTENDS Lifecycle

CONSTANTS i1, b1, b2, s1, s2, a1, e1, x1, f1, f2

MCHooks == {i1, b1, b2, s1, s2, a1, e1, x1, f1, f2}

MCPhaseOf ==
  [h \in MCHooks |-> CASE h = i1         -> "onInit"
                       [] h \in {b1, b2} -> "onBefore"
                       [] h \in {s1, s2} -> "onSuccess"
                       [] h = a1         -> "onAfter"
                       [] h = e1         -> "onError"
                       [] h = x1         -> "onException"
                       [] h \in {f1, f2} -> "onFinish"]
=============================================================================
