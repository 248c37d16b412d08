--------------------------- MODULE ForeignLineage ---------------------------
(***************************************************************************)
(* The hold a Task keeps on an input owned by another process, so that the *)
(* input outlives every execution of the Task (foreign_lineage.py), and    *)
(* the saga that moves the hold from the attempt that used it last to the  *)
(* attempt that is about to use it (foreign_lineage_runtime.py).           *)
(*                                                                         *)
(* The owner F of the inputs replaces a hold atomically and remembers      *)
(* every replacement and every release (ownership.py), so a request whose  *)
(* answer was lost can be sent again; one whose sender gave it up may      *)
(* still arrive later.  A thread drives a renewal at a time; where that    *)
(* thread stands is the caller's (Reconstruction.tla).  F may exit, and    *)
(* its death is known here only some time later.                           *)
(***************************************************************************)
EXTENDS RetryBudget, FiniteSets

CONSTANTS
    Tasks,
    Foreign,        \* the Tasks with a top-level input owned by F
    MaxFaults,      \* bound on lost calls
    Mortal          \* whether F may exit

ASSUME ForeignLineageAssumption ==
    /\ Tasks \subseteq Nat /\ IsFiniteSet(Tasks)
    /\ Foreign \subseteq Tasks
    /\ MaxFaults \in Nat
    /\ Mortal \in BOOLEAN

VARIABLES
    edge,       \* a Task's lineage record and the attempt its hold names
    renewal,    \* the renewal sessions
    fhold,      \* the holds that are active at F
    freleased,  \* the holds F knows to be released
    replaced,   \* the replacements F has made
    borrow,     \* the holds an executing attempt still borrows through
    fobj,       \* the state of a Task's input at F
    late,       \* replacement requests given up by their sender that may arrive
    fup,        \* F runs
    fdead,      \* F's death is recorded here
    faults      \* calls lost so far

localVars == <<edge, renewal>>
holdVars == <<fhold, freleased, replaced>>
foreignVars == <<localVars, holdVars, borrow, fobj, late, fup, fdead, faults>>

NoRenewal == [attempt |-> MaxRetries + 1, driving |-> FALSE, acked |-> FALSE,
              uncertain |-> FALSE, failed |-> FALSE, ready |-> FALSE]

ForeignInit ==
    /\ edge = [t \in Foreign |-> [state |-> "registered", hold |-> 0]]
    /\ renewal = [t \in Foreign |-> NoRenewal]
    /\ fhold = {<<t, 0>> : t \in Foreign}
    /\ freleased = {} /\ replaced = {} /\ borrow = {} /\ late = {}
    /\ fobj = [t \in Foreign |-> "READY"]
    /\ fup = TRUE /\ fdead = FALSE
    /\ faults = 0

Lost == faults < MaxFaults /\ faults' = faults + 1

\* registry.snapshot: the record is there until its release has been completed.
Registered(t) == t \in Foreign /\ edge[t].state # "done"

-----------------------------------------------------------------------------
(* The owner of the inputs *)

\* replace_retained_reference_for_task: what F answers to <<t, old, new>>.
Verdict(t, old, new) ==
    IF <<t, old, new>> \in replaced THEN "replaced"
    ELSE IF {<<t, old>>, <<t, new>>} \cap freleased # {} \/ <<t, old>> \notin fhold THEN "rejected"
    ELSE IF <<t, old>> \in borrow THEN "busy"
    ELSE "replaced"

\* F serves the request.
Serve(t, old, new) ==
    IF Verdict(t, old, new) = "replaced" /\ <<t, old, new>> \notin replaced
    THEN /\ fhold' = (fhold \ {<<t, old>>}) \cup {<<t, new>>}
         /\ freleased' = freleased \cup {<<t, old>>}
         /\ replaced' = replaced \cup {<<t, old, new>>}
    ELSE UNCHANGED holdVars

\* A given-up request arrives, or never does.
LateReplace(m) ==
    /\ m \in late
    /\ late' = late \ {m}
    /\ Serve(m[1], m[2], m[3]) /\ fup
    /\ UNCHANGED <<localVars, borrow, fobj, fup, fdead, faults>>

LateLost(m) ==
    /\ m \in late
    /\ late' = late \ {m}
    /\ UNCHANGED <<localVars, holdVars, borrow, fobj, fup, fdead, faults>>

\* F loses its object, and produces it again once it is asked to.
LoseForeign(t) ==
    /\ fup /\ fobj[t] = "READY" /\ Lost
    /\ fobj' = [fobj EXCEPT ![t] = "LOST"]
    /\ UNCHANGED <<localVars, holdVars, borrow, late, fup, fdead>>

ProduceForeign(t) ==
    /\ fup /\ fobj[t] = "PENDING"
    /\ fobj' = [fobj EXCEPT ![t] = "READY"]
    /\ UNCHANGED <<localVars, holdVars, borrow, late, fup, fdead, faults>>

ForeignExit ==
    /\ Mortal /\ fup
    /\ fup' = FALSE
    /\ UNCHANGED <<localVars, holdVars, borrow, fobj, late, fdead, faults>>

\* mark_owner_dead: every session of F fails, and no hold needs a release any more.
DeathLearned ==
    /\ ~fup /\ ~fdead
    /\ fdead' = TRUE
    /\ renewal' = [t \in Foreign |->
                      IF renewal[t] = NoRenewal THEN NoRenewal
                      ELSE [renewal[t] EXCEPT !.uncertain = FALSE, !.failed = TRUE, !.ready = FALSE]]
    /\ UNCHANGED <<edge, holdVars, borrow, fobj, late, fup, faults>>

-----------------------------------------------------------------------------
(* A renewal: the lock sections of drive_renewal *)

\* _new_session: an edge that already names the attempt needs no request.
NewSession(t, a) ==
    [attempt |-> a, driving |-> FALSE, acked |-> edge[t].hold = a,
     uncertain |-> FALSE, failed |-> FALSE, ready |-> FALSE]

Opened(t, a) == IF renewal[t] = NoRenewal THEN NewSession(t, a) ELSE renewal[t]

\* _session: why a pass over Task t for attempt a cannot begin.
Refused(t, a) ==
    IF renewal[t] # NoRenewal THEN renewal[t].attempt # a
    ELSE edge[t].state = "claimed" \/ edge[t].hold > a

Conflict(t, a) == renewal[t] # NoRenewal /\ renewal[t].attempt # a

Driven(t, a) == ~Refused(t, a) /\ Opened(t, a).driving

\* The request is sent unless the session failed for good or F is known to be dead.
Asks(t, a) ==
    LET s == Opened(t, a) IN ~s.acked /\ ~fdead /\ (s.failed => s.uncertain)

BeginDrive(t, a) ==
    LET s == Opened(t, a) IN
    renewal' = [renewal EXCEPT ![t] =
                   [s EXCEPT !.driving = TRUE,
                             !.uncertain = Asks(t, a),
                             !.failed = @ \/ (fdead /\ ~s.acked)]]

\* commit_edge_replacement: the record names the hold that has taken the place of the old.
Committed(t, a) == [edge EXCEPT ![t].hold = a]

\* The answer to the replacement request.  An accepted replacement is committed to the
\* record before the session acknowledges it; BUSY is tried again by a later pass.
ReplaceAnswered(t, answer) ==
    LET s == renewal[t] IN
    /\ renewal' = [renewal EXCEPT ![t] =
                      CASE answer = "replaced" -> [s EXCEPT !.uncertain = FALSE, !.acked = TRUE, !.failed = FALSE]
                        [] answer = "busy" -> [s EXCEPT !.uncertain = FALSE]
                        [] answer = "rejected" -> [s EXCEPT !.uncertain = FALSE, !.failed = TRUE]
                        [] answer = "lost" -> s]
    /\ edge' = IF answer = "replaced" THEN Committed(t, s.attempt) ELSE edge

\* _drive_dependencies: the input is looked up under the renewed hold, and F is asked to
\* produce it again when it is lost.
Query(t) ==
    IF fdead \/ (fup /\ <<t, edge[t].hold>> \notin fhold) THEN "failed"
    ELSE IF ~fup THEN "waiting" ELSE "found"

Requested(t) ==
    fobj' = IF Query(t) = "found" /\ fobj[t] = "LOST" THEN [fobj EXCEPT ![t] = "PENDING"] ELSE fobj

\* Mutant of EndDrive: the pass ends without clearing its mark.
EndDriveMarked(t, found) ==
    renewal' = [renewal EXCEPT ![t] = [@ EXCEPT !.ready = found = "found" /\ ~fdead,
                                                !.failed = @ \/ found = "failed"]]

\* The end of the pass, with what the look-up found.
EndDrive(t, found) ==
    LET s == renewal[t] IN
    renewal' = [renewal EXCEPT ![t] =
                   [s EXCEPT !.driving = FALSE,
                             !.ready = IF found = "none" THEN s.ready ELSE found = "found" /\ ~fdead,
                             !.failed = @ \/ found = "failed"]]

\* _validate_renewal_ready_locked.
Renewed(t, a) ==
    LET s == renewal[t] IN
    s.attempt = a /\ s.ready /\ s.acked /\ ~s.driving /\ ~s.uncertain /\ ~s.failed /\ ~fdead

-----------------------------------------------------------------------------
(* The end of a Task's lineage *)

\* claim_with_receipts: all outputs of the Task are collected, and the hold is fixed.
Claimed(t) == [edge EXCEPT ![t].state = "claimed"]

\* drive_collection: the record is claimed once no replacement can be under way, which
\* fixes the hold that has to be released.
Claim(t) ==
    /\ edge[t].state = "registered"
    /\ ~renewal[t].driving /\ ~renewal[t].uncertain
    /\ edge' = Claimed(t)
    /\ renewal' = [renewal EXCEPT ![t] = NoRenewal]
    /\ UNCHANGED <<holdVars, borrow, fobj, late, fup, fdead, faults>>

\* F releases the hold and answers; or its answer is lost and the release is sent again.
ReleaseEdge(t) ==
    /\ edge[t].state = "claimed"
    /\ \/ /\ ~fdead /\ fup
          /\ fhold' = fhold \ {<<t, edge[t].hold>>}
          /\ freleased' = freleased \cup {<<t, edge[t].hold>>}
          /\ \/ edge' = [edge EXCEPT ![t].state = "done"] /\ UNCHANGED faults
             \/ Lost /\ UNCHANGED edge
       \/ /\ fdead
          /\ edge' = [edge EXCEPT ![t].state = "done"]
          /\ UNCHANGED <<fhold, freleased, faults>>
    /\ UNCHANGED <<renewal, replaced, borrow, fobj, late, fup, fdead>>
=============================================================================
