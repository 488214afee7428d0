---------------------------- MODULE SessionStore ----------------------------
(***************************************************************************)
(* The primitives of the session store, as functions from a row to a row.  *)
(* Each is one atomic unit of the backend: one SQL statement (or one       *)
(* transaction) of PgSessionStore, one commit() of FileSessionStore.       *)
(*                                                                         *)
(* A row has two parts.  The entry (PersistedEntry) holds the lifecycle    *)
(* state, the container handle and the deep-archive marker.  The handle is *)
(* represented by the host port it names: a container gets a new port each *)
(* time it starts.  The lease (owner_replica, lease_expires_at) says which *)
(* replica owns the session; "live" says whether it is unexpired.          *)
(***************************************************************************)
EXTENDS SessionFsm, Naturals

NoHandle == 0
NoOwner  == "none"

NoEntry    == [state |-> Absent, handle |-> NoHandle, archived |-> FALSE]
FreshEntry == [state |-> "Creating", handle |-> NoHandle, archived |-> FALSE]
NoLease    == [owner |-> NoOwner, live |-> FALSE]

Exists(e) == e.state # Absent

(***************************************************************************)
(* cas_transition: hit only if the row is in the expected state and the    *)
(* edge is legal.  An unknown id and another state are a miss; an illegal  *)
(* edge is an error.  Neither writes.  The handle is overwritten only when *)
(* the caller supplies one.                                                *)
(***************************************************************************)

\* Faulty variant: an UPDATE without "AND state = expected".
CasHitUnguarded(e, expected, to) == Exists(e) /\ <<expected, to>> \in Edges

CasHit(e, expected, to) == e.state = expected /\ <<expected, to>> \in Edges

\* Faulty variant: the new handle does not replace an old one.
CasTransitionKeepsHandle(e, expected, to, handle) ==
    IF CasHit(e, expected, to)
    THEN [e EXCEPT !.state  = to,
                   !.handle = IF @ = NoHandle THEN handle ELSE @]
    ELSE e

CasTransition(e, expected, to, handle) ==
    IF CasHit(e, expected, to)
    THEN [e EXCEPT !.state  = to,
                   !.handle = IF handle = NoHandle THEN @ ELSE handle]
    ELSE e

(***************************************************************************)
(* cas_set_archived(Some): the deep-archive claim.  cas_set_archived(None):*)
(* the release, after a restored session is back.                          *)
(***************************************************************************)
MarkHit(e) == e.state = "Hibernating" /\ ~e.archived

SetArchived(e) ==
    IF MarkHit(e) THEN [e EXCEPT !.archived = TRUE, !.handle = NoHandle] ELSE e

ClearArchived(e) == [e EXCEPT !.archived = FALSE]

\* force_update: an unconditional overwrite of an existing row's entry.
ForceUpdate(e, new) == IF Exists(e) THEN new ELSE e

(***************************************************************************)
(* try_claim_lease succeeds when the row is unowned, expired or already    *)
(* ours; release_lease clears it only if it is ours.                       *)
(***************************************************************************)
Claimable(e, l, p) == Exists(e) /\ (l.owner \in {NoOwner, p} \/ ~l.live)

ClaimLease(p) == [owner |-> p, live |-> TRUE]

ReleaseLease(l, p) == IF l.owner = p THEN NoLease ELSE l

=============================================================================
