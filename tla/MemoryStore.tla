----------------------------- MODULE MemoryStore -----------------------------
(***************************************************************************)
(* The content-addressed, versioned, append-only store (memkernel/store.py)*)
(*                                                                         *)
(* The id of an object is the digest of its canonical form, and a version  *)
(* is the digest of the sorted ids of the live objects.  A digest is       *)
(* modelled by what it does, an injective name: the object is its own id,  *)
(* and the set of live objects is the name of the version that lists them. *)
(* The insertion order of the dictionaries is left out; no reader of the   *)
(* store depends on it (live_ids sorts, at follows the sorted ids).        *)
(*                                                                         *)
(* What may be None in the code is a set of at most one element: {} is     *)
(* None.  So is an object's field supersedes (the object that it replaces) *)
(* and the version whose memory is asked for.                              *)
(***************************************************************************)
VARIABLES
    objects,                 \* _objects: every object ever put
    supersededBy,            \* _superseded_by: replaced object |-> its successor
    versions                 \* _versions: every set of live objects recorded

storeVars == <<objects, supersededBy, versions>>

StoreInit ==
    /\ objects = {}
    /\ supersededBy = [o \in {} |-> o]
    /\ versions = {}

\* live / live_ids: retained and not superseded
Live == objects \ DOMAIN supersededBy

\* at: the objects visible at a version; no version shows no memory.
At(version) == UNION version

\* The promotion's loop of put calls; put is idempotent on the id.
PutAll(S) ==
    /\ objects' = objects \union S
    /\ UNCHANGED <<supersededBy, versions>>

\* Variant: what was superseded is not retained.
SupersedeDropping(old, new) ==
    /\ old \in Live
    /\ new.supersedes = {old}
    /\ new # old
    /\ objects' = (objects \ {old}) \union {new}
    /\ supersededBy' = [o \in DOMAIN supersededBy \union {old} |->
                            IF o = old THEN new ELSE supersededBy[o]]
    /\ UNCHANGED versions

\* Variant: a second successor is accepted.
SupersedeAgain(old, new) ==
    /\ old \in objects
    /\ new.supersedes = {old}
    /\ new # old
    /\ objects' = objects \union {new}
    /\ supersededBy' = [o \in DOMAIN supersededBy \union {old} |->
                            IF o = old THEN new ELSE supersededBy[o]]
    /\ UNCHANGED versions

\* supersede: known, not yet superseded, and replaced by a distinct object
\* that names it.  Every other call raises and changes nothing.
Supersede(old, new) ==
    /\ old \in Live
    /\ new.supersedes = {old}
    /\ new # old
    /\ objects' = objects \union {new}
    /\ supersededBy' = [o \in DOMAIN supersededBy \union {old} |->
                            IF o = old THEN new ELSE supersededBy[o]]
    /\ UNCHANGED versions

\* freeze: record the live set as a version (again, if it is known already)
RecordVersion ==
    /\ versions' = versions \union {Live}
    /\ UNCHANGED <<objects, supersededBy>>
=============================================================================
