----------------------------- MODULE IndexStore -----------------------------
(* What storage.IndexStore promises its callers: a set of entries, each a    *)
(* field with a record id, and in a unique index one record id per field.    *)
(* Module BTree implements it.                                               *)
EXTENDS Naturals

CONSTANTS
    Fields,
    IndexRIDs

VARIABLES
    entries,    \* the entries of the index
    unique      \* whether it rejects a second record id for a field

ivars == <<entries, unique>>

ridsOf(f) == {r \in IndexRIDs : [f |-> f, rid |-> r] \in entries}

\* At most one record id under a field.
OnePerField == unique => \A e, d \in entries : e.f = d.f => e = d

IndexInit ==
    /\ entries \subseteq [f : Fields, rid : IndexRIDs]
    /\ unique \in BOOLEAN
    /\ OnePerField

\* A rejected Put, and a Put of what is there, change nothing.
PutEntry(f, r) ==
    /\ unique => ridsOf(f) = {}
    /\ entries' = entries \cup {[f |-> f, rid |-> r]}
    /\ unique' = unique

DeleteEntry(f, r) ==
    /\ entries' = entries \ {[f |-> f, rid |-> r]}
    /\ unique' = unique

IndexNext == \E f \in Fields, r \in IndexRIDs : PutEntry(f, r) \/ DeleteEntry(f, r)

IndexSpec == IndexInit /\ [][IndexNext]_ivars

IndexTypeOK == entries \subseteq [f : Fields, rid : IndexRIDs] /\ unique \in BOOLEAN

\* A unique index never holds two records under one field.
UniqueKept == OnePerField
=============================================================================
