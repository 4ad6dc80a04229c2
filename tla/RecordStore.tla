---------------------------- MODULE RecordStore -----------------------------
(* What storage.RecordStore promises its callers: documents under record ids *)
(* that stay theirs.  Module Heap implements it.                             *)
EXTENDS Naturals

CONSTANTS RIDs, Documents

VARIABLES
    records,    \* record id -> document
    spent       \* the record ids that were ever given out

rvars == <<records, spent>>

RecordInit ==
    /\ spent \subseteq RIDs
    /\ DOMAIN records \subseteq spent
    /\ \A r \in DOMAIN records : records[r] \in Documents

\* A step may spend ids beside the one it hands out.
Spending == spent \subseteq spent' /\ spent' \subseteq RIDs

\* The document is the one the step stores under r.
Store(r) ==
    /\ r \in DOMAIN records' /\ records'[r] \in Documents
    /\ records' = [x \in DOMAIN records \cup {r} |-> IF x = r THEN records'[r] ELSE records[x]]

InsertRecord(r) == r \in spent' \ spent /\ Spending /\ Store(r)

UpdateRecord(r) == r \in DOMAIN records /\ Spending /\ Store(r)

DeleteRecord(r) ==
    /\ r \in DOMAIN records
    /\ records' = [x \in DOMAIN records \ {r} |-> records[x]]
    /\ spent' = spent

RecordNext ==
    \/ \E r \in spent' : InsertRecord(r) \/ UpdateRecord(r)
    \/ \E r \in spent : DeleteRecord(r)

RecordSpec == RecordInit /\ [][RecordNext]_rvars

\* Every record lies under an id that was given out.
RecordsAreSpent == DOMAIN records \subseteq spent /\ spent \subseteq RIDs

\* An id whose record is gone never names another document: an index entry that
\* outlived its record cannot lead to a stranger.
NoIdReused == [][\A r \in spent \ DOMAIN records : r \notin DOMAIN records']_rvars
=============================================================================
