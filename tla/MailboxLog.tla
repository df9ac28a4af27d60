---------------------------- MODULE MailboxLog -----------------------------
(***************************************************************************)
(* What the mailbox promises to the people who put files into it: an       *)
(* append-only log on the medium.  A record is put exactly where the last  *)
(* one ends, records never change and never leave, and a delivery is       *)
(* acknowledged only when its record is there.                             *)
(***************************************************************************)
EXTENDS Integers

CONSTANTS
    Ids,                \* names of deliveries
    Totals,             \* sizes of records, in cells
    Capacity            \* cells of the data area

Record == [id : Ids, pos : 0 .. Capacity, total : Totals]

VARIABLES
    records,            \* the records on the medium
    acked               \* the records whose delivery was reported

logVars == <<records, acked>>

Past(r) == r.pos + r.total

\* p is where the next record goes.
IsTail(p) ==
    /\ p = 0 \/ \E r \in records : Past(r) = p
    /\ \A r \in records : Past(r) <= p

LogInit == records = {} /\ acked = {}

Add ==
    /\ \E r \in Record :
        /\ IsTail(r.pos)
        /\ Past(r) <= Capacity
        /\ records' = records \cup {r}
    /\ UNCHANGED acked

Acknowledge ==
    /\ \E r \in records : acked' = acked \cup {r}
    /\ UNCHANGED records

LogNext == Add \/ Acknowledge

LogSpec == LogInit /\ [][LogNext]_logVars
=============================================================================
