------------------------------ MODULE AuditLog ------------------------------
(***************************************************************************)
(* internal/audit: the hash chain of the table audit_log.  Handlers, the   *)
(* scheduler and its workers, and `dw`, call Log at any time; a call reads *)
(* the last checksum in one statement and inserts its row in another.      *)
(* The fields of a row are digested joined together with nothing between   *)
(* them, so an event is the text they give and where the text is split     *)
(* into fields, and a checksum is what it digests: the checksum before it  *)
(* and the text.  No two calls give the same text, for each has its own    *)
(* UUID.  The column seq is the place of the row and is not digested.      *)
(* SHA-256 is taken to have no collisions.                                 *)
(***************************************************************************)
EXTENDS Naturals, Sequences

CONSTANTS
    Callers,   \* goroutines and processes that call Log
    Texts,     \* what the fields of a row give, joined; a call has one of its own
    Splits     \* the ways to split a text into fields

VARIABLES
    log,      \* the table, in the order of seq
    call,     \* where each caller is in Log
    issued,   \* history: texts of calls made so far
    seen      \* history: how many rows there were when the call of each row read the last

vars == <<log, call, issued, seen>>

Events    == [text : Texts, split : Splits]
Checksums == Seq(Texts)
Row       == [event : Events, checksum : Checksums]

Call == [pc : {"idle"}] \cup
        [pc : {"insert"}, event : Events, prev : Checksums, rows : Nat]

Idle == [pc |-> "idle"]

(* Mutation: the checksum before is left out.                              *)
ChecksumOfRow(prev, event) == <<event.text>>

(* SHA-256(prev || id || event_type || actor || will_id || ts || metadata) *)
Checksum(prev, event) == Append(prev, event.text)

(* The checksum that row i + 1 should have been computed from.             *)
ChecksumAt(rows, i) == IF i = 0 THEN <<>> ELSE rows[i].checksum

(* Mutation: ORDER BY seq, without DESC.                                   *)
FirstChecksum(rows) == IF rows = <<>> THEN <<>> ELSE rows[1].checksum

(* SELECT checksum ... ORDER BY seq DESC LIMIT 1; no row is "".            *)
LastChecksum(rows) == ChecksumAt(rows, Len(rows))

Mismatches(rows) ==
    {i \in 1..Len(rows) :
        rows[i].checksum # Checksum(ChecksumAt(rows, i - 1), rows[i].event)}

(* The row VerifyChain stops at; 0 when it reaches the end.                *)
VerifyChain(rows) ==
    IF Mismatches(rows) = {} THEN 0
    ELSE CHOOSE i \in Mismatches(rows) : \A j \in Mismatches(rows) : i <= j
----------------------------------------------------------------------------
Init ==
    /\ log = <<>>
    /\ call = [c \in Callers |-> Idle]
    /\ issued = {}
    /\ seen = <<>>

ReadLast(c) ==
    /\ call[c].pc = "idle"
    /\ \E event \in Events :
         /\ event.text \notin issued
         /\ issued' = issued \cup {event.text}
         /\ call' = [call EXCEPT ![c] = [pc |-> "insert", event |-> event,
                                         prev |-> LastChecksum(log), rows |-> Len(log)]]
    /\ UNCHANGED <<log, seen>>

(* Mutation: the caller computes seq and a row already there is replaced.  *)
InsertOrReplace(c) ==
    /\ call[c].pc = "insert"
    /\ log' = [i \in 1..Len(log) \cup {call[c].rows + 1} |->
                 IF i # call[c].rows + 1 THEN log[i]
                 ELSE [event |-> call[c].event,
                       checksum |-> Checksum(call[c].prev, call[c].event)]]
    /\ seen' = Append(seen, call[c].rows)
    /\ call' = [call EXCEPT ![c] = Idle]
    /\ UNCHANGED issued

Insert(c) ==
    /\ call[c].pc = "insert"
    /\ log' = Append(log, [event |-> call[c].event,
                           checksum |-> Checksum(call[c].prev, call[c].event)])
    /\ seen' = Append(seen, call[c].rows)
    /\ call' = [call EXCEPT ![c] = Idle]
    /\ UNCHANGED issued

(* A statement fails, which no caller looks at, or the process ends.       *)
Abandon(c) ==
    /\ call[c].pc = "insert"
    /\ call' = [call EXCEPT ![c] = Idle]
    /\ UNCHANGED <<log, issued, seen>>

Next == \E c \in Callers : ReadLast(c) \/ Insert(c) \/ Abandon(c)

Spec == Init /\ [][Next]_vars
----------------------------------------------------------------------------
(* A row records an event a call was made for, and a call that will insert *)
(* remembers rows that are there.                                          *)
TypeOK ==
    /\ log \in Seq(Row)
    /\ call \in [Callers -> Call]
    /\ issued \subseteq Texts
    /\ seen \in Seq(Nat)
    /\ Len(seen) = Len(log)
    /\ \A c \in Callers : call[c].pc = "insert" => call[c].rows <= Len(log)

(* The parts of ChainIsATree: a row extends the checksum that was last when *)
(* its call read it, a call holds one that was last, and an event is        *)
(* inserted by one call, once (Log).                                        *)
RowsChain ==
    \A i \in 1..Len(log) :
        /\ seen[i] \in 0..(i - 1)
        /\ log[i].checksum = Checksum(ChecksumAt(log, seen[i]), log[i].event)

CallsChain ==
    \A c \in Callers : call[c].pc = "insert" =>
        call[c].prev = ChecksumAt(log, call[c].rows)

LoggedOnce ==
    /\ \A i \in 1..Len(log) : log[i].event.text \in issued
    /\ \A i, j \in 1..Len(log) : log[i].event.text = log[j].event.text => i = j
    /\ \A c \in Callers : call[c].pc = "insert" =>
         /\ call[c].event.text \in issued
         /\ \A i \in 1..Len(log) : log[i].event.text # call[c].event.text
         /\ \A d \in Callers \ {c} :
              call[d].pc = "insert" => call[d].event.text # call[c].event.text

(* The hash chain is a tree: each row extends a row before it, whatever    *)
(* calls overlap, and no event is in two rows (Log).                       *)
ChainIsATree == RowsChain /\ CallsChain /\ LoggedOnce

(* VerifyChain tells exactly which calls of Log overlapped: a row does not *)
(* verify if, and only if, another row was inserted between the two        *)
(* statements of its call.                                                 *)
VerifyIsExact == \A i \in 1..Len(log) : i \in Mismatches(log) <=> seen[i] # i - 1

(* What VerifyChain can tell and what it cannot, on a chain that verifies: *)
(* a row whose fields give another text, another checksum in a row, and a  *)
(* row missing before the last are found, at the row or after the gap; the *)
(* same text split into other fields, and rows missing at the end, are not *)
(* (Log joins the fields with nothing between them, and no row after the   *)
(* last tells that there was one).                                         *)
ChangesAreFound ==
    Mismatches(log) = {} =>
        \A i \in 1..Len(log) :
            /\ \A event \in Events :
                 VerifyChain([log EXCEPT ![i].event = event]) =
                     IF event.text = log[i].event.text THEN 0 ELSE i
            /\ \A j \in 0..Len(log) : j # i =>
                 VerifyChain([log EXCEPT ![i].checksum = ChecksumAt(log, j)]) = i
            /\ i < Len(log) =>
                 VerifyChain(SubSeq(log, 1, i - 1) \o SubSeq(log, i + 1, Len(log))) = i
            /\ VerifyChain(SubSeq(log, 1, i)) = 0

(* "Audit log chain checksum MUST be valid" (design document, OHO-4).      *)
ChainIsValid == VerifyChain(log) = 0
=============================================================================
