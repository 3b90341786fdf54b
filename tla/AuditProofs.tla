----------------------------- MODULE AuditProofs -----------------------------
(***************************************************************************)
(* Theorems about the audit log for any callers and texts: its chain is a  *)
(* tree, and VerifyChain reports exactly the rows whose call overlapped    *)
(* another one.                                                            *)
(***************************************************************************)
EXTENDS AuditLog, SequenceTheorems, TLAPS

(* The checksum of the last of the first rows is a checksum (LastChecksum). *)
LEMMA ChecksumAtType ==
    ASSUME NEW rows \in Seq(Row), NEW i \in 0..Len(rows)
    PROVE  ChecksumAt(rows, i) \in Checksums
<1>1. CASE i = 0
  BY <1>1 DEF ChecksumAt, Checksums
<1>2. CASE i # 0
  <2>1. rows[i] \in Row
    BY <1>2
  <2> QED BY <1>2, <2>1 DEF ChecksumAt, Row
<1> QED BY <1>1, <1>2

(* A new row changes no checksum before it (Log).                          *)
LEMMA ChecksumAtAppend ==
    ASSUME NEW rows \in Seq(Row), NEW row \in Row, NEW i \in 0..Len(rows)
    PROVE  ChecksumAt(Append(rows, row), i) = ChecksumAt(rows, i)
BY DEF ChecksumAt

(* A digest is a checksum, is never empty and tells which text was         *)
(* digested, and no more of the event.                                     *)
LEMMA ChecksumInjective ==
    ASSUME NEW p \in Checksums, NEW q \in Checksums, NEW e \in Events, NEW f \in Events
    PROVE  /\ Checksum(p, e) \in Checksums
           /\ Checksum(p, e) # <<>>
           /\ Checksum(p, e) = Checksum(q, f) <=> p = q /\ e.text = f.text
<1>1. p \in Seq(Texts) /\ q \in Seq(Texts) /\ e.text \in Texts /\ f.text \in Texts
  BY DEF Checksums, Events
<1>2. Checksum(p, e) \in Seq(Texts) /\ Checksum(p, e) # <<>>
  BY <1>1, AppendProperties DEF Checksum
<1>3. Append(p, e.text) = Append(q, f.text) <=> p = q /\ e.text = f.text
  BY <1>1, AppendInjective
<1> QED BY <1>2, <1>3 DEF Checksums, Checksum

(* The three steps of Log keep the types.                                  *)
LEMMA ReadLastType ==
    ASSUME TypeOK, NEW c \in Callers, ReadLast(c)
    PROVE  TypeOK'
<1>1. PICK event \in Events :
        /\ event.text \notin issued
        /\ issued' = issued \cup {event.text}
        /\ call' = [call EXCEPT ![c] = [pc |-> "insert", event |-> event,
                                        prev |-> LastChecksum(log), rows |-> Len(log)]]
  BY DEF ReadLast
<1>2. LastChecksum(log) \in Checksums /\ Len(log) \in Nat
  BY ChecksumAtType DEF TypeOK, LastChecksum
<1>3. call' \in [Callers -> Call]
  BY <1>1, <1>2 DEF TypeOK, Call
<1>4. \A d \in Callers : call'[d].pc = "insert" => call'[d].rows <= Len(log)
  BY <1>1, <1>2 DEF TypeOK
<1>5. issued' \subseteq Texts
  BY <1>1 DEF TypeOK, Events
<1> QED BY <1>1, <1>3, <1>4, <1>5 DEF TypeOK, ReadLast

LEMMA InsertType ==
    ASSUME TypeOK, NEW c \in Callers, Insert(c)
    PROVE  TypeOK'
<1>1. call[c] \in [pc : {"insert"}, event : Events, prev : Checksums, rows : Nat]
  BY DEF TypeOK, Insert, Call
<1>2. [event |-> call[c].event, checksum |-> Checksum(call[c].prev, call[c].event)] \in Row
  BY <1>1, ChecksumInjective DEF Row
<1>3. log' \in Seq(Row) /\ Len(log') = Len(log) + 1
  BY <1>2, AppendProperties DEF TypeOK, Insert
<1>4. seen' \in Seq(Nat) /\ Len(seen') = Len(seen) + 1
  BY <1>1, AppendProperties DEF TypeOK, Insert
<1>5. call' \in [Callers -> Call]
  BY DEF TypeOK, Insert, Call, Idle
<1>6. \A d \in Callers : call'[d].pc = "insert" => call'[d].rows <= Len(log')
  <2> SUFFICES ASSUME NEW d \in Callers, call'[d].pc = "insert"
               PROVE  call'[d].rows <= Len(log')
    OBVIOUS
  <2>1. d # c /\ call'[d] = call[d]
    BY DEF TypeOK, Insert, Idle
  <2>2. call[d].rows \in Nat /\ call[d].rows <= Len(log)
    BY <2>1 DEF TypeOK, Call
  <2> QED BY <2>1, <2>2, <1>3 DEF TypeOK
<1> QED BY <1>3, <1>4, <1>5, <1>6 DEF TypeOK, Insert

LEMMA AbandonType ==
    ASSUME TypeOK, NEW c \in Callers, Abandon(c)
    PROVE  TypeOK'
BY DEF TypeOK, Abandon, Call, Idle

(* Every row and every call keep their types, in every behaviour.          *)
THEOREM AuditTypeCorrect == Spec => []TypeOK
<1>1. Init => TypeOK
  BY EmptySeq DEF Init, TypeOK, Call, Idle
<1>2. TypeOK /\ [Next]_vars => TypeOK'
  <2> SUFFICES ASSUME TypeOK, [Next]_vars PROVE TypeOK'
    OBVIOUS
  <2>1. CASE Next
    BY <2>1, ReadLastType, InsertType, AbandonType DEF Next
  <2>2. CASE UNCHANGED vars
    BY <2>2 DEF vars, TypeOK
  <2> QED BY <2>1, <2>2
<1> QED BY <1>1, <1>2, PTL DEF Spec

(* Reading the last checksum keeps the chain a tree (Log).                 *)
LEMMA ReadLastChain ==
    ASSUME TypeOK, ChainIsATree, NEW c \in Callers, ReadLast(c)
    PROVE  ChainIsATree'
<1>1. PICK event \in Events :
        /\ event.text \notin issued
        /\ issued' = issued \cup {event.text}
        /\ call' = [call EXCEPT ![c] = [pc |-> "insert", event |-> event,
                                        prev |-> LastChecksum(log), rows |-> Len(log)]]
  BY DEF ReadLast
<1>2. log' = log /\ seen' = seen
  BY DEF ReadLast
<1>3. RowsChain'
  BY <1>2 DEF ChainIsATree, RowsChain
<1>4. CallsChain'
  BY <1>1, <1>2 DEF ChainIsATree, CallsChain, LastChecksum, TypeOK
<1>5. LoggedOnce'
  <2>1. \A i \in 1..Len(log) : log[i].event.text \in issued /\ log[i].event.text # event.text
    BY <1>1 DEF ChainIsATree, LoggedOnce
  <2>2. \A d \in Callers : call[d].pc = "insert" =>
          call[d].event.text \in issued /\ call[d].event.text # event.text
    BY <1>1 DEF ChainIsATree, LoggedOnce
  <2>3. call'[c].event = event
    BY <1>1 DEF TypeOK
  <2>4. \A d \in Callers \ {c} : call'[d] = call[d]
    BY <1>1 DEF TypeOK
  <2> QED BY <1>1, <1>2, <2>1, <2>2, <2>3, <2>4 DEF ChainIsATree, LoggedOnce
<1> QED BY <1>3, <1>4, <1>5 DEF ChainIsATree

(* Inserting the row keeps the chain a tree, whatever was inserted since   *)
(* the last checksum was read (Log).                                       *)
LEMMA InsertChain ==
    ASSUME TypeOK, ChainIsATree, NEW c \in Callers, Insert(c)
    PROVE  ChainIsATree'
<1> DEFINE n   == Len(log)
           row == [event |-> call[c].event,
                   checksum |-> Checksum(call[c].prev, call[c].event)]
<1>1. /\ call[c].event \in Events /\ call[c].prev \in Checksums /\ call[c].rows \in 0..n
      /\ n \in Nat /\ log \in Seq(Row)
  BY DEF TypeOK, Insert, Call
<1>2. row \in Row
  BY <1>1, ChecksumInjective DEF Row
<1>3. /\ log' = Append(log, row) /\ Len(log') = n + 1 /\ log'[n + 1] = row
      /\ \A i \in 1..n : log'[i] = log[i]
  BY <1>1, <1>2, AppendProperties DEF Insert
<1>4. /\ seen'[n + 1] = call[c].rows
      /\ \A i \in 1..n : seen'[i] = seen[i]
  BY <1>1, AppendProperties DEF TypeOK, Insert
<1>5. \A i \in 0..n : ChecksumAt(log', i) = ChecksumAt(log, i)
  BY <1>1, <1>2, <1>3, ChecksumAtAppend
<1>6. \A d \in Callers : call'[d].pc = "insert" => d # c /\ call'[d] = call[d]
  BY DEF TypeOK, Insert, Idle
<1> HIDE DEF n
<1>7. RowsChain'
  <2> SUFFICES ASSUME NEW i \in 1..(n + 1)
               PROVE  /\ seen'[i] \in 0..(i - 1)
                      /\ log'[i].checksum = Checksum(ChecksumAt(log', seen'[i]), log'[i].event)
    BY <1>3 DEF RowsChain
  <2>1. CASE i = n + 1
    <3>1. row.checksum = Checksum(ChecksumAt(log, call[c].rows), row.event)
      BY DEF ChainIsATree, CallsChain, Insert
    <3> QED BY <2>1, <3>1, <1>1, <1>3, <1>4, <1>5
  <2>2. CASE i \in 1..n
    <3>1. seen[i] \in 0..(i - 1) /\ log[i].checksum = Checksum(ChecksumAt(log, seen[i]), log[i].event)
      BY <2>2 DEF ChainIsATree, RowsChain, n
    <3>2. seen[i] \in 0..n
      BY <3>1, <2>2, <1>1
    <3> QED BY <2>2, <3>1, <3>2, <1>3, <1>4, <1>5
  <2> QED BY <2>1, <2>2, <1>1
<1>8. CallsChain'
  <2> SUFFICES ASSUME NEW d \in Callers, call'[d].pc = "insert"
               PROVE  call'[d].prev = ChecksumAt(log', call'[d].rows)
    BY DEF CallsChain
  <2>1. call'[d] = call[d] /\ call[d].pc = "insert"
    BY <1>6
  <2>2. call[d].rows \in 0..n
    BY <2>1 DEF TypeOK, Call, n
  <2> QED BY <2>1, <2>2, <1>5 DEF ChainIsATree, CallsChain
<1>9. LoggedOnce'
  <2>1. \A i \in 1..n : log[i].event.text # row.event.text /\ log[i].event.text \in issued
    BY DEF ChainIsATree, LoggedOnce, Insert, n
  <2>2. row.event.text \in issued
    BY DEF ChainIsATree, LoggedOnce, Insert
  <2>3. \A i \in 1..(n + 1) : log'[i].event.text \in issued
    BY <1>1, <1>3, <2>1, <2>2
  <2>4. \A i, j \in 1..n : log[i].event.text = log[j].event.text => i = j
    BY DEF ChainIsATree, LoggedOnce, n
  <2>5. \A i, j \in 1..(n + 1) : log'[i].event.text = log'[j].event.text => i = j
    BY <1>1, <1>3, <2>1, <2>4
  <2>6. \A d \in Callers : call'[d].pc = "insert" =>
          /\ call[d].event.text \in issued /\ call[d].event.text # row.event.text
          /\ \A i \in 1..n : log[i].event.text # call[d].event.text
          /\ \A e \in Callers \ {d} : call[e].pc = "insert" => call[e].event.text # call[d].event.text
    BY <1>6 DEF ChainIsATree, LoggedOnce, Insert, n
  <2>7. \A d \in Callers : call'[d].pc = "insert" =>
          /\ call'[d].event.text \in issued
          /\ \A i \in 1..(n + 1) : log'[i].event.text # call'[d].event.text
          /\ \A e \in Callers \ {d} : call'[e].pc = "insert" => call'[e].event.text # call'[d].event.text
    BY <2>6, <1>1, <1>3, <1>6
  <2> QED BY <2>3, <2>5, <2>7, <1>3 DEF LoggedOnce, Insert
<1> QED BY <1>7, <1>8, <1>9 DEF ChainIsATree

(* A call that ends without its row changes nothing of the chain (Log).    *)
LEMMA AbandonChain ==
    ASSUME TypeOK, ChainIsATree, NEW c \in Callers, Abandon(c)
    PROVE  ChainIsATree'
<1>1. \A d \in Callers : call'[d].pc = "insert" => d # c /\ call'[d] = call[d]
  BY DEF TypeOK, Abandon, Idle
<1> QED BY <1>1 DEF ChainIsATree, RowsChain, CallsChain, LoggedOnce, Abandon

(* Whatever calls of Log overlap, each row extends a row before it and no  *)
(* event is in two rows, in every behaviour.                               *)
THEOREM ChainIsAlwaysATree == Spec => []ChainIsATree
<1>1. Init => ChainIsATree
  BY DEF Init, ChainIsATree, RowsChain, CallsChain, LoggedOnce, Idle
<1>2. TypeOK /\ ChainIsATree /\ [Next]_vars => ChainIsATree'
  <2> SUFFICES ASSUME TypeOK, ChainIsATree, [Next]_vars PROVE ChainIsATree'
    OBVIOUS
  <2>1. CASE Next
    BY <2>1, ReadLastChain, InsertChain, AbandonChain DEF Next
  <2>2. CASE UNCHANGED vars
    BY <2>2 DEF vars, ChainIsATree, RowsChain, CallsChain, LoggedOnce
  <2> QED BY <2>1, <2>2
<1> QED BY <1>1, <1>2, AuditTypeCorrect, PTL DEF Spec

(* No two places of the chain have the same checksum (Log).                *)
LEMMA ChecksumsDiffer ==
    ASSUME TypeOK, ChainIsATree, NEW i \in 0..Len(log), NEW j \in 0..Len(log), i # j
    PROVE  ChecksumAt(log, i) # ChecksumAt(log, j)
<1>1. ASSUME NEW k \in 1..Len(log)
      PROVE  /\ ChecksumAt(log, k) = Checksum(ChecksumAt(log, seen[k]), log[k].event)
             /\ ChecksumAt(log, seen[k]) \in Checksums
             /\ log[k].event \in Events
  <2>1. /\ seen[k] \in 0..(k - 1)
        /\ log[k].checksum = Checksum(ChecksumAt(log, seen[k]), log[k].event)
    BY DEF ChainIsATree, RowsChain
  <2>2. log[k] \in Row /\ seen[k] \in 0..Len(log)
    BY <2>1 DEF TypeOK
  <2>3. ChecksumAt(log, k) = log[k].checksum
    BY DEF ChecksumAt
  <2>4. ChecksumAt(log, seen[k]) \in Checksums
    BY <2>2, ChecksumAtType DEF TypeOK
  <2> QED BY <2>1, <2>2, <2>3, <2>4 DEF Row
<1>2. ChecksumAt(log, 0) = <<>>
  BY DEF ChecksumAt
<1>3. CASE i = 0
  <2>1. j \in 1..Len(log)
    BY <1>3
  <2> QED BY <2>1, <1>1, <1>2, <1>3, ChecksumInjective
<1>4. CASE j = 0
  <2>1. i \in 1..Len(log)
    BY <1>4
  <2> QED BY <2>1, <1>1, <1>2, <1>4, ChecksumInjective
<1>5. CASE i # 0 /\ j # 0
  <2>1. i \in 1..Len(log) /\ j \in 1..Len(log)
    BY <1>5
  <2>2. log[i].event.text # log[j].event.text
    BY <2>1 DEF ChainIsATree, LoggedOnce
  <2> QED BY <2>1, <2>2, <1>1, ChecksumInjective
<1> QED BY <1>3, <1>4, <1>5

(* On a tree, a row fails to verify exactly when its call was overtaken.   *)
LEMMA TreeVerifiesExactly ==
    ASSUME TypeOK, ChainIsATree
    PROVE  VerifyIsExact
<1> SUFFICES ASSUME NEW i \in 1..Len(log)
             PROVE  i \in Mismatches(log) <=> seen[i] # i - 1
  BY DEF VerifyIsExact
<1>1. /\ seen[i] \in 0..(i - 1)
      /\ log[i].checksum = Checksum(ChecksumAt(log, seen[i]), log[i].event)
  BY DEF ChainIsATree, RowsChain
<1>2. log[i] \in Row /\ seen[i] \in 0..Len(log) /\ i - 1 \in 0..Len(log)
  BY <1>1 DEF TypeOK
<1>3. ChecksumAt(log, seen[i]) \in Checksums /\ ChecksumAt(log, i - 1) \in Checksums
  BY <1>2, ChecksumAtType DEF TypeOK
<1>4. log[i].event \in Events
  BY <1>2 DEF Row
<1>5. i \in Mismatches(log) <=> ChecksumAt(log, seen[i]) # ChecksumAt(log, i - 1)
  BY <1>1, <1>3, <1>4, ChecksumInjective DEF Mismatches
<1> QED BY <1>2, <1>5, ChecksumsDiffer

(* VerifyChain reports exactly the rows between whose two statements       *)
(* another row came, in every behaviour.                                   *)
THEOREM VerifyChainExact == Spec => []VerifyIsExact
<1>1. TypeOK /\ ChainIsATree => VerifyIsExact
  BY TreeVerifiesExactly
<1> QED BY <1>1, AuditTypeCorrect, ChainIsAlwaysATree, PTL

(* VerifyChain stops at the first row that does not verify (VerifyChain).  *)
LEMMA VerifyStopsAt ==
    ASSUME NEW rows \in Seq(Row), NEW i \in Mismatches(rows),
           \A k \in 1..(i - 1) : k \notin Mismatches(rows)
    PROVE  VerifyChain(rows) = i
<1> DEFINE P(k) == k \in Mismatches(rows) /\ \A j \in Mismatches(rows) : k <= j
<1>1. Mismatches(rows) \subseteq 1..Len(rows) /\ Len(rows) \in Nat
  BY DEF Mismatches
<1>2. \A j \in Mismatches(rows) : i <= j
  BY <1>1
<1>3. \A k \in Mismatches(rows) : (\A j \in Mismatches(rows) : k <= j) => k = i
  BY <1>1, <1>2
<1>4. Mismatches(rows) # {}
  OBVIOUS
<1>5. (CHOOSE k \in Mismatches(rows) : \A j \in Mismatches(rows) : k <= j) = i
  BY <1>2, <1>3
<1> QED BY <1>4, <1>5 DEF VerifyChain

(* A changed row: when the rows before it are the same and it does not     *)
(* verify, VerifyChain stops there.                                        *)
LEMMA StopsAtChange ==
    ASSUME TypeOK, Mismatches(log) = {}, NEW i \in 1..Len(log),
           NEW rows \in Seq(Row), i \in 1..Len(rows),
           \A k \in 1..(i - 1) : rows[k] = log[k],
           rows[i].checksum # Checksum(ChecksumAt(log, i - 1), rows[i].event)
    PROVE  VerifyChain(rows) = i
<1>1. \A k \in 0..(i - 1) : ChecksumAt(rows, k) = ChecksumAt(log, k)
  BY DEF ChecksumAt
<1>2. i \in Mismatches(rows)
  BY <1>1 DEF Mismatches
<1>3. ASSUME NEW k \in 1..(i - 1) PROVE k \notin Mismatches(rows)
  <2>1. k \in 1..Len(log) /\ k - 1 \in 0..(i - 1)
    OBVIOUS
  <2>2. log[k].checksum = Checksum(ChecksumAt(log, k - 1), log[k].event)
    BY <2>1 DEF Mismatches
  <2> QED BY <1>1, <2>1, <2>2 DEF Mismatches
<1> QED BY <1>2, <1>3, VerifyStopsAt

(* On a tree that verifies, every change is found where it was made.       *)
LEMMA TreeShowsChanges ==
    ASSUME TypeOK, ChainIsATree
    PROVE  ChangesAreFound
<1> SUFFICES ASSUME Mismatches(log) = {}, NEW i \in 1..Len(log)
             PROVE  /\ \A event \in Events :
                         VerifyChain([log EXCEPT ![i].event = event]) =
                             IF event.text = log[i].event.text THEN 0 ELSE i
                    /\ \A j \in 0..Len(log) : j # i =>
                         VerifyChain([log EXCEPT ![i].checksum = ChecksumAt(log, j)]) = i
                    /\ i < Len(log) =>
                         VerifyChain(SubSeq(log, 1, i - 1) \o SubSeq(log, i + 1, Len(log))) = i
                    /\ VerifyChain(SubSeq(log, 1, i)) = 0
  BY DEF ChangesAreFound
<1>1. log \in Seq(Row) /\ Len(log) \in Nat
  BY DEF TypeOK
<1>2. ASSUME NEW k \in 1..Len(log)
      PROVE  /\ ChecksumAt(log, k) = log[k].checksum
             /\ log[k].checksum = Checksum(ChecksumAt(log, k - 1), log[k].event)
             /\ ChecksumAt(log, k - 1) \in Checksums
             /\ log[k].event \in Events
             /\ log[k].checksum \in Checksums
  <2>1. log[k] \in Row /\ k - 1 \in 0..Len(log)
    BY <1>1
  <2>2. ChecksumAt(log, k - 1) \in Checksums
    BY <1>1, <2>1, ChecksumAtType
  <2>3. ChecksumAt(log, k) = log[k].checksum
    BY DEF ChecksumAt
  <2>4. log[k].checksum = Checksum(ChecksumAt(log, k - 1), log[k].event)
    BY DEF Mismatches
  <2> QED BY <2>1, <2>2, <2>3, <2>4 DEF Row
<1>3. ASSUME NEW event \in Events
      PROVE  VerifyChain([log EXCEPT ![i].event = event]) =
                 IF event.text = log[i].event.text THEN 0 ELSE i
  <2> DEFINE rows == [log EXCEPT ![i].event = event]
  <2>1. rows \in Seq(Row) /\ Len(rows) = Len(log)
    <3>1. [log[i] EXCEPT !.event = event] \in Row
      <4>1. log[i] \in Row
        BY <1>1
      <4> QED BY <4>1 DEF Row
    <3>2. rows = [log EXCEPT ![i] = [log[i] EXCEPT !.event = event]]
      OBVIOUS
    <3> QED BY <1>1, <3>1, <3>2, ExceptSeq
  <2>2. /\ rows[i].event = event /\ rows[i].checksum = log[i].checksum
        /\ \A k \in 1..Len(log) : k # i => rows[k] = log[k]
    BY <1>1, <1>2 DEF Row
  <2>3. CASE event.text # log[i].event.text
    <3>1. rows[i].checksum # Checksum(ChecksumAt(log, i - 1), rows[i].event)
      BY <1>2, <2>2, <2>3, ChecksumInjective
    <3>2. \A k \in 1..(i - 1) : rows[k] = log[k]
      BY <1>1, <2>2
    <3> QED BY <2>1, <2>3, <3>1, <3>2, StopsAtChange
  <2>4. CASE event.text = log[i].event.text
    <3>1. ASSUME NEW k \in 1..Len(log) PROVE k \notin Mismatches(rows)
      <4>1. rows[k].checksum = log[k].checksum /\ rows[k].event.text = log[k].event.text
        BY <2>2, <2>4
      <4>2. ChecksumAt(rows, k - 1) = ChecksumAt(log, k - 1)
        <5>1. CASE k = 1
          BY <5>1 DEF ChecksumAt
        <5>2. CASE k # 1
          <6>1. k - 1 \in 1..Len(log) /\ k - 1 # 0
            BY <5>2, <1>1
          <6>2. rows[k - 1].checksum = log[k - 1].checksum
            BY <6>1, <2>2
          <6> QED BY <6>1, <6>2 DEF ChecksumAt
        <5> QED BY <5>1, <5>2
      <4>3. Checksum(ChecksumAt(rows, k - 1), rows[k].event)
              = Checksum(ChecksumAt(log, k - 1), log[k].event)
        BY <4>1, <4>2 DEF Checksum
      <4> QED BY <1>2, <4>1, <4>3 DEF Mismatches
    <3>2. Mismatches(rows) = {}
      BY <2>1, <3>1 DEF Mismatches
    <3> QED BY <2>4, <3>2 DEF VerifyChain
  <2> QED BY <2>3, <2>4
<1>4. ASSUME NEW j \in 0..Len(log), j # i
      PROVE  VerifyChain([log EXCEPT ![i].checksum = ChecksumAt(log, j)]) = i
  <2> DEFINE rows == [log EXCEPT ![i].checksum = ChecksumAt(log, j)]
  <2>1. ChecksumAt(log, j) \in Checksums
    BY <1>1, ChecksumAtType
  <2>2. rows \in Seq(Row) /\ Len(rows) = Len(log)
    <3>1. [log[i] EXCEPT !.checksum = ChecksumAt(log, j)] \in Row
      <4>1. log[i] \in Row
        BY <1>1
      <4> QED BY <2>1, <4>1 DEF Row
    <3>2. rows = [log EXCEPT ![i] = [log[i] EXCEPT !.checksum = ChecksumAt(log, j)]]
      OBVIOUS
    <3> QED BY <1>1, <3>1, <3>2, ExceptSeq
  <2>3. /\ rows[i].event = log[i].event /\ rows[i].checksum = ChecksumAt(log, j)
        /\ \A k \in 1..(i - 1) : rows[k] = log[k]
    BY <1>1, <1>2 DEF Row
  <2>4. ChecksumAt(log, j) # ChecksumAt(log, i)
    BY <1>1, <1>4, ChecksumsDiffer
  <2>5. rows[i].checksum # Checksum(ChecksumAt(log, i - 1), rows[i].event)
    BY <1>2, <2>3, <2>4
  <2> QED BY <2>2, <2>3, <2>5, StopsAtChange
<1>5. ASSUME i < Len(log)
      PROVE  VerifyChain(SubSeq(log, 1, i - 1) \o SubSeq(log, i + 1, Len(log))) = i
  <2> DEFINE before == SubSeq(log, 1, i - 1)
             after  == SubSeq(log, i + 1, Len(log))
             rows   == before \o after
  <2>1. /\ before \in Seq(Row) /\ Len(before) = i - 1
        /\ \A k \in 1..(i - 1) : before[k] = log[k]
    BY <1>1, SubSeqProperties
  <2>2. after \in Seq(Row) /\ Len(after) = Len(log) - i /\ after[1] = log[i + 1]
    BY <1>1, <1>5, SubSeqProperties
  <2> HIDE DEF before, after
  <2>3. rows \in Seq(Row) /\ Len(rows) = Len(log) - 1
    <3>1. Len(rows) = Len(before) + Len(after) /\ rows \in Seq(Row)
      BY <2>1, <2>2, ConcatProperties
    <3> QED BY <1>1, <2>1, <2>2, <3>1
  <2>4. rows[i] = log[i + 1] /\ \A k \in 1..(i - 1) : rows[k] = log[k]
    BY <1>1, <1>5, <2>1, <2>2, ConcatProperties
  <2>5. ChecksumAt(log, i) # ChecksumAt(log, i - 1)
    BY ChecksumsDiffer
  <2>6. /\ i + 1 \in 1..Len(log)
        /\ log[i + 1].checksum = Checksum(ChecksumAt(log, i), log[i + 1].event)
        /\ ChecksumAt(log, i) \in Checksums /\ log[i + 1].event \in Events
    BY <1>1, <1>2, <1>5
  <2>7. rows[i].checksum # Checksum(ChecksumAt(log, i - 1), rows[i].event)
    BY <1>2, <2>4, <2>5, <2>6, ChecksumInjective
  <2>8. i \in 1..Len(rows)
    BY <1>1, <1>5, <2>3
  <2> QED BY <2>3, <2>4, <2>7, <2>8, StopsAtChange DEF before, after
<1>6. VerifyChain(SubSeq(log, 1, i)) = 0
  <2> DEFINE rows == SubSeq(log, 1, i)
  <2>1. Len(rows) = i /\ \A k \in 1..i : rows[k] = log[k]
    BY <1>1, SubSeqProperties
  <2> HIDE DEF rows
  <2>2. \A k \in 0..i : ChecksumAt(rows, k) = ChecksumAt(log, k)
    BY <2>1 DEF ChecksumAt
  <2>3. ASSUME NEW k \in 1..i PROVE k \notin Mismatches(rows)
    <3>1. k \in 1..Len(log) /\ k - 1 \in 0..i
      BY <1>1
    <3> QED BY <1>2, <2>1, <2>2, <3>1 DEF Mismatches
  <2>4. Mismatches(rows) = {}
    BY <2>1, <2>3 DEF Mismatches
  <2> QED BY <2>4 DEF VerifyChain, rows
<1> QED BY <1>3, <1>4, <1>5, <1>6

(* Once no call overlapped another, VerifyChain finds a row of another      *)
(* text, another checksum and a missing row where they are, and finds      *)
(* neither the same text split into other fields nor rows missing at the   *)
(* end, in every behaviour (VerifyChain).                                  *)
THEOREM VerifyChainFindsChanges == Spec => []ChangesAreFound
<1>1. TypeOK /\ ChainIsATree => ChangesAreFound
  BY TreeShowsChanges
<1> QED BY <1>1, AuditTypeCorrect, ChainIsAlwaysATree, PTL
----------------------------------------------------------------------------
(* Calls of Log that do not overlap: what a mutex held across its two      *)
(* statements would give.                                                  *)
OneAtATime ==
    \A c, d \in Callers : call[c].pc = "insert" /\ call[d].pc = "insert" => c = d

NotOvertaken ==
    /\ \A i \in 1..Len(log) : seen[i] = i - 1
    /\ \A c \in Callers : call[c].pc = "insert" => call[c].rows = Len(log)

LEMMA NextNotOvertaken ==
    ASSUME TypeOK, OneAtATime, NotOvertaken, [Next]_vars
    PROVE  NotOvertaken'
<1>1. ASSUME NEW c \in Callers, ReadLast(c) PROVE NotOvertaken'
  <2>1. log' = log /\ seen' = seen /\ call'[c].rows = Len(log)
    BY <1>1 DEF ReadLast, TypeOK
  <2>2. \A d \in Callers \ {c} : call'[d] = call[d]
    BY <1>1 DEF ReadLast, TypeOK
  <2> QED BY <2>1, <2>2 DEF NotOvertaken
<1>2. ASSUME NEW c \in Callers, Insert(c) PROVE NotOvertaken'
  <2>1. call[c] \in [pc : {"insert"}, event : Events, prev : Checksums, rows : Nat]
    BY <1>2 DEF TypeOK, Insert, Call
  <2>2. [event |-> call[c].event, checksum |-> Checksum(call[c].prev, call[c].event)] \in Row
    BY <2>1, ChecksumInjective DEF Row
  <2>3. Len(log') = Len(log) + 1 /\ Len(log) \in Nat /\ Len(seen) = Len(log)
    BY <1>2, <2>2, AppendProperties DEF TypeOK, Insert
  <2>4. \A d \in Callers : call'[d].pc # "insert"
    BY <1>2 DEF Insert, Idle, OneAtATime, TypeOK
  <2>5. /\ seen'[Len(log) + 1] = Len(log)
        /\ \A i \in 1..Len(log) : seen'[i] = seen[i]
    BY <1>2, <2>1, <2>3, AppendProperties DEF TypeOK, Insert, NotOvertaken
  <2>6. \A i \in 1..Len(log') : i \in 1..Len(log) \/ i = Len(log) + 1
    BY <2>3
  <2>7. \A i \in 1..Len(log') : seen'[i] = i - 1
    BY <2>3, <2>5, <2>6 DEF NotOvertaken
  <2> QED BY <2>4, <2>7 DEF NotOvertaken
<1>3. ASSUME NEW c \in Callers, Abandon(c) PROVE NotOvertaken'
  BY <1>3 DEF Abandon, Idle, TypeOK, NotOvertaken
<1>4. CASE UNCHANGED vars
  BY <1>4 DEF vars, NotOvertaken
<1> QED BY <1>1, <1>2, <1>3, <1>4 DEF Next

(* Overlapping calls are the only thing that breaks the chain: while one   *)
(* call of Log at a time is between its statements, whichever fail or are  *)
(* cut off, every row verifies, as the design document asks (OHO-4).       *)
THEOREM SerialCallsKeepTheChain == Spec /\ []OneAtATime => []ChainIsValid
<1>1. Init => NotOvertaken
  BY DEF Init, NotOvertaken, Idle
<1>2. TypeOK /\ ChainIsATree /\ NotOvertaken => ChainIsValid
  <2> SUFFICES ASSUME TypeOK, ChainIsATree, NotOvertaken PROVE ChainIsValid
    OBVIOUS
  <2>1. \A i \in 1..Len(log) : i \notin Mismatches(log)
    BY TreeVerifiesExactly DEF VerifyIsExact, NotOvertaken
  <2>2. Mismatches(log) = {}
    BY <2>1 DEF Mismatches
  <2> QED BY <2>2 DEF ChainIsValid, VerifyChain
<1> QED BY <1>1, <1>2, NextNotOvertaken, AuditTypeCorrect, ChainIsAlwaysATree, PTL DEF Spec
=============================================================================
