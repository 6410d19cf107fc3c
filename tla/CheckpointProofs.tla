--------------------------- MODULE CheckpointProofs ---------------------------
(***************************************************************************)
(* Proofs about Backup when session files only grow: checkpoints and       *)
(* seen_ids agree, and no commit takes a checkpoint back.  The argument is *)
(* CheckpointInv of BackupInvariant, on top of ArchiveInv: what a scan has *)
(* taken up, and what the rows of a pending operation stand for, is always *)
(* the stretch of a file between its checkpoint and a later line.          *)
(***************************************************************************)
EXTENDS ArchiveProofs

Cover == SeenBefore /\ ScanCovers /\ RowsCover

Scanning == {"scan", "nothing", "stage"}

(* Stretches of a session file *)

\* A stretch is cut in two, at any line of it.
LEMMA SpanJoin ==
    ASSUME NEW s, NEW a \in Nat, NEW b \in Nat, NEW c \in Nat, a <= b, b <= c
    PROVE  Span(s, a, c) = Span(s, a, b) \cup Span(s, b, c)
<1>1. (a + 1)..c = ((a + 1)..b) \cup ((b + 1)..c)
  BY SMT
<1> DEFINE f(i) == <<s, i, content[s][i]>>
<1>2. {f(i) : i \in (a + 1)..c} = {f(i) : i \in (a + 1)..b} \cup {f(i) : i \in (b + 1)..c}
  <2> HIDE DEF f
  <2> QED
    BY <1>1
<1> QED
  BY <1>2 DEF Span

\* A stretch is empty only if it has no line.
LEMMA SpanEmpty ==
    ASSUME NEW s, NEW a \in Nat, NEW b \in Nat, a <= b
    PROVE  Span(s, a, b) = {} <=> a = b
<1>1. CASE a = b
  <2>1. (a + 1)..b = {}
    BY <1>1, SMT
  <2> QED
    BY <1>1, <2>1 DEF Span
<1>2. CASE a # b
  <2>1. b \in (a + 1)..b
    BY <1>2, SMT
  <2>2. <<s, b, content[s][b]>> \in Span(s, a, b)
    BY <2>1 DEF Span
  <2> QED
    BY <1>2, <2>2
<1> QED
  BY <1>1, <1>2

\* One line more.
LEMMA SpanNext ==
    ASSUME NEW s, NEW a \in Nat, NEW b \in Nat, a <= b
    PROVE  Span(s, a, b + 1) = Span(s, a, b) \cup {<<s, b + 1, content[s][b + 1]>>}
<1>1. Span(s, a, b + 1) = Span(s, a, b) \cup Span(s, b, b + 1)
  BY SpanJoin, SMT
<1>2. (b + 1)..(b + 1) = {b + 1}
  BY SMT
<1>3. Span(s, b, b + 1) = {<<s, b + 1, content[s][b + 1]>>}
  BY <1>2 DEF Span
<1> QED
  BY <1>1, <1>3

\* A record of a stretch lies in it.
LEMMA SpanWithin ==
    ASSUME NEW s, NEW a \in Nat, NEW b \in Nat, NEW r \in Span(s, a, b)
    PROVE  r[2] \in (a + 1)..b
<1>1. PICK i \in (a + 1)..b : r = <<s, i, content[s][i]>>
  BY DEF Span
<1> QED
  BY <1>1

\* Lines and checkpoints are numbers.
LEMMA OffsetTypes ==
    ASSUME TypeOK
    PROVE  /\ \A s \in Source : ckpt[s] \in Nat /\ Len(content[s]) \in Nat
           /\ \A rows \in Rows, s \in Source :
                /\ Upsert(ckpt, rows)[s] = IF rows[s] = NoRow THEN ckpt[s] ELSE rows[s]
                /\ Upsert(ckpt, rows)[s] \in Nat
           /\ \A p \in Proc : scan[p].pos \in Nat /\ scan[p].upd \in Rows
           /\ \A p \in Proc, s \in Source : Reached(p, s) \in Nat
<1>1. \A s \in Source : ckpt[s] \in Nat /\ Len(content[s]) \in Nat
  BY BoundAssumption, SMT DEF TypeOK
<1>2. ASSUME NEW rows \in Rows, NEW s \in Source
      PROVE  /\ Upsert(ckpt, rows)[s] = IF rows[s] = NoRow THEN ckpt[s] ELSE rows[s]
             /\ Upsert(ckpt, rows)[s] \in Nat
  <2>1. rows[s] \in {NoRow} \cup (0..MaxLines)
    BY DEF Rows
  <2>2. rows[s] # NoRow => rows[s] \in Nat
    BY <2>1, BoundAssumption, SMT
  <2> QED
    BY <1>1, <2>2 DEF Upsert
<1>3. ASSUME NEW p \in Proc PROVE scan[p].pos \in Nat /\ scan[p].upd \in Rows
  <2>1. scan[p] \in ScanState
    BY DEF TypeOK
  <2> QED
    BY <2>1, BoundAssumption, SMT DEF ScanState
<1> QED
  BY <1>1, <1>2, <1>3 DEF Reached

\* What is covered stays so while the file grows.
LEMMA CoversGrow ==
    ASSUME NEW s, NEW rs, NEW n \in Nat, ckpt[s] \in Nat, Covers(rs, s, n),
           ckpt'[s] = ckpt[s], Len(content'[s]) >= Len(content[s]),
           Len(content[s]) \in Nat, Len(content'[s]) \in Nat,
           \A i \in 1..Len(content[s]) : content'[s][i] = content[s][i],
           NEW rs2, OfSource(rs2, s) = OfSource(rs, s)
    PROVE  /\ ckpt'[s] <= n /\ n <= Len(content'[s])
           /\ OfSource(rs2, s) = {<<s, i, content'[s][i]>> : i \in (ckpt'[s] + 1)..n}
<1>1. ckpt[s] <= n /\ n <= Len(content[s]) /\ OfSource(rs, s) = Span(s, ckpt[s], n)
  BY DEF Covers
<1>2. n <= Len(content'[s])
  BY <1>1, SMT
<1>3. \A i \in (ckpt[s] + 1)..n : i \in 1..Len(content[s])
  BY <1>1, SMT
<1>4. \A i \in (ckpt[s] + 1)..n : content'[s][i] = content[s][i]
  BY <1>3
<1>5. {<<s, i, content'[s][i]>> : i \in (ckpt[s] + 1)..n} = Span(s, ckpt[s], n)
  BY <1>4 DEF Span
<1> QED
  BY <1>1, <1>2, <1>5

-----------------------------------------------------------------------------
(* What several actions share *)

\* Files grow, and of the pending operations and the scans some may go away.
LEMMA CoverFrame ==
    ASSUME TypeOK, TypeOK', Cover, UNCHANGED <<ckpt, seen>>,
           \A s \in Source :
              /\ Len(content'[s]) >= Len(content[s])
              /\ \A i \in 1..Len(content[s]) : content'[s][i] = content[s][i],
           \A q \in Proc :
              \/ /\ pc'[q] = pc[q] /\ op'[q] = op[q] /\ scan'[q] = scan[q]
                 /\ pc[q] \in Scanning => UNCHANGED pSeen
              \/ pc'[q] \notin Scanning /\ scan'[q] = NoScan,
           \A o \in ops' :
              /\ o \in ops /\ pSeen'[o] = pSeen[o] /\ pCkpt'[o] = pCkpt[o]
              /\ \/ pLines'[o] = <<>>
                 \/ pLines[o] # <<>>
                 \/ \E p \in Proc : pc[p] = "lines" /\ op[p] = o
              /\ \A q \in Proc : pc'[q] = "lines" => pc[q] = "lines" /\ op'[q] = op[q]
    PROVE  Cover'
<1>1. \A s \in Source : /\ ckpt[s] \in Nat /\ Len(content[s]) \in Nat
                        /\ Len(content'[s]) \in Nat /\ ckpt'[s] = ckpt[s]
  BY OffsetTypes, BoundAssumption, SMT DEF TypeOK
<1>2. ASSUME NEW s \in Source, NEW rs, NEW n \in Nat, Covers(rs, s, n)
      PROVE  /\ ckpt'[s] <= n /\ n <= Len(content'[s])
             /\ OfSource(rs, s) = {<<s, i, content'[s][i]>> : i \in (ckpt'[s] + 1)..n}
  BY <1>1, <1>2, CoversGrow
<1>3. SeenBefore'
  <2> SUFFICES ASSUME NEW s \in Source
               PROVE  /\ ckpt'[s] <= Len(content'[s])
                      /\ OfSource(seen, s) = {<<s, i, content'[s][i]>> : i \in 1..ckpt[s]}
    BY SMT DEF SeenBefore, Span, OfSource
  <2>1. ckpt[s] <= Len(content[s]) /\ OfSource(seen, s) = Span(s, 0, ckpt[s])
    BY DEF Cover, SeenBefore
  <2>2. \A i \in 1..ckpt[s] : i \in 1..Len(content[s])
    BY <1>1, <2>1, SMT
  <2>3. \A i \in 1..ckpt[s] : content'[s][i] = content[s][i]
    BY <2>2
  <2>4. Span(s, 0, ckpt[s]) = {<<s, i, content[s][i]>> : i \in 1..ckpt[s]}
    BY SMT DEF Span
  <2>5. {<<s, i, content'[s][i]>> : i \in 1..ckpt[s]} = {<<s, i, content[s][i]>> : i \in 1..ckpt[s]}
    BY <2>3
  <2>6. ckpt'[s] <= Len(content'[s])
    BY <1>1, <2>1, SMT
  <2> QED
    BY <2>1, <2>4, <2>5, <2>6
<1>4. ScanCovers'
  <2> SUFFICES ASSUME NEW q \in Proc
               PROVE  /\ pc'[q] \in {"scan", "nothing", "stage"} =>
                           \A s \in Source : Covers(pSeen[op[q]], s, Reached(q, s))'
                      /\ pc'[q] = "scan" =>
                           \A s \in scan'[q].todo : scan'[q].upd[s] = NoRow /\ scan'[q].src # s
                      /\ pc'[q] \in {"nothing", "stage"} => scan'[q].src = None
                      /\ pc'[q] \notin {"scan", "nothing", "stage"} => scan'[q] = NoScan
    BY DEF ScanCovers
  <2>1. CASE pc'[q] \notin Scanning /\ scan'[q] = NoScan
    BY <2>1 DEF Scanning
  <2>2. CASE /\ pc'[q] = pc[q] /\ op'[q] = op[q] /\ scan'[q] = scan[q]
             /\ pc[q] \in Scanning => UNCHANGED pSeen
    <3>1. ASSUME pc[q] \in Scanning, NEW s \in Source
          PROVE  Covers(pSeen[op[q]], s, Reached(q, s))'
      <4>1. Covers(pSeen[op[q]], s, Reached(q, s))
        BY <3>1 DEF Cover, ScanCovers, Scanning
      <4>2. Reached(q, s) \in Nat /\ Reached(q, s)' = Reached(q, s)
        BY <2>2, OffsetTypes DEF Reached, Upsert
      <4>3. pSeen'[op'[q]] = pSeen[op[q]]
        BY <2>2, <3>1
      <4> DEFINE rs == pSeen[op[q]]
                 n == Reached(q, s)
      <4>4. /\ ckpt'[s] <= n /\ n <= Len(content'[s])
            /\ OfSource(rs, s) = {<<s, i, content'[s][i]>> : i \in (ckpt'[s] + 1)..n}
        <5> HIDE DEF rs, n
        <5> QED
          BY <1>2, <4>1, <4>2 DEF rs, n
      <4>5. OfSource(pSeen[op[q]], s)' = OfSource(rs, s)
        BY <4>3 DEF OfSource
      <4> HIDE DEF n
      <4> QED
        BY <4>2, <4>4, <4>5 DEF Covers, Span, n
    <3> QED
      BY <2>2, <3>1 DEF Cover, ScanCovers, Scanning
  <2> QED
    BY <2>1, <2>2
<1>5. RowsCover'
  <2> SUFFICES ASSUME NEW o \in ops',
                      pLines'[o] # <<>> \/ (\E p \in Proc : pc'[p] = "lines" /\ op'[p] = o),
                      NEW s \in Source
               PROVE  Covers(pSeen[o], s, Upsert(ckpt, pCkpt[o])[s])'
    BY DEF RowsCover
  <2>1. o \in ops /\ pSeen'[o] = pSeen[o] /\ pCkpt'[o] = pCkpt[o]
    OBVIOUS
  <2>2. pLines[o] # <<>> \/ (\E p \in Proc : pc[p] = "lines" /\ op[p] = o)
    OBVIOUS
  <2>3. Covers(pSeen[o], s, Upsert(ckpt, pCkpt[o])[s])
    BY <2>1, <2>2 DEF Cover, RowsCover
  <2>4. pCkpt[o] \in Rows
    BY <2>1 DEF TypeOK
  <2>5. /\ Upsert(ckpt, pCkpt[o])[s] \in Nat
        /\ Upsert(ckpt', pCkpt'[o])[s] = Upsert(ckpt, pCkpt[o])[s]
    BY <2>1, <2>4, OffsetTypes DEF Upsert
  <2> DEFINE n == Upsert(ckpt, pCkpt[o])[s]
  <2>6. /\ ckpt'[s] <= n /\ n <= Len(content'[s])
        /\ OfSource(pSeen[o], s) = {<<s, i, content'[s][i]>> : i \in (ckpt'[s] + 1)..n}
    <3> HIDE DEF n
    <3> QED
      BY <1>2, <2>3, <2>5 DEF n
  <2>7. OfSource(pSeen[o], s)' = OfSource(pSeen[o], s)
    BY <2>1 DEF OfSource
  <2>8. Upsert(ckpt, pCkpt[o])[s]' = n
    BY <2>5
  <2> HIDE DEF n
  <2> QED
    BY <2>6, <2>7, <2>8 DEF Covers, Span
<1> QED
  BY <1>3, <1>4, <1>5 DEF Cover

\* A process that scans: the rows of its operation are not staged yet, and it is
\* its own scan that has to cover what it has taken up.
LEMMA ScanFrame ==
    ASSUME IInv, Cover, NEW p \in Proc, pc[p] = "scan",
           UNCHANGED <<content, ckpt, seen, ops, pLines, op>>,
           \A q \in Proc \ {p} : pc'[q] = pc[q] /\ scan'[q] = scan[q],
           pc'[p] \in Scanning,
           \A s \in Source : Covers(pSeen[op[p]], s, Reached(p, s))',
           pc'[p] = "scan" =>
              \A s \in scan'[p].todo : scan'[p].upd[s] = NoRow /\ scan'[p].src # s,
           pc'[p] # "scan" => scan'[p].src = None
    PROVE  Cover'
<1>1. /\ ops = {op[p]} /\ pLines[op[p]] = <<>>
      /\ \A q \in Proc \ {p} : pc[q] = "idle"
  BY OnlyRun DEF Working, IInv, StagedInChunks
<1>2. SeenBefore'
  BY DEF Cover, SeenBefore, Span, OfSource
<1>3. RowsCover'
  BY <1>1 DEF RowsCover, Scanning
<1>4. ScanCovers'
  BY <1>1 DEF Cover, ScanCovers, Scanning
<1> QED
  BY <1>2, <1>3, <1>4 DEF Cover

\* Covering with rows, checkpoint and files as they are, for a scan's next state.
LEMMA CoversSame ==
    ASSUME UNCHANGED <<content, ckpt>>, NEW rs, NEW s, NEW n, Covers(rs, s, n)
    PROVE  ckpt'[s] <= n /\ n <= Len(content'[s])
           /\ OfSource(rs, s) = {<<s, i, content'[s][i]>> : i \in (ckpt'[s] + 1)..n}
BY DEF Covers, Span

-----------------------------------------------------------------------------
(* The scan *)

\* A scan goes back to no line and passes over none: it starts each file at its
\* checkpoint, finds no line of it known, and takes up one after the other.
LEMMA StatSourceStep ==
    ASSUME IInv, Cover, NEW p \in Proc, NEW x \in Source, StatSource(p, x)
    PROVE  Cover'
<1>1. /\ pc[p] = "scan" /\ scan[p].src = None /\ x \in scan[p].todo
      /\ scan' = [scan EXCEPT ![p] =
                  [todo |-> @.todo \ {x}, src |-> x, snap |-> NoRow, upd |-> @.upd,
                   pos |-> StartOffset(x, Len(content[x]))]]
      /\ UNCHANGED <<content, ckpt, seen, ops, pSeen, pLines, op, pc>>
  BY DEF StatSource, sqlVars
<1>2. TypeOK
  BY DEF IInv
<1>3. /\ scan'[p].todo = scan[p].todo \ {x} /\ scan'[p].src = x
      /\ scan'[p].upd = scan[p].upd /\ scan'[p].pos = StartOffset(x, Len(content[x]))
      /\ \A q \in Proc \ {p} : scan'[q] = scan[q]
  BY <1>1, <1>2 DEF TypeOK
<1>4. StartOffset(x, Len(content[x])) = ckpt[x]
  BY DEF StartOffset, Cover, SeenBefore
<1>5. /\ \A s \in Source : Covers(pSeen[op[p]], s, Reached(p, s))
      /\ \A s \in scan[p].todo : scan[p].upd[s] = NoRow /\ scan[p].src # s
  BY <1>1 DEF Cover, ScanCovers
<1>6. ASSUME NEW s \in Source PROVE Reached(p, s)' = Reached(p, s)
  <2>1. scan[p].upd[x] = NoRow /\ scan[p].upd \in Rows
    BY <1>1, <1>2, <1>5, OffsetTypes
  <2>2. CASE s = x
    <3>1. Reached(p, s) = ckpt[x]
      BY <1>1, <2>1, <2>2, NoneAssumption DEF Reached, Upsert
    <3> QED
      BY <1>3, <1>4, <2>2, <3>1 DEF Reached
  <2>3. CASE s # x
    <3>1. scan[p].src # s
      BY <1>1, NoneAssumption
    <3> QED
      BY <1>1, <1>3, <2>3, <3>1 DEF Reached, Upsert
  <2> QED
    BY <2>2, <2>3
<1>7. \A s \in Source : Covers(pSeen[op[p]], s, Reached(p, s))'
  BY <1>1, <1>5, <1>6 DEF Covers, Span, OfSource
<1>8. \A s \in scan'[p].todo : scan'[p].upd[s] = NoRow /\ scan'[p].src # s
  BY <1>3, <1>5
<1> QED
  BY <1>1, <1>3, <1>7, <1>8, ScanFrame DEF Scanning

\* The second look at a file bounds what its scan will cover.
LEMMA OpenSourceStep ==
    ASSUME IInv, Cover, NEW p \in Proc, OpenSource(p)
    PROVE  Cover'
<1> DEFINE x == scan[p].src
<1>1. /\ pc[p] = "scan" /\ x # None
      /\ scan' = [scan EXCEPT ![p] =
                  [todo |-> @.todo, src |-> @.src, snap |-> Len(content[x]), upd |-> @.upd,
                   pos |-> LeastOf(@.pos, Len(content[x]))]]
      /\ UNCHANGED <<content, ckpt, seen, ops, pSeen, pLines, op, pc>>
  BY DEF OpenSource, sqlVars
<1>2. TypeOK
  BY DEF IInv
<1>3. /\ scan'[p].todo = scan[p].todo /\ scan'[p].src = x
      /\ scan'[p].upd = scan[p].upd /\ scan'[p].pos = LeastOf(scan[p].pos, Len(content[x]))
      /\ \A q \in Proc \ {p} : scan'[q] = scan[q]
  BY <1>1, <1>2 DEF TypeOK
<1>4. /\ \A s \in Source : Covers(pSeen[op[p]], s, Reached(p, s))
      /\ \A s \in scan[p].todo : scan[p].upd[s] = NoRow /\ scan[p].src # s
  BY <1>1 DEF Cover, ScanCovers
<1>5. x \in Source
  BY <1>1, <1>2, SMT DEF TypeOK, ScanState
<1>6. scan'[p].pos = scan[p].pos
  <2>1. Reached(p, x) = scan[p].pos
    BY DEF Reached
  <2>2. scan[p].pos <= Len(content[x])
    BY <1>4, <1>5, <2>1 DEF Covers
  <2> QED
    BY <1>3, <2>2 DEF LeastOf
<1>7. \A s \in Source : Reached(p, s)' = Reached(p, s)
  BY <1>1, <1>3, <1>6 DEF Reached, Upsert
<1>8. \A s \in Source : Covers(pSeen[op[p]], s, Reached(p, s))'
  BY <1>1, <1>4, <1>7 DEF Covers, Span, OfSource
<1> QED
  BY <1>1, <1>3, <1>4, <1>8, ScanFrame DEF Scanning

\* The line at a scan's position is no known record.
LEMMA NextIsNew ==
    ASSUME IInv, Cover, NEW p \in Proc, HasLine(p)
    PROVE  /\ scan[p].src \in Source /\ scan[p].pos \in Nat
           /\ scan[p].pos + 1 <= Len(content[scan[p].src])
           /\ Covers(pSeen[op[p]], scan[p].src, scan[p].pos)
           /\ ~ IsKnown(p, NextRecord(p))
<1> DEFINE x == scan[p].src
           n == scan[p].pos
           r == NextRecord(p)
<1>1. TypeOK /\ pc[p] = "scan" /\ x # None
  BY DEF IInv, HasLine
<1>2. x \in Source /\ n \in Nat
  BY <1>1, BoundAssumption, SMT DEF TypeOK, ScanState
<1>3. scan[p].snap \in Int /\ Len(content[x]) \in Nat
  BY <1>1, <1>2, BoundAssumption, SMT DEF TypeOK, ScanState, NoRow
<1>4. n + 1 <= Len(content[x])
  BY <1>2, <1>3, SMT DEF HasLine, LeastOf
<1>5. Reached(p, x) = n
  BY DEF Reached
<1>6. Covers(pSeen[op[p]], x, n)
  BY <1>1, <1>2, <1>5 DEF Cover, ScanCovers
<1>7. ckpt[x] \in Nat /\ ckpt[x] <= n
  BY <1>1, <1>2, <1>6, OffsetTypes DEF Covers
<1>8. r[1] = x /\ r[2] = n + 1
  BY DEF NextRecord
<1>9. r \notin seen
  <2> SUFFICES ASSUME r \in seen PROVE FALSE
    OBVIOUS
  <2>1. r \in Span(x, 0, ckpt[x])
    BY <1>2, <1>8 DEF Cover, SeenBefore, OfSource
  <2>2. n + 1 \in (0 + 1)..ckpt[x]
    BY <1>7, <1>8, <2>1, SpanWithin
  <2> QED
    BY <1>2, <1>7, <2>2, SMT
<1>10. r \notin pSeen[op[p]]
  <2> SUFFICES ASSUME r \in pSeen[op[p]] PROVE FALSE
    OBVIOUS
  <2>1. r \in Span(x, ckpt[x], n)
    BY <1>6, <1>8 DEF Covers, OfSource
  <2>2. n + 1 \in (ckpt[x] + 1)..n
    BY <1>2, <1>7, <1>8, <2>1, SpanWithin
  <2> QED
    BY <1>2, <1>7, <2>2, SMT
<1> QED
  BY <1>2, <1>4, <1>6, <1>9, <1>10 DEF IsKnown

\* A staged record is the line at the position of the scan, which moves past it.
LEMMA StageRecordCovers ==
    ASSUME IInv, Cover, NEW p \in Proc, StageRecord(p)
    PROVE  Cover'
<1> DEFINE x == scan[p].src
           n == scan[p].pos
           r == NextRecord(p)
<1>1. /\ pc[p] = "scan" /\ HasLine(p)
      /\ pSeen' = [pSeen EXCEPT ![op[p]] = @ \cup {r}]
      /\ scan' = [scan EXCEPT ![p].pos = @ + 1]
      /\ UNCHANGED <<content, ckpt, seen, ops, pLines, op, pc>>
  BY DEF StageRecord, HasLine, sqlVars
<1>2. TypeOK /\ op[p] \in OpId
  BY <1>1, OnlyRun DEF IInv, Working
<1>3. /\ scan'[p].todo = scan[p].todo /\ scan'[p].src = x
      /\ scan'[p].upd = scan[p].upd /\ scan'[p].pos = n + 1
      /\ \A q \in Proc \ {p} : scan'[q] = scan[q]
  <2>1. scan[p] \in ScanState /\ scan \in [Proc -> ScanState]
    BY <1>2 DEF TypeOK
  <2>2. scan'[p] = [scan[p] EXCEPT !.pos = @ + 1] /\ \A q \in Proc \ {p} : scan'[q] = scan[q]
    BY <1>1, <2>1
  <2> QED
    BY <2>1, <2>2 DEF ScanState
<1>4. /\ \A s \in Source : Covers(pSeen[op[p]], s, Reached(p, s))
      /\ \A s \in scan[p].todo : scan[p].upd[s] = NoRow /\ scan[p].src # s
  BY <1>1 DEF Cover, ScanCovers
<1>5. /\ x \in Source /\ n \in Nat /\ n + 1 <= Len(content[x])
      /\ Covers(pSeen[op[p]], x, n)
  BY <1>1, NextIsNew
<1>6. pSeen'[op'[p]] = pSeen[op[p]] \cup {r} /\ r = <<x, n + 1, content[x][n + 1]>>
  BY <1>1, <1>2 DEF TypeOK, NextRecord
<1> HIDE DEF r
<1>7. ASSUME NEW s \in Source, s # x PROVE Covers(pSeen[op[p]], s, Reached(p, s))'
  <2>1. Reached(p, s)' = Reached(p, s)
    BY <1>1, <1>3, <1>7 DEF Reached, Upsert
  <2>2. OfSource(pSeen[op[p]], s)' = OfSource(pSeen[op[p]], s)
    BY <1>6, <1>7 DEF OfSource
  <2> QED
    BY <1>1, <1>4, <2>1, <2>2 DEF Covers, Span
<1>8. Covers(pSeen[op[p]], x, Reached(p, x))'
  <2>1. Reached(p, x)' = n + 1
    BY <1>3, <1>5 DEF Reached
  <2>2. ckpt[x] \in Nat /\ ckpt[x] <= n
    BY <1>2, <1>5, OffsetTypes DEF Covers
  <2>3. OfSource(pSeen[op[p]], x)' = OfSource(pSeen[op[p]], x) \cup {r}
    BY <1>3, <1>6 DEF OfSource
  <2>4. Span(x, ckpt[x], n + 1) = Span(x, ckpt[x], n) \cup {r}
    <3> HIDE DEF x, n
    <3>1. Span(x, ckpt[x], n + 1) = Span(x, ckpt[x], n) \cup {<<x, n + 1, content[x][n + 1]>>}
      BY <1>5, <2>2, SpanNext
    <3> QED
      BY <1>6, <3>1
  <2>5. OfSource(pSeen[op[p]], x)' = Span(x, ckpt[x], n + 1)
    BY <1>5, <2>3, <2>4 DEF Covers
  <2>6. ckpt[x] <= n + 1
    BY <1>5, <2>2, SMT
  <2>7. OfSource(pSeen'[op'[p]], x) = {<<x, i, content'[x][i]>> : i \in (ckpt'[x] + 1)..(n + 1)}
    BY <1>1, <1>3, <2>5 DEF Span, OfSource
  <2> QED
    BY <1>1, <1>3, <1>5, <2>1, <2>5, <2>6, <2>7 DEF Covers, Span, OfSource
<1> QED
  BY <1>1, <1>3, <1>4, <1>7, <1>8, ScanFrame DEF Scanning

\* With a source read to its end, the scan enters how far it got.
LEMMA CloseSourceStep ==
    ASSUME IInv, Cover, NEW p \in Proc, CloseSource(p)
    PROVE  Cover'
<1> DEFINE x == scan[p].src
<1>1. /\ pc[p] = "scan" /\ x # None
      /\ scan' = [scan EXCEPT ![p] =
                  [todo |-> @.todo, src |-> None, snap |-> NoRow, pos |-> 0,
                   upd |-> [@.upd EXCEPT ![x] = scan[p].pos]]]
      /\ UNCHANGED <<content, ckpt, seen, ops, pSeen, pLines, op, pc>>
  BY DEF CloseSource, sqlVars
<1>2. TypeOK
  BY DEF IInv
<1>3. /\ scan'[p].todo = scan[p].todo /\ scan'[p].src = None
      /\ scan'[p].upd = [scan[p].upd EXCEPT ![x] = scan[p].pos]
      /\ \A q \in Proc \ {p} : scan'[q] = scan[q]
  BY <1>1, <1>2 DEF TypeOK
<1>4. /\ \A s \in Source : Covers(pSeen[op[p]], s, Reached(p, s))
      /\ \A s \in scan[p].todo : scan[p].upd[s] = NoRow /\ scan[p].src # s
  BY <1>1 DEF Cover, ScanCovers
<1>5. /\ x \in Source /\ scan[p].upd \in Rows /\ scan[p].pos \in Nat
      /\ scan[p].todo \subseteq Source
  BY <1>1, <1>2, BoundAssumption, SMT DEF TypeOK, ScanState
<1>6. /\ scan'[p].upd[x] = scan[p].pos
      /\ \A s \in Source \ {x} : scan'[p].upd[s] = scan[p].upd[s]
  BY <1>3, <1>5 DEF Rows
<1>7. ASSUME NEW s \in Source PROVE Reached(p, s)' = Reached(p, s)
  <2>1. scan'[p].src # s
    BY <1>3, NoneAssumption
  <2>2. Reached(p, s)' = IF scan'[p].upd[s] = NoRow THEN ckpt'[s] ELSE scan'[p].upd[s]
    BY <2>1 DEF Reached, Upsert
  <2>3. CASE s = x
    <3>1. scan[p].pos # NoRow
      BY <1>5, SMT DEF NoRow
    <3> QED
      BY <1>6, <2>2, <2>3, <3>1 DEF Reached
  <2>4. CASE s # x
    BY <1>1, <1>6, <2>2, <2>4 DEF Reached, Upsert
  <2> QED
    BY <2>3, <2>4
<1>8. \A s \in Source : Covers(pSeen[op[p]], s, Reached(p, s))'
  BY <1>1, <1>4, <1>7 DEF Covers, Span, OfSource
<1>9. \A s \in scan'[p].todo : scan'[p].upd[s] = NoRow /\ scan'[p].src # s
  BY <1>3, <1>4, <1>5, <1>6, NoneAssumption
<1> QED
  BY <1>1, <1>3, <1>8, <1>9, ScanFrame DEF Scanning

\* What a finished scan covers is what the operation will commit.
LEMMA FinishScanCovers ==
    ASSUME IInv, Cover, NEW p \in Proc, FinishScan(p)
    PROVE  Cover'
<1>1. /\ pc[p] = "scan" /\ scan[p].src = None
      /\ pc' = [pc EXCEPT ![p] = IF staged'[p] = <<>> THEN "nothing" ELSE "stage"]
      /\ UNCHANGED <<content, ckpt, seen, ops, pSeen, pLines, op, scan>>
  BY DEF FinishScan, Goto, sqlVars
<1>2. TypeOK
  BY DEF IInv
<1>3. pc'[p] \in {"nothing", "stage"} /\ \A q \in Proc \ {p} : pc'[q] = pc[q]
  BY <1>1, <1>2, LocalTypes
<1>4. \A s \in Source : Covers(pSeen[op[p]], s, Reached(p, s))
  BY <1>1 DEF Cover, ScanCovers
<1>5. \A s \in Source : Covers(pSeen[op[p]], s, Reached(p, s))'
  BY <1>1, <1>4 DEF Covers, Span, OfSource, Reached, Upsert
<1> QED
  BY <1>1, <1>3, <1>5, ScanFrame DEF Scanning

\* A new operation's scan has taken up nothing.
LEMMA BeginCovers ==
    ASSUME IInv, Cover, NEW p \in Proc, NEW o \in OpId, BeginBackup(p, o)
    PROVE  Cover'
<1>1. /\ pc[p] = "recover" /\ queue[p] = {} /\ ops' = ops \cup {o}
      /\ pSeen' = [pSeen EXCEPT ![o] = {}] /\ pLines' = [pLines EXCEPT ![o] = <<>>]
      /\ op' = [op EXCEPT ![p] = o] /\ pc' = [pc EXCEPT ![p] = "scan"]
      /\ UNCHANGED <<content, ckpt, seen>>
  BY DEF BeginBackup, Goto
<1>2. TypeOK /\ \A q \in Proc \ {p} : pc[q] = "idle"
  BY <1>1, OnlyRun DEF IInv
<1>3. ops' = {o} /\ pSeen'[o] = {} /\ pLines'[o] = <<>>
  BY <1>1, <1>2, LocalTypes DEF IInv, OpsInv
<1>4. /\ pc'[p] = "scan" /\ op'[p] = o
      /\ \A q \in Proc \ {p} : pc'[q] = "idle"
  BY <1>1, <1>2, LocalTypes
<1>5. PICK found \in SUBSET Source : scan' = [scan EXCEPT ![p].todo = found]
  BY DEF BeginBackup
<1>6. scan[p] = NoScan /\ \A q \in Proc \ {p} : scan[q] = NoScan
  BY <1>1, <1>2 DEF Cover, ScanCovers
<1>7. /\ scan'[p].todo = found /\ scan'[p].src = None /\ scan'[p].upd = NoRows
      /\ \A q \in Proc \ {p} : scan'[q] = NoScan
  <2>1. scan'[p] = [NoScan EXCEPT !.todo = found] /\ \A q \in Proc \ {p} : scan'[q] = NoScan
    BY <1>2, <1>5, <1>6 DEF TypeOK
  <2> QED
    BY <2>1 DEF NoScan
<1>8. ASSUME NEW s \in Source PROVE Covers(pSeen[op[p]], s, Reached(p, s))'
  <2>1. Reached(p, s)' = ckpt[s]
    BY <1>1, <1>7, NoneAssumption DEF Reached, Upsert, NoRows
  <2>2. ckpt[s] \in Nat /\ ckpt[s] <= Len(content[s])
    BY <1>2, OffsetTypes DEF Cover, SeenBefore
  <2>3. Span(s, ckpt[s], ckpt[s]) = {}
    BY <2>2, SpanEmpty, SMT
  <2>4. OfSource(pSeen'[op'[p]], s) = {}
    BY <1>3, <1>4 DEF OfSource
  <2>5. {<<s, i, content'[s][i]>> : i \in (ckpt'[s] + 1)..ckpt[s]} = {}
    BY <1>1, <2>3 DEF Span
  <2>6. ckpt'[s] <= ckpt[s] /\ ckpt[s] <= Len(content'[s])
    BY <1>1, <2>2, SMT
  <2> QED
    BY <2>1, <2>4, <2>5, <2>6 DEF Covers, Span, OfSource
<1>9. SeenBefore'
  BY <1>1 DEF Cover, SeenBefore, Span, OfSource
<1>10. RowsCover'
  BY <1>3, <1>4 DEF RowsCover
<1>11. ScanCovers'
  BY <1>4, <1>7, <1>8, NoneAssumption DEF ScanCovers, NoRows
<1> QED
  BY <1>9, <1>10, <1>11 DEF Cover

-----------------------------------------------------------------------------
(* The checkpoint commits *)

\* A scan that found nothing new has found each file ending at its checkpoint.
LEMMA CommitCheckpointsCovers ==
    ASSUME ArchiveInv, Cover, NEW p \in Proc, CommitCheckpoints(p)
    PROVE  Cover' /\ \A s \in Source : ckpt'[s] = ckpt[s]
<1>1. /\ pc[p] = "nothing" /\ ckpt' = Upsert(ckpt, scan[p].upd)
      /\ scan' = [scan EXCEPT ![p] = NoScan] /\ pc' = [pc EXCEPT ![p] = "drop"]
      /\ UNCHANGED <<content, seen, ops, pSeen, pCkpt, pLines, op>>
  BY DEF CommitCheckpoints, Goto
<1>2. IInv /\ TypeOK
  BY DEF ArchiveInv, IInv
<1>3. /\ pc'[p] = "drop" /\ scan'[p] = NoScan
      /\ \A q \in Proc \ {p} : pc'[q] = pc[q] /\ scan'[q] = scan[q]
  BY <1>1, <1>2 DEF TypeOK
<1>4. /\ pSeen[op[p]] = {} /\ pLines[op[p]] = <<>> /\ ops = {op[p]}
      /\ \A q \in Proc \ {p} : pc[q] = "idle"
  BY <1>1, <1>2, OnlyRun DEF ArchiveInv, StagedNew, Working
<1>5. ASSUME NEW s \in Source PROVE ckpt'[s] = ckpt[s]
  <2>1. Covers({}, s, Reached(p, s)) /\ scan[p].src = None
    BY <1>1, <1>4 DEF Cover, ScanCovers
  <2>2. Reached(p, s) = ckpt'[s]
    BY <1>1, <2>1, NoneAssumption DEF Reached
  <2>3. Reached(p, s) \in Nat /\ ckpt[s] \in Nat
    BY <1>2, OffsetTypes
  <2>4. Span(s, ckpt[s], Reached(p, s)) = {} /\ ckpt[s] <= Reached(p, s)
    BY <2>1 DEF Covers, OfSource
  <2> QED
    BY <2>2, <2>3, <2>4, SpanEmpty
<1>6. SeenBefore'
  BY <1>1, <1>5 DEF Cover, SeenBefore, Span, OfSource
<1>7. ScanCovers'
  BY <1>3, <1>4 DEF Cover, ScanCovers
<1>8. RowsCover'
  BY <1>1, <1>3, <1>4 DEF RowsCover
<1> QED
  BY <1>5, <1>6, <1>7, <1>8 DEF Cover

\* The rows staged say how far the scan has come.
LEMMA StageCheckpointsCovers ==
    ASSUME ArchiveInv, Cover, NEW p \in Proc, StageCheckpoints(p)
    PROVE  Cover'
<1>1. /\ pc[p] = "stage" /\ pCkpt' = [pCkpt EXCEPT ![op[p]] = scan[p].upd]
      /\ scan' = [scan EXCEPT ![p] = NoScan] /\ pc' = [pc EXCEPT ![p] = "lines"]
      /\ UNCHANGED <<content, ckpt, seen, ops, pSeen, pLines, op>>
  BY DEF StageCheckpoints, Goto
<1>2. IInv /\ TypeOK
  BY DEF ArchiveInv, IInv
<1>3. /\ pc'[p] = "lines" /\ scan'[p] = NoScan
      /\ \A q \in Proc \ {p} : pc'[q] = pc[q] /\ scan'[q] = scan[q]
  BY <1>1, <1>2 DEF TypeOK
<1>4. /\ ops = {op[p]} /\ op[p] \in OpId
      /\ \A q \in Proc \ {p} : pc[q] = "idle"
  BY <1>1, <1>2, OnlyRun DEF Working
<1>5. pCkpt'[op[p]] = scan[p].upd
  BY <1>1, <1>2, <1>4 DEF TypeOK
<1>6. SeenBefore'
  BY <1>1 DEF Cover, SeenBefore, Span, OfSource
<1>7. ScanCovers'
  BY <1>3, <1>4 DEF Cover, ScanCovers
<1>8. ASSUME NEW s \in Source PROVE Covers(pSeen[op[p]], s, Upsert(ckpt, pCkpt[op[p]])[s])'
  <2>1. Covers(pSeen[op[p]], s, Reached(p, s)) /\ scan[p].src = None
    BY <1>1 DEF Cover, ScanCovers
  <2>2. Reached(p, s) = Upsert(ckpt', pCkpt'[op'[p]])[s]
    BY <1>1, <1>5, <2>1, NoneAssumption DEF Reached
  <2> QED
    BY <1>1, <2>1, <2>2 DEF Covers, Span, OfSource
<1>9. RowsCover'
  BY <1>1, <1>4, <1>8 DEF RowsCover
<1> QED
  BY <1>6, <1>7, <1>9 DEF Cover

\* A commit moves each checkpoint forward, over the records it makes seen.
LEMMA CommitCovers ==
    ASSUME TypeOK, Cover, NEW o, ops = {o}, pLines[o] # <<>>, CommitRows(o),
           UNCHANGED <<content, scan>>,
           \A q \in Proc : pc[q] \notin Scanning /\ pc'[q] \notin Scanning
    PROVE  Cover' /\ \A s \in Source : ckpt[s] <= ckpt'[s]
<1>1. /\ ckpt' = Upsert(ckpt, pCkpt[o]) /\ seen' = seen \cup pSeen[o] /\ ops' = {}
  BY DEF CommitRows, DeleteRows
<1>2. ASSUME NEW s \in Source
      PROVE  /\ ckpt[s] <= ckpt'[s] /\ ckpt'[s] <= Len(content'[s])
             /\ OfSource(seen, s)' = Span(s, 0, ckpt[s])'
  <2>1. Covers(pSeen[o], s, ckpt'[s])
    BY <1>1 DEF Cover, RowsCover
  <2>2. ckpt[s] \in Nat /\ ckpt'[s] \in Nat
    <3>1. o \in OpId /\ pCkpt[o] \in Rows
      BY DEF TypeOK
    <3> QED
      BY <1>1, <3>1, OffsetTypes
  <2>3. /\ ckpt[s] <= ckpt'[s] /\ ckpt'[s] <= Len(content[s])
        /\ OfSource(pSeen[o], s) = Span(s, ckpt[s], ckpt'[s])
        /\ OfSource(seen, s) = Span(s, 0, ckpt[s])
    BY <2>1 DEF Covers, Cover, SeenBefore
  <2>4. OfSource(seen', s) = OfSource(seen, s) \cup OfSource(pSeen[o], s)
    BY <1>1 DEF OfSource
  <2>5. 0 \in Nat /\ 0 <= ckpt[s]
    BY <2>2, SMT
  <2>6. Span(s, 0, ckpt'[s]) = Span(s, 0, ckpt[s]) \cup Span(s, ckpt[s], ckpt'[s])
    BY <2>2, <2>3, <2>5, SpanJoin
  <2>7. OfSource(seen', s) = Span(s, 0, ckpt'[s])
    BY <2>3, <2>4, <2>6
  <2> QED
    BY <2>3, <2>7 DEF OfSource, Span
<1>3. SeenBefore'
  BY <1>2 DEF SeenBefore
<1>4. ScanCovers'
  BY DEF Cover, ScanCovers, Scanning
<1>5. RowsCover'
  BY <1>1 DEF RowsCover
<1> QED
  BY <1>2, <1>3, <1>4, <1>5 DEF Cover

\* Both commits of an operation.
LEMMA BothCommits ==
    ASSUME ArchiveInv, Cover, NEW p \in Proc, RecoverCommit(p) \/ CommitPending(p)
    PROVE  Cover' /\ \A s \in Source : ckpt[s] <= ckpt'[s]
<1>1. IInv /\ TypeOK
  BY DEF ArchiveInv, IInv
<1>2. /\ pc[p] \in {"recommit", "commit"} /\ CommitRows(op[p])
      /\ \/ pc' = [pc EXCEPT ![p] = "recover"]
         \/ pc' = [pc EXCEPT ![p] = "done"]
      /\ UNCHANGED <<content, scan>>
  BY DEF RecoverCommit, CommitPending, Goto
<1>3. /\ ops = {op[p]} /\ \A q \in Proc \ {p} : pc[q] = "idle"
  BY <1>1, <1>2, OnlyRun DEF Working
<1>4. pLines[op[p]] # <<>>
  BY <1>1, <1>2 DEF IInv, PublishInv
<1>5. \A q \in Proc : pc[q] \notin Scanning /\ pc'[q] \notin Scanning
  BY <1>1, <1>2, <1>3, LocalTypes DEF Scanning
<1> QED
  BY <1>1, <1>2, <1>3, <1>4, <1>5, CommitCovers

-----------------------------------------------------------------------------
(* The invariant *)

\* A process that leaves, and one that goes on outside the scan.
LEMMA QuietCovers ==
    ASSUME TypeOK, TypeOK', Cover, UNCHANGED <<content, ckpt, seen>>, NEW p \in Proc,
           \/ Exit(p) /\ UNCHANGED <<ops, pSeen, pCkpt, pLines>>
           \/ /\ pc[p] \notin Scanning /\ UNCHANGED scan
              /\ \E l : l \notin Scanning \cup {"lines"} /\ pc' = [pc EXCEPT ![p] = l]
              /\ \A q \in Proc \ {p} : pc[q] = "idle" \/ UNCHANGED <<op, pSeen>>
              /\ \A o \in ops' :
                   /\ o \in ops /\ pSeen'[o] = pSeen[o] /\ pCkpt'[o] = pCkpt[o]
                   /\ \/ pLines'[o] = pLines[o]
                      \/ pc[p] = "lines" /\ op[p] = o
    PROVE  Cover'
<1>1. \A s \in Source : /\ Len(content'[s]) >= Len(content[s])
                        /\ \A i \in 1..Len(content[s]) : content'[s][i] = content[s][i]
  BY OffsetTypes, SMT
<1>2. CASE Exit(p) /\ UNCHANGED <<ops, pSeen, pCkpt, pLines>>
  <2>1. /\ pc'[p] = "idle" /\ scan'[p] = NoScan
        /\ \A q \in Proc \ {p} : pc'[q] = pc[q] /\ op'[q] = op[q] /\ scan'[q] = scan[q]
    BY <1>2 DEF Exit, Goto, TypeOK
  <2> QED
    BY <1>1, <1>2, <2>1, CoverFrame DEF Scanning
<1>3. ASSUME NEW l, l \notin Scanning \cup {"lines"}, pc' = [pc EXCEPT ![p] = l],
             pc[p] \notin Scanning, UNCHANGED scan,
             \A q \in Proc \ {p} : pc[q] = "idle" \/ UNCHANGED <<op, pSeen>>,
             \A o \in ops' :
                   /\ o \in ops /\ pSeen'[o] = pSeen[o] /\ pCkpt'[o] = pCkpt[o]
                   /\ \/ pLines'[o] = pLines[o]
                      \/ pc[p] = "lines" /\ op[p] = o
      PROVE  Cover'
  <2>1. /\ pc'[p] = l /\ scan'[p] = scan[p]
        /\ \A q \in Proc \ {p} : pc'[q] = pc[q] /\ scan'[q] = scan[q]
    BY <1>3, LocalTypes
  <2>2. \A q \in Proc : pc[q] \notin Scanning => scan[q] = NoScan
    BY DEF Cover, ScanCovers, Scanning
  <2>3. \A q \in Proc :
          \/ /\ pc'[q] = pc[q] /\ op'[q] = op[q] /\ scan'[q] = scan[q]
             /\ pc[q] \in Scanning => UNCHANGED pSeen
          \/ pc'[q] \notin Scanning /\ scan'[q] = NoScan
    BY <1>3, <2>1, <2>2 DEF Scanning
  <2>4. \A q \in Proc : pc'[q] = "lines" => pc[q] = "lines" /\ op'[q] = op[q]
    BY <1>3, <2>1
  <2> QED
    BY <1>1, <1>3, <2>3, <2>4, CoverFrame
<1> QED
  BY <1>2, <1>3

\* Every step keeps checkpoints and records together, and moves no checkpoint
\* back.
LEMMA CoverStep ==
    ASSUME ~ TruncateAllowed, ArchiveInv, Cover, [Next]_vars
    PROVE  Cover' /\ \A s \in Source : ckpt[s] <= ckpt'[s]
<1>0. IInv /\ TypeOK /\ TypeOK'
  BY TypeStep DEF ArchiveInv, IInv
<1>1. ASSUME UNCHANGED ckpt PROVE \A s \in Source : ckpt[s] <= ckpt'[s]
  BY <1>0, <1>1, OffsetTypes, SMT
<1>2. ASSUME NEW p \in Proc, pc[p] # "idle" PROVE \A q \in Proc \ {p} : pc[q] = "idle"
  BY <1>0, <1>2, OnlyRun
<1>3. ASSUME NEW p \in Proc, LockArchive(p) PROVE Cover' /\ UNCHANGED ckpt
  BY <1>0, <1>3, QuietCovers DEF LockArchive, Goto, sqlVars, Scanning
<1>4. ASSUME NEW p \in Proc, NEW o \in OpId, RecoverDiscardChunk(p, o)
      PROVE  Cover' /\ UNCHANGED ckpt
  <2>1. UNCHANGED <<content, ckpt, seen, ops, pSeen, pCkpt, pLines, pc, op, scan>>
    BY <1>4 DEF RecoverDiscardChunk, sqlVars, localVars
  <2>2. \A s \in Source : Len(content'[s]) >= Len(content[s])
    BY <1>0, <2>1, OffsetTypes, SMT
  <2> QED
    BY <1>0, <2>1, <2>2, CoverFrame
<1>5. ASSUME NEW p \in Proc, NEW o \in OpId, RecoverDiscardRows(p, o)
      PROVE  Cover' /\ UNCHANGED ckpt
  <2>1. /\ pc[p] = "recover" /\ o \in queue[p] /\ ops' = ops \ {o}
        /\ UNCHANGED <<content, ckpt, seen, pc, op, scan>>
    BY <1>5 DEF RecoverDiscardRows, DeleteRows
  <2>2. ops' = {}
    BY <1>0, <2>1 DEF IInv, OpsInv, AtMostOnePending
  <2>3. pc' = [pc EXCEPT ![p] = "recover"]
    BY <1>0, <2>1 DEF TypeOK
  <2> QED
    BY <1>0, <1>2, <2>1, <2>2, <2>3, QuietCovers DEF Scanning
<1>6. ASSUME NEW p \in Proc, NEW o \in OpId, RecoverSync(p, o)
      PROVE  Cover' /\ UNCHANGED ckpt
  BY <1>0, <1>2, <1>6, QuietCovers DEF RecoverSync, Goto, sqlVars, Scanning
<1>7. ASSUME NEW p \in Proc, NEW o \in OpId, RecoverMissingChunk(p, o)
      PROVE  Cover' /\ UNCHANGED ckpt
  BY <1>0, <1>7, QuietCovers DEF RecoverMissingChunk, sqlVars
<1>8. ASSUME NEW p \in Proc, NEW o \in OpId, BeginBackup(p, o)
      PROVE  Cover' /\ UNCHANGED ckpt
  BY <1>0, <1>8, BeginCovers DEF BeginBackup
<1>9. ASSUME NEW p \in Proc, Scan(p) PROVE Cover' /\ UNCHANGED ckpt
  <2>1. ~ SkipRecord(p)
    BY <1>0, NextIsNew DEF SkipRecord
  <2>2. UNCHANGED ckpt
    BY <1>9 DEF Scan, StatSource, OpenSource, StageRecord, SkipRecord, CloseSource,
       FinishScan, sqlVars
  <2> QED
    BY <1>0, <1>9, <2>1, <2>2, StatSourceStep, OpenSourceStep, StageRecordCovers,
       CloseSourceStep, FinishScanCovers DEF Scan
<1>10. ASSUME NEW p \in Proc, StageCheckpoints(p) PROVE Cover' /\ UNCHANGED ckpt
  BY <1>10, StageCheckpointsCovers DEF StageCheckpoints
<1>11. ASSUME NEW p \in Proc, DropOperation(p) PROVE Cover' /\ UNCHANGED ckpt
  <2>1. /\ pc[p] = "drop" /\ ops' = ops \ {op[p]} /\ pc' = [pc EXCEPT ![p] = "done"]
        /\ UNCHANGED <<content, ckpt, seen, scan>>
    BY <1>11 DEF DropOperation, DeleteRows, Goto
  <2>2. ops' = {}
    BY <1>0, <2>1, OnlyRun DEF Working
  <2> QED
    BY <1>0, <1>2, <2>1, <2>2, QuietCovers DEF Scanning
<1>12. ASSUME NEW p \in Proc, StageLines(p) PROVE Cover' /\ UNCHANGED ckpt
  <2>1. /\ pc[p] = "lines" /\ pLines' = [pLines EXCEPT ![op[p]] = lines'[p]]
        /\ pc' = [pc EXCEPT ![p] = "promote"]
        /\ UNCHANGED <<content, ckpt, seen, ops, pSeen, pCkpt, scan>>
    BY <1>12 DEF StageLines, Goto
  <2>2. ops = {op[p]}
    BY <1>0, <2>1, OnlyRun DEF Working
  <2> QED
    BY <1>0, <1>2, <2>1, <2>2, QuietCovers DEF Scanning
<1>13. ASSUME NEW p \in Proc, PromoteChunk(p) PROVE Cover' /\ UNCHANGED ckpt
  <2>1. /\ pc[p] = "promote"
        /\ UNCHANGED <<content, ckpt, seen, ops, pSeen, pCkpt, pLines, pc, op, scan>>
    BY <1>13 DEF PromoteChunk, sqlVars, localVars
  <2>2. pc' = [pc EXCEPT ![p] = "promote"]
    BY <1>0, <2>1 DEF TypeOK
  <2> QED
    BY <1>0, <1>2, <2>1, <2>2, QuietCovers DEF Scanning
<1>14. ASSUME NEW p \in Proc, ReplaceManifest(p) PROVE Cover' /\ UNCHANGED ckpt
  BY <1>0, <1>2, <1>14, QuietCovers DEF ReplaceManifest, Goto, sqlVars, Scanning
<1>15. ASSUME NEW p \in Proc, SyncMetadata(p) PROVE Cover' /\ UNCHANGED ckpt
  BY <1>0, <1>2, <1>15, QuietCovers DEF SyncMetadata, Goto, sqlVars, Scanning
<1>16. ASSUME NEW p \in Proc, Return(p) \/ Abort(p) PROVE Cover' /\ UNCHANGED ckpt
  BY <1>0, <1>16, QuietCovers DEF Return, Abort, sqlVars
<1>17. CASE PowerLoss
  <2>1. /\ \A q \in Proc : pc'[q] = "idle" /\ scan'[q] = NoScan
        /\ UNCHANGED <<content, ckpt, seen, ops, pSeen, pCkpt, pLines>>
    BY <1>17 DEF PowerLoss, sqlVars
  <2>2. \A s \in Source : Len(content'[s]) >= Len(content[s])
    BY <1>0, <2>1, OffsetTypes, SMT
  <2> QED
    BY <1>0, <1>1, <2>1, <2>2, CoverFrame DEF Scanning
<1>18. ASSUME NEW x \in Source, NEW t \in Text, AppendLine(x, t) PROVE Cover' /\ UNCHANGED ckpt
  <2>1. /\ content' = [content EXCEPT ![x] = Append(@, t)]
        /\ UNCHANGED <<ckpt, seen, ops, pSeen, pCkpt, pLines, pc, op, scan>>
    BY <1>18 DEF AppendLine, sqlVars, localVars
  <2>2. ASSUME NEW s \in Source
        PROVE  /\ Len(content'[s]) >= Len(content[s])
               /\ \A i \in 1..Len(content[s]) : content'[s][i] = content[s][i]
    <3>1. content[s] \in Seq(Text) /\ content \in [Source -> Seq(Text)]
      BY <1>0 DEF TypeOK
    <3>2. CASE s = x
      <4>1. content'[s] = Append(content[s], t)
        BY <2>1, <3>1, <3>2
      <4> QED
        BY <3>1, <4>1, SMT
    <3>3. CASE s # x
      <4>1. content'[s] = content[s]
        BY <2>1, <3>1, <3>3
      <4> QED
        BY <3>1, <4>1, SMT
    <3> QED
      BY <3>2, <3>3
  <2> QED
    BY <1>0, <2>1, <2>2, CoverFrame
<1>19. CASE UNCHANGED vars
  <2>1. UNCHANGED <<content, ckpt, seen, ops, pSeen, pCkpt, pLines, pc, op, scan>>
    BY <1>19 DEF vars, sqlVars, localVars
  <2>2. \A s \in Source : Len(content'[s]) >= Len(content[s])
    BY <1>0, <2>1, OffsetTypes, SMT
  <2> QED
    BY <1>0, <1>1, <2>1, <2>2, CoverFrame
<1>20. ASSUME NEW p \in Proc, CommitCheckpoints(p) \/ RecoverCommit(p) \/ CommitPending(p)
       PROVE  Cover' /\ \A s \in Source : ckpt[s] <= ckpt'[s]
  <2>1. \A s \in Source : ckpt[s] <= ckpt[s]
    BY <1>0, OffsetTypes, SMT
  <2> QED
    BY <1>20, <2>1, CommitCheckpointsCovers, BothCommits
<1>21. ASSUME Cover' /\ UNCHANGED ckpt PROVE Cover' /\ \A s \in Source : ckpt[s] <= ckpt'[s]
  BY <1>1, <1>21
<1>22. ~ \E x \in Source : TruncateSource(x)
  BY DEF TruncateSource
<1> QED
  BY <1>3, <1>4, <1>5, <1>6, <1>7, <1>8, <1>9, <1>10, <1>11, <1>12, <1>13, <1>14, <1>15,
     <1>16, <1>17, <1>18, <1>19, <1>20, <1>21, <1>22
     DEF Next, Step, Recover, Publish, Environment

\* Nothing is handled at first.
LEMMA CoverInit == Init => Cover
<1> SUFFICES ASSUME Init PROVE Cover
  OBVIOUS
<1>1. /\ \A s \in Source : ckpt[s] = 0 /\ Len(content[s]) = 0
      /\ seen = {} /\ ops = {} /\ \A p \in Proc : pc[p] = "idle" /\ scan[p] = NoScan
  BY SMT DEF Init
<1>2. \A s \in Source : Span(s, 0, 0) = {}
  BY SpanEmpty, SMT
<1>3. SeenBefore
  BY <1>1, <1>2, SMT DEF SeenBefore, OfSource
<1>4. ScanCovers /\ RowsCover
  BY <1>1 DEF ScanCovers, RowsCover
<1> QED
  BY <1>3, <1>4 DEF Cover

-----------------------------------------------------------------------------
(* Theorems *)

\* The invariant of the checkpoints holds of every reachable state.
THEOREM CheckpointInvariance == Spec => []CheckpointInv
<1>1. CASE TruncateAllowed
  <2>1. CheckpointInv
    BY <1>1 DEF CheckpointInv
  <2> QED
    BY <2>1, PTL
<1>2. CASE ~ TruncateAllowed
  <2>1. ArchiveInv /\ Cover /\ [Next]_vars => Cover'
    BY <1>2, CoverStep
  <2>2. Cover => CheckpointInv
    BY DEF Cover, CheckpointInv
  <2> QED
    BY CoverInit, <2>1, <2>2, ArchiveInvariance, PTL DEF Spec
<1> QED
  BY <1>1, <1>2

\* When session files only grow, the lines below a checkpoint are exactly the
\* records a backup skips: no interruption makes it pass over a line.
THEOREM CheckpointsAgree == ~ TruncateAllowed => (Spec => []CheckpointMatchesSeen)
<1> SUFFICES ASSUME ~ TruncateAllowed PROVE Spec => []CheckpointMatchesSeen
  OBVIOUS
<1>1. CheckpointInv => CheckpointMatchesSeen
  <2>1. 0 + 1 = 1
    BY SMT
  <2> QED
    BY <2>1 DEF CheckpointInv, SeenBefore, Span, OfSource, CheckpointMatchesSeen
<1> QED
  BY CheckpointInvariance, <1>1, PTL

\* When session files only grow, no commit takes a checkpoint back, also not one
\* that recovery repeats for an operation somebody else began.
THEOREM Advancing == ~ TruncateAllowed => (Spec => CheckpointsAdvance)
<1> SUFFICES ASSUME ~ TruncateAllowed PROVE Spec => CheckpointsAdvance
  OBVIOUS
<1>1. CheckpointInv => Cover
  BY DEF CheckpointInv, Cover
<1>2. ArchiveInv /\ Cover /\ [Next]_vars => [\A s \in Source : ckpt[s] <= ckpt'[s]]_vars
  BY CoverStep
<1> QED
  BY CheckpointInvariance, ArchiveInvariance, <1>1, <1>2, PTL DEF Spec, CheckpointsAdvance
=============================================================================
