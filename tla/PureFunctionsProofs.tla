------------------------ MODULE PureFunctionsProofs ------------------------
(***************************************************************************)
(* The properties of PureFunctions, for every table of tools, kinds,        *)
(* requests and tails that the assumptions allow.                           *)
(***************************************************************************)
EXTENDS PureFunctions, TLAPS

-----------------------------------------------------------------------------
(* The ring of a search.                                                   *)

\* A line of a log.
Line == [at : Nat, match : BOOLEAN]

\* What lines and r have to be when all the matches so far are all, n of
\* them: the first ones while the ring fills, then the last tail ones with the
\* oldest at place r + 1.
Turned(lines, r, total, tail, all, n) ==
    /\ total = n
    /\ tail <= 0 \/ n < tail => lines = all /\ r = 0
    /\ tail > 0 /\ n >= tail =>
          /\ Len(lines) = tail
          /\ r \in 0..(tail - 1)
          /\ \A i \in 1..r : lines[i] = all[n - r + i]
          /\ \A i \in (r + 1)..tail : lines[i] = all[n - tail + i - r]

\* The ring of a search holds what it should.
RingHolds(ring, tail, all) ==
    Turned(ring.lines, ring.ringIdx, ring.total, tail, all, Len(all))

\* The types of a ring and of a search.
Ring == [lines : Seq(Line), ringIdx : Nat, total : Nat]
Search == [tail : Int, read : Nat, ring : Ring, matched : Seq(Line)]

\* A search whose ring is as it should be.
Searched(s) == s \in Search /\ RingHolds(s.ring, s.tail, s.matched)

\* The remainder of a number below twice the divisor.
LEMMA Wrap ==
    ASSUME NEW n \in Nat, n > 0, NEW k \in Nat, k < 2 * n
    PROVE  k % n = IF k < n THEN k ELSE k - n
OBVIOUS

\* A matching line is put where the ring needs it.
LEMMA ScanKeeps ==
    ASSUME NEW tail \in Int, NEW ring \in Ring, NEW all \in Seq(Line), NEW line \in Line,
           line.match, RingHolds(ring, tail, all)
    PROVE  /\ ScanLine(ring, line, tail) \in Ring
           /\ RingHolds(ScanLine(ring, line, tail), tail, Append(all, line))
<1> DEFINE next == ScanLine(ring, line, tail)
           more == Append(all, line)
<1>1. more \in Seq(Line) /\ Len(more) = Len(all) + 1 /\ more[Len(all) + 1] = line
      /\ \A i \in 1..Len(all) : more[i] = all[i]
  OBVIOUS
<1>2. CASE tail <= 0 \/ Len(ring.lines) < tail
  <2>1. next = [lines |-> Append(ring.lines, line), ringIdx |-> ring.ringIdx,
                total |-> ring.total + 1]
    BY <1>2 DEF ScanLine, Ring
  <2>2. ring.lines = all /\ ring.ringIdx = 0 /\ ring.total = Len(all)
    BY <1>2 DEF RingHolds, Turned
  <2>3. Append(ring.lines, line) = more
    BY <2>2
  <2> HIDE DEF more
  <2>4. next.lines = more /\ next.ringIdx = 0 /\ next.total = Len(more)
    BY <1>1, <2>1, <2>2, <2>3
  <2>5. next \in Ring
    BY <1>1, <2>1, <2>2, <2>3 DEF Ring
  <2>6. Len(all) \in Nat /\ (tail <= 0 \/ Len(all) < tail)
    BY <1>2, <2>2
  <2> HIDE DEF next
  <2>7. RingHolds(next, tail, more)
    BY <1>1, <2>4, <2>6 DEF RingHolds, Turned
  <2> QED BY <2>5, <2>7 DEF next, more
<1>3. CASE ~ (tail <= 0 \/ Len(ring.lines) < tail)
  <2>2. tail \in Nat /\ tail > 0 /\ Len(all) >= tail
    BY <1>3 DEF RingHolds, Turned, Ring
  <2>3. Len(ring.lines) = tail /\ ring.ringIdx \in 0..(tail - 1) /\ ring.total = Len(all)
    BY <2>2 DEF RingHolds, Turned
  <2> DEFINE r == ring.ringIdx
             n == Len(all)
             lines == ring.lines
             put == [lines EXCEPT ![r + 1] = line]
             up == IF r + 1 < tail THEN r + 1 ELSE 0
  <2>4. (r + 1) % tail = up
    BY <2>2, <2>3, Wrap
  <2>1. next = [lines |-> put, ringIdx |-> up, total |-> ring.total + 1]
    BY <1>3, <2>4 DEF ScanLine, Ring
  <2>6. put \in Seq(Line) /\ Len(put) = tail
        /\ \A i \in 1..tail : put[i] = IF i = r + 1 THEN line ELSE lines[i]
    BY <2>3 DEF Ring
  <2>9. /\ \A i \in 1..r : lines[i] = all[n - r + i]
        /\ \A i \in (r + 1)..tail : lines[i] = all[n - tail + i - r]
    BY <2>2 DEF RingHolds, Turned
  <2>10. r \in Nat /\ r < tail /\ n \in Nat /\ n >= tail /\ ring.total = n
    BY <2>2, <2>3
  <2>5. up \in 0..(tail - 1) /\ up \in Nat
    BY <2>2, <2>10
  <2>12. Len(more) = n + 1 /\ more[n + 1] = line /\ \A i \in 1..n : more[i] = all[i]
    BY <1>1
  <2> HIDE DEF put, lines, r, more, n
  <2>7. next.lines = put /\ next.total = n + 1 /\ next.ringIdx = up
    BY <2>1, <2>10
  <2>8. next \in Ring
    BY <2>1, <2>5, <2>6, <2>10 DEF Ring
  <2>11. CASE r + 1 < tail
    <3>1. up = r + 1
      BY <2>11
    <3>2. ASSUME NEW i \in 1..up PROVE put[i] = more[n + 1 - up + i]
      <4>1. n + 1 - up + i = n - r + i /\ i \in 1..tail
        BY <2>2, <2>10, <3>1
      <4>2. CASE i = r + 1
        BY <2>2, <2>6, <2>10, <2>12, <4>1, <4>2
      <4>3. CASE i # r + 1
        <5>1. i \in 1..r /\ n - r + i \in 1..n
          BY <2>10, <2>2, <3>1, <4>3
        <5> QED BY <2>6, <2>9, <2>12, <4>1, <4>3, <5>1
      <4> QED BY <4>2, <4>3
    <3>3. ASSUME NEW i \in (up + 1)..tail PROVE put[i] = more[n + 1 - tail + i - up]
      <4>1. n + 1 - tail + i - up = n - tail + i - r /\ i \in 1..tail /\ i # r + 1
            /\ i \in (r + 1)..tail /\ n - tail + i - r \in 1..n
        BY <2>2, <2>10, <3>1
      <4> QED BY <2>6, <2>9, <2>12, <4>1
    <3> HIDE DEF up, next
    <3>4. Turned(put, up, n + 1, tail, more, n + 1)
      BY <2>2, <2>5, <2>6, <2>10, <3>2, <3>3 DEF Turned
    <3>7. RingHolds(next, tail, more)
      BY <2>7, <2>12, <3>4 DEF RingHolds
    <3> QED BY <2>8, <3>7 DEF next, more
  <2>13. CASE r + 1 = tail
    <3>1. up = 0
      BY <2>13, <2>10, <2>2
    <3>2. \A i \in 1..up : put[i] = more[n + 1 - up + i]
      BY <3>1
    <3>3. ASSUME NEW i \in (up + 1)..tail PROVE put[i] = more[n + 1 - tail + i - up]
      <4>1. n + 1 - tail + i - up = n - r + i /\ i \in 1..tail
        BY <2>2, <2>10, <2>13, <3>1
      <4>2. CASE i = r + 1
        BY <2>2, <2>6, <2>10, <2>12, <4>1, <4>2
      <4>3. CASE i # r + 1
        <5>1. i \in 1..r /\ n - r + i \in 1..n
          BY <2>10, <2>2, <2>13, <3>1, <4>3
        <5> QED BY <2>6, <2>9, <2>12, <4>1, <4>3, <5>1
      <4> QED BY <4>2, <4>3
    <3> HIDE DEF up, next
    <3>4. Turned(put, up, n + 1, tail, more, n + 1)
      BY <2>2, <2>5, <2>6, <2>10, <3>2, <3>3 DEF Turned
    <3>7. RingHolds(next, tail, more)
      BY <2>7, <2>12, <3>4 DEF RingHolds
    <3> QED BY <2>8, <3>7 DEF next, more
  <2> QED BY <2>2, <2>10, <2>11, <2>13
<1> QED BY <1>2, <1>3

\* A search starts with an empty ring that is as it should be.
LEMMA Starts ==
    ASSUME NEW tail \in Int
    PROVE  Searched(StartSearch(tail))
<1> DEFINE s == StartSearch(tail)
<1>1. s = [tail |-> tail, read |-> 0, ring |-> EmptyRing, matched |-> << >>]
  BY DEF StartSearch
<1>2. << >> \in Seq(Line) /\ Len(<< >>) = 0
  OBVIOUS
<1>3. /\ EmptyRing.lines = << >> /\ EmptyRing.ringIdx = 0 /\ EmptyRing.total = 0
      /\ EmptyRing \in Ring
  BY <1>2 DEF EmptyRing, Ring
<1>4. s \in Search
  BY <1>1, <1>2, <1>3 DEF Search
<1>5. Turned(<< >>, 0, 0, tail, << >>, 0)
  BY DEF Turned
<1>6. RingHolds(EmptyRing, tail, << >>)
  BY <1>2, <1>3, <1>5 DEF RingHolds
<1> QED BY <1>1, <1>4, <1>6 DEF Searched

\* One turn of the scanner's loop keeps the ring as it should be.
LEMMA Reads ==
    ASSUME NEW s, Searched(s), NEW match \in BOOLEAN
    PROVE  Searched(ReadLine(s, match))
<1>0. s \in Search /\ RingHolds(s.ring, s.tail, s.matched)
  BY DEF Searched
<1> DEFINE line == [at |-> s.read + 1, match |-> match]
           ring == ScanLine(s.ring, line, s.tail)
           all == IF match THEN Append(s.matched, line) ELSE s.matched
<1>1. line \in Line /\ s.ring \in Ring /\ s.matched \in Seq(Line) /\ s.tail \in Int
  BY <1>0 DEF Search, Line
<1>2. ring \in Ring /\ RingHolds(ring, s.tail, all) /\ all \in Seq(Line)
  <2>1. CASE match
    <3>1. line.match
      BY <2>1
    <3> HIDE DEF line
    <3> QED BY <1>0, <1>1, <2>1, <3>1, ScanKeeps
  <2>2. CASE ~ match
    BY <1>0, <1>1, <2>2 DEF ScanLine
  <2> QED BY <2>1, <2>2
<1>3. ReadLine(s, match) = [s EXCEPT !.read = s.read + 1, !.ring = ring, !.matched = all]
  BY DEF ReadLine
<1>4. s.read + 1 \in Nat
  BY <1>0 DEF Search
<1> HIDE DEF ring, all
<1>6. ReadLine(s, match) = [tail |-> s.tail, read |-> s.read + 1, ring |-> ring,
                            matched |-> all]
  BY <1>0, <1>3 DEF Search
<1>5. ReadLine(s, match) \in Search
  BY <1>1, <1>2, <1>4, <1>6 DEF Search
<1> QED BY <1>2, <1>5, <1>6 DEF Searched

\* Read from its oldest place, the ring is the end of the matches.
LEMMA OrderedIsTail ==
    ASSUME NEW tail \in Int, NEW ring \in Ring, NEW all \in Seq(Line),
           RingHolds(ring, tail, all)
    PROVE  Ordered(ring, tail) =
              LET kept == IF tail <= 0 \/ tail > Len(all) THEN Len(all) ELSE tail
              IN  SubSeq(all, Len(all) - kept + 1, Len(all))
<1>1. CASE tail <= 0 \/ tail > Len(all)
  <2>1. ring.lines = all
    BY <1>1 DEF RingHolds, Turned
  <2>2. Ordered(ring, tail) = all
    BY <1>1, <2>1 DEF Ordered
  <2>3. SubSeq(all, 1, Len(all)) = all
    OBVIOUS
  <2>4. Len(all) - Len(all) + 1 = 1
    OBVIOUS
  <2> QED BY <1>1, <2>2, <2>3, <2>4
<1>2. CASE ~ (tail <= 0 \/ tail > Len(all))
  <2>1. tail \in Nat /\ tail > 0 /\ Len(all) >= tail
    BY <1>2
  <2> DEFINE r == ring.ringIdx
             n == Len(all)
             lines == ring.lines
             ordered == [i \in 1..tail |-> lines[((r + i - 1) % tail) + 1]]
             last == SubSeq(all, n - tail + 1, n)
  <2>7. Len(ring.lines) = tail
    BY <2>1 DEF RingHolds, Turned
  <2>2. Ordered(ring, tail) = ordered
    BY <2>1, <2>7 DEF Ordered
  <2>3. /\ r \in Nat /\ r < tail
        /\ \A i \in 1..r : lines[i] = all[n - r + i]
        /\ \A i \in (r + 1)..tail : lines[i] = all[n - tail + i - r]
    BY <2>1 DEF RingHolds, Turned
  <2>4. last = [i \in 1..tail |-> all[n - tail + i]]
    BY <2>1
  <2>8. \A j \in (r + 1)..tail : lines[j] = all[n - tail + j - r]
    BY <2>3
  <2>9. n \in Nat
    OBVIOUS
  <2> HIDE DEF r, lines, last, n
  <2>5. ASSUME NEW i \in 1..tail
        PROVE  lines[((r + i - 1) % tail) + 1] = all[n - tail + i]
    <3> DEFINE k == r + i - 1
    <3>1. k \in Nat /\ k < 2 * tail /\ n \in Nat /\ k = r + i - 1
      BY <2>1, <2>3, <2>9
    <3> HIDE DEF k
    <3>2. k % tail = IF k < tail THEN k ELSE k - tail
      BY <2>1, <3>1, Wrap
    <3>3. CASE k < tail
      <4> DEFINE j == k + 1
      <4>1. j \in (r + 1)..tail /\ n - tail + j - r = n - tail + i /\ (k % tail) + 1 = j
        BY <2>1, <2>3, <3>1, <3>2, <3>3
      <4> HIDE DEF j
      <4>2. lines[j] = all[n - tail + j - r]
        BY <2>8, <4>1
      <4> QED BY <4>1, <4>2 DEF k
    <3>4. CASE ~ (k < tail)
      <4>1. k - tail + 1 \in 1..r /\ n - r + (k - tail + 1) = n - tail + i
        BY <2>1, <2>3, <3>1, <3>4
      <4>2. (k % tail) + 1 = k - tail + 1 /\ lines[k - tail + 1] = all[n - tail + i]
        BY <2>1, <2>3, <3>1, <3>2, <3>4, <4>1
      <4> QED BY <4>2 DEF k
    <3>5. lines[(k % tail) + 1] = all[n - tail + i]
      BY <3>3, <3>4 DEF k
    <3> QED BY <3>5 DEF k
  <2>6. ordered = last
    BY <2>4, <2>5
  <2> QED BY <1>2, <2>2, <2>6 DEF last, n
<1> QED BY <1>1, <1>2

-----------------------------------------------------------------------------
(* The tools of a configuration.                                           *)

\* What Mutate keeps of a tool, and what it does to the name.
LEMMA Mutation ==
    ASSUME NEW k \in Configs, NEW q \in Providers,
           NEW i \in DOMAIN Offered(k, "tools")
    PROVE  LET t == Offered(k, "tools")[i]
               m == Mutate(k, q, t)
           IN  /\ m.name = IF t.name = TargetsListToolName
                           THEN MutatedTargetsListName(q.parameter) ELSE t.name
               /\ m.readOnly = t.readOnly
               /\ m.destructive = t.destructive
               /\ m.targetListProvider = t.targetListProvider
               /\ m.requires = t.requires
<1> DEFINE t == Offered(k, "tools")[i]
           a == WithTargetParameter(q, t)
           b == WithTargetListTool(q, a)
           Same(x, y) == /\ x.readOnly = y.readOnly
                         /\ x.destructive = y.destructive
                         /\ x.targetListProvider = y.targetListProvider
                         /\ x.requires = y.requires
           Fields == {"name", "readOnly", "destructive", "clusterAware",
                      "targetListProvider", "requires", "description", "properties"}
<1>1. Fields \subseteq DOMAIN t /\ t = [f \in DOMAIN t |-> t[f]]
  BY ToolAssumption
<1> HIDE DEF t
<1>2. Same(a, t) /\ a.name = t.name /\ Fields \subseteq DOMAIN a
  BY <1>1 DEF WithTargetParameter
<1> HIDE DEF a
<1>3. Same(b, a) /\ Fields \subseteq DOMAIN b
      /\ b.name = IF a.name = TargetsListToolName
                  THEN MutatedTargetsListName(q.parameter) ELSE a.name
  BY <1>2 DEF WithTargetListTool
<1> HIDE DEF b
<1>4. Same(WithToolOverrides(k, b), b) /\ WithToolOverrides(k, b).name = b.name
  BY <1>3 DEF WithToolOverrides
<1> QED BY <1>2, <1>3, <1>4 DEF Mutate, a, b, t

\* What a position of the exposed tools holds.
LEMMA ExposedAt ==
    ASSUME NEW k, NEW q, NEW i \in DOMAIN CollectApplicableTools(k, q)
    PROVE  /\ i \in DOMAIN Offered(k, "tools")
           /\ CollectApplicableTools(k, q)[i] = Mutate(k, q, Offered(k, "tools")[i])
           /\ IsToolApplicable(k, q, CollectApplicableTools(k, q)[i])
           /\ ShouldIncludeTargetListTool(q, CollectApplicableTools(k, q)[i])
BY DEF CollectApplicableTools

\* A mutated tool that passes both filters is exposed.
LEMMA ExposedIf ==
    ASSUME NEW k, NEW q, NEW i \in DOMAIN Offered(k, "tools"),
           IsToolApplicable(k, q, Mutate(k, q, Offered(k, "tools")[i])),
           ShouldIncludeTargetListTool(q, Mutate(k, q, Offered(k, "tools")[i]))
    PROVE  i \in DOMAIN CollectApplicableTools(k, q)
BY DEF CollectApplicableTools

\* Exposed tools of the same name are the same tool: the name made for the
\* generic list tool is nobody else's.
LEMMA NamesApart ==
    ASSUME NEW k \in Configs, NEW q \in Providers,
           NEW i \in DOMAIN CollectApplicableTools(k, q),
           NEW j \in DOMAIN CollectApplicableTools(k, q),
           CollectApplicableTools(k, q)[i].name = CollectApplicableTools(k, q)[j].name
    PROVE  CollectApplicableTools(k, q)[i] = CollectApplicableTools(k, q)[j]
<1> DEFINE tools == Offered(k, "tools")
           made == MutatedTargetsListName(q.parameter)
           Name(x) == CollectApplicableTools(k, q)[x].name
<1>1. ASSUME NEW x \in {i, j}
      PROVE  /\ x \in DOMAIN tools /\ tools[x].name # made
             /\ Name(x) = IF tools[x].name = TargetsListToolName THEN made ELSE tools[x].name
  <2>1. x \in DOMAIN tools /\ CollectApplicableTools(k, q)[x] = Mutate(k, q, tools[x])
    BY ExposedAt
  <2>2. tools[x].name # made
    BY <2>1, ToolAssumption
  <2> QED BY <2>1, <2>2, Mutation
<1>2. tools[i].name = tools[j].name
  BY <1>1
<1>3. tools[i] = tools[j]
  BY <1>1, <1>2, ToolAssumption
<1> QED BY <1>3, ExposedAt

\* An exposed list tool is the one that belongs to the provider, and there are
\* several targets.
LEMMA OneList ==
    ASSUME NEW k \in Configs, NEW q \in Providers,
           NEW i \in DOMAIN CollectApplicableTools(k, q),
           CollectApplicableTools(k, q)[i].targetListProvider
    PROVE  /\ q.multi
           /\ i \in DOMAIN Offered(k, "tools")
           /\ Offered(k, "tools")[i].name =
                 IF q.parameter = ContextParameter THEN "configuration_contexts_list"
                 ELSE TargetsListToolName
<1> DEFINE t == Offered(k, "tools")[i]
           m == Mutate(k, q, t)
           made == MutatedTargetsListName(q.parameter)
<1>1. /\ i \in DOMAIN Offered(k, "tools") /\ CollectApplicableTools(k, q)[i] = m
      /\ ShouldIncludeTargetListTool(q, m)
  BY ExposedAt
<1>2. t.targetListProvider = (t.name \in ListTools) /\ t.name # made
  BY <1>1, ToolAssumption
<1>3. m.targetListProvider = t.targetListProvider
      /\ m.name = IF t.name = TargetsListToolName THEN made ELSE t.name
  BY <1>1, Mutation
<1>4. m.targetListProvider
  BY <1>1
<1> HIDE DEF m, t, made
<1>5. t.name \in ListTools
  BY <1>2, <1>3, <1>4
<1>6. q.multi /\ (m.name = "configuration_contexts_list" => q.parameter = ContextParameter)
      /\ (m.name = made => q.parameter # ContextParameter)
  BY <1>1, <1>4 DEF ShouldIncludeTargetListTool, made
<1>7. TargetsListToolName # "configuration_contexts_list"
  BY DEF TargetsListToolName
<1>8. t.name = IF q.parameter = ContextParameter THEN "configuration_contexts_list"
               ELSE TargetsListToolName
  BY <1>3, <1>5, <1>6, <1>7 DEF ListTools
<1> QED BY <1>1, <1>6, <1>8 DEF t

\* A tool exposed by the tighter configuration is exposed by the other one.
LEMMA Tightened ==
    ASSUME NEW k, NEW l, NEW q, Tighter(k, l),
           NEW i \in DOMAIN CollectApplicableTools(l, q)
    PROVE  /\ i \in DOMAIN CollectApplicableTools(k, q)
           /\ CollectApplicableTools(k, q)[i] = CollectApplicableTools(l, q)[i]
<1> DEFINE m == Mutate(l, q, Offered(l, "tools")[i])
<1>1. Offered(k, "tools") = Offered(l, "tools")
  BY DEF Offered, Tighter
<1>2. Mutate(k, q, Offered(k, "tools")[i]) = m
  BY <1>1 DEF Mutate, WithToolOverrides, Tighter
<1>3. i \in DOMAIN Offered(l, "tools") /\ CollectApplicableTools(l, q)[i] = m
      /\ IsToolApplicable(l, q, m) /\ ShouldIncludeTargetListTool(q, m)
  BY ExposedAt
<1>4. IsToolApplicable(k, q, m)
  BY <1>3 DEF IsToolApplicable, Tighter
<1> HIDE DEF m
<1>5. i \in DOMAIN CollectApplicableTools(k, q)
  BY <1>1, <1>2, <1>3, <1>4, ExposedIf
<1> QED BY <1>2, <1>3, <1>5, ExposedAt

\* With several targets, both list tools offered and no explicit lists, the
\* provider's list tool is exposed.
LEMMA ListExposed ==
    ASSUME NEW k \in Configs, NEW q \in Providers, q.multi,
           ListTools \subseteq ItemNames(Offered(k, "tools")),
           k.EnabledTools = NoList, k.DisabledTools = NoList
    PROVE  \E i \in DOMAIN CollectApplicableTools(k, q) :
              /\ CollectApplicableTools(k, q)[i].targetListProvider
              /\ CollectApplicableTools(k, q)[i].name =
                    IF q.parameter = ContextParameter THEN "configuration_contexts_list"
                    ELSE MutatedTargetsListName(q.parameter)
<1> DEFINE tools == Offered(k, "tools")
           made == MutatedTargetsListName(q.parameter)
           mine == IF q.parameter = ContextParameter THEN "configuration_contexts_list"
                   ELSE TargetsListToolName
           Mine(x) == x = IF q.parameter = ContextParameter THEN "configuration_contexts_list"
                          ELSE made
<1>1. PICK i \in DOMAIN tools : tools[i].name = mine
  <2>1. mine \in ListTools
    BY DEF ListTools
  <2> QED BY <2>1 DEF ItemNames
<1> DEFINE t == tools[i]
           m == Mutate(k, q, t)
<1>2. /\ t.targetListProvider /\ t.readOnly /\ ~ t.destructive /\ t.requires = {}
      /\ t.name # made
  <2>1. t.name \in ListTools
    BY <1>1 DEF ListTools
  <2>2. t.targetListProvider = (t.name \in ListTools)
    BY ToolAssumption
  <2>3. t.readOnly /\ ~ t.destructive /\ t.requires = {} /\ t.name # made
    BY <2>1, ToolAssumption
  <2> QED BY <2>1, <2>2, <2>3
<1>3. /\ m.name = IF t.name = TargetsListToolName THEN made ELSE t.name
      /\ m.readOnly = t.readOnly /\ m.destructive = t.destructive
      /\ m.targetListProvider = t.targetListProvider /\ m.requires = t.requires
  BY Mutation
<1> HIDE DEF t, m, made
<1>4. TargetsListToolName # "configuration_contexts_list"
  BY DEF TargetsListToolName
<1>5. t.name = mine
  BY <1>1 DEF t
<1>6. Mine(m.name)
  BY <1>3, <1>4, <1>5
<1>7. made # "configuration_contexts_list" \/ q.parameter # ContextParameter
  BY <1>2, <1>5
<1>8. m.targetListProvider /\ m.readOnly /\ ~ m.destructive /\ m.requires = {}
  BY <1>2, <1>3
<1>9. IsToolApplicable(k, q, m)
  BY <1>8 DEF IsToolApplicable
<1>10. m.name = "configuration_contexts_list" => q.parameter = ContextParameter
  <2>1. q.parameter # ContextParameter => m.name = made
    BY <1>6
  <2>2. made # "configuration_contexts_list"
    <3>1. PICK j \in DOMAIN tools : tools[j].name = "configuration_contexts_list"
      BY DEF ListTools, ItemNames
    <3>2. tools[j].name # made
      BY ToolAssumption DEF made
    <3> QED BY <3>1, <3>2
  <2> QED BY <2>1, <2>2
<1>11. m.name = made => q.parameter # ContextParameter
  BY <1>6, <1>7
<1>12. ShouldIncludeTargetListTool(q, m)
  BY <1>10, <1>11 DEF ShouldIncludeTargetListTool, made
<1>13. i \in DOMAIN CollectApplicableTools(k, q)
  BY <1>9, <1>12, ExposedIf DEF m, t
<1>14. CollectApplicableTools(k, q)[i] = m
  BY <1>13, ExposedAt DEF m, t
<1> QED BY <1>6, <1>8, <1>13, <1>14 DEF made

-----------------------------------------------------------------------------
(* Paths.                                                                  *)

\* Concatenation, place by place.
LEMMA Join ==
    ASSUME NEW S, NEW s \in Seq(S), NEW t \in Seq(S)
    PROVE  /\ s \o t \in Seq(S) /\ Len(s \o t) = Len(s) + Len(t)
           /\ \A i \in 1..Len(s) : (s \o t)[i] = s[i]
           /\ \A i \in 1..Len(t) : (s \o t)[Len(s) + i] = t[i]
           /\ Len(s) \in Nat /\ Len(t) \in Nat
OBVIOUS

\* A path put together of a root, a scope, a segment and two more parts.
Pieces(S, path, a, b, r, d, e) ==
    LET i == Len(a) + Len(b) + 1
    IN  /\ path \in Seq(S) /\ Len(path) = i + Len(d) + Len(e)
        /\ \A k \in 1..Len(a) : path[k] = a[k]
        /\ \A k \in 1..Len(b) : path[Len(a) + k] = b[k]
        /\ path[i] = r
        /\ \A k \in 1..Len(d) : path[i + k] = d[k]
        /\ \A k \in 1..Len(e) : path[i + Len(d) + k] = e[k]

\* Pieces holds of the concatenation.
LEMMA Parts ==
    ASSUME NEW S, NEW a \in Seq(S), NEW b \in Seq(S), NEW r \in S, NEW d \in Seq(S),
           NEW e \in Seq(S)
    PROVE  Pieces(S, a \o b \o <<r>> \o d \o e, a, b, r, d, e)
<1> DEFINE one == <<r>>
           ab == a \o b
           abr == ab \o one
           abrd == abr \o d
           path == abrd \o e
           l == Len(a)
           m == Len(b)
           n == Len(d)
           o == Len(e)
<1>1. one \in Seq(S) /\ Len(one) = 1 /\ one[1] = r
  OBVIOUS
<1> HIDE DEF one
<1>2. /\ ab \in Seq(S) /\ Len(ab) = l + m /\ l \in Nat /\ m \in Nat
      /\ \A k \in 1..l : ab[k] = a[k]
      /\ \A k \in 1..m : ab[l + k] = b[k]
  BY Join
<1> HIDE DEF ab, l, m
<1>3. /\ abr \in Seq(S) /\ Len(abr) = l + m + 1
      /\ \A k \in 1..(l + m) : abr[k] = ab[k]
      /\ abr[l + m + 1] = r
  <2>1. /\ abr \in Seq(S) /\ Len(abr) = Len(ab) + Len(one)
        /\ \A k \in 1..Len(ab) : abr[k] = ab[k]
        /\ \A k \in 1..Len(one) : abr[Len(ab) + k] = one[k]
    <3>1. ab \in Seq(S) /\ one \in Seq(S)
      BY <1>1, <1>2
    <3> QED BY <3>1, Join
  <2> HIDE DEF abr
  <2> QED BY <1>1, <1>2, <2>1
<1> HIDE DEF abr
<1>4. /\ abrd \in Seq(S) /\ Len(abrd) = l + m + 1 + n /\ n \in Nat
      /\ \A k \in 1..(l + m + 1) : abrd[k] = abr[k]
      /\ \A k \in 1..n : abrd[l + m + 1 + k] = d[k]
  <2>1. /\ abrd \in Seq(S) /\ Len(abrd) = Len(abr) + n /\ n \in Nat
        /\ \A k \in 1..Len(abr) : abrd[k] = abr[k]
        /\ \A k \in 1..n : abrd[Len(abr) + k] = d[k]
    <3>1. abr \in Seq(S)
      BY <1>3
    <3> QED BY <3>1, Join
  <2> HIDE DEF abrd, n
  <2> QED BY <1>3, <2>1
<1> HIDE DEF abrd
<1>5. /\ path \in Seq(S) /\ Len(path) = l + m + 1 + n + o
      /\ \A k \in 1..(l + m + 1 + n) : path[k] = abrd[k]
      /\ \A k \in 1..o : path[l + m + 1 + n + k] = e[k]
  <2>1. /\ path \in Seq(S) /\ Len(path) = Len(abrd) + o /\ o \in Nat
        /\ \A k \in 1..Len(abrd) : path[k] = abrd[k]
        /\ \A k \in 1..o : path[Len(abrd) + k] = e[k]
    <3>1. abrd \in Seq(S)
      BY <1>4
    <3> QED BY <3>1, Join
  <2> HIDE DEF path, n, o
  <2> QED BY <1>4, <2>1
<1> HIDE DEF path, n, o
<1>6. ASSUME NEW k \in 1..l PROVE path[k] = a[k]
  BY <1>2, <1>3, <1>4, <1>5
<1>7. ASSUME NEW k \in 1..m PROVE path[l + k] = b[k]
  BY <1>2, <1>3, <1>4, <1>5
<1>8. path[l + m + 1] = r
  BY <1>2, <1>3, <1>4, <1>5
<1>9. ASSUME NEW k \in 1..n PROVE path[l + m + 1 + k] = d[k]
  BY <1>2, <1>3, <1>4, <1>5
<1> QED BY <1>5, <1>6, <1>7, <1>8, <1>9 DEF path, abrd, abr, ab, one, l, m, n, o, Pieces
\* stripAPIPathPrefix takes off what the host's path put in front.
LEMMA PrefixStripped ==
    ASSUME NEW A, NEW B, NEW prefix \in Seq(A), NEW path \in Seq(B)
    PROVE  stripAPIPathPrefix(prefix \o path, prefix) = path
<1>5. prefix \in Seq(A \cup B) /\ path \in Seq(A \cup B)
  OBVIOUS
<1> DEFINE whole == prefix \o path
           m == Len(prefix)
           n == Len(path)
<1>1. /\ whole \in Seq(A \cup B) /\ Len(whole) = m + n /\ m \in Nat /\ n \in Nat
      /\ \A i \in 1..m : whole[i] = prefix[i]
      /\ \A i \in 1..n : whole[m + i] = path[i]
  BY <1>5, Join
<1> HIDE DEF whole
<1>2. SubSeq(prefix, 1, m) = SubSeq(whole, 1, m)
  <2>1. SubSeq(prefix, 1, m) = [i \in 1..m |-> prefix[i]]
    BY <1>1
  <2>2. SubSeq(whole, 1, m) = [i \in 1..m |-> whole[i]]
    BY <1>1
  <2> QED BY <1>1, <2>1, <2>2
<1>3. SubSeq(whole, m + 1, Len(whole)) = path
  <2>1. SubSeq(whole, m + 1, Len(whole)) = [i \in 1..n |-> whole[m + i]]
    BY <1>1
  <2>2. path = [i \in 1..n |-> path[i]]
    OBVIOUS
  <2> QED BY <1>1, <2>1, <2>2
<1>4. IsPrefix(prefix, whole)
  BY <1>1, <1>2 DEF IsPrefix
<1> QED BY <1>3, <1>4 DEF stripAPIPathPrefix, whole

\* The length of the root, the place of the resource and the length of a path.
Lead(q) == IF q.group = "" THEN 2 ELSE 3
Place(q) == Lead(q) + (IF q.ns = "" THEN 1 ELSE 3)
Size(q) == Place(q) + (IF q.name = "" THEN 0 ELSE 1) + (IF q.sub = "" THEN 0 ELSE 1)

\* What RequestAssumption says of a request.
Understandable(q) ==
    /\ q.sub # "" => q.name # ""
    /\ q.resource # ""
    /\ "namespaces" \notin {q.group, q.version}

\* Short sequences.
LEMMA Tuples ==
    ASSUME NEW S, NEW x \in S, NEW y \in S, NEW z \in S
    PROVE  /\ << >> \in Seq(S) /\ Len(<< >>) = 0
           /\ <<x>> \in Seq(S) /\ Len(<<x>>) = 1 /\ <<x>>[1] = x
           /\ <<x, y>> \in Seq(S) /\ Len(<<x, y>>) = 2 /\ <<x, y>>[1] = x /\ <<x, y>>[2] = y
           /\ <<x, y, z>> \in Seq(S) /\ Len(<<x, y, z>>) = 3
           /\ <<x, y, z>>[1] = x /\ <<x, y, z>>[2] = y /\ <<x, y, z>>[3] = z
OBVIOUS

\* The segments a path of q can have.
Words(q) == {"api", "apis", "namespaces", q.group, q.version, q.resource, q.ns,
             q.name, q.sub}

\* The parts of a path: group and version, namespace, an optional segment.
Root(q) == IF q.group = "" THEN <<"api", q.version>> ELSE <<"apis", q.group, q.version>>
Scope(q) == IF q.ns = "" THEN << >> ELSE <<"namespaces", q.ns>>
Opt(x) == IF x = "" THEN << >> ELSE <<x>>

\* What each part looks like.
LEMMA RootIs ==
    ASSUME NEW q
    PROVE  /\ Root(q) \in Seq(Words(q)) /\ Len(Root(q)) = Lead(q)
           /\ q.group = "" => Root(q)[1] = "api" /\ Root(q)[2] = q.version
           /\ q.group # "" => Root(q)[1] = "apis" /\ Root(q)[2] = q.group /\ Root(q)[3] = q.version
<1>1. /\ q.group \in Words(q) /\ q.version \in Words(q)
      /\ "api" \in Words(q) /\ "apis" \in Words(q)
  BY DEF Words
<1>2. CASE q.group = ""
  <2> DEFINE t == <<"api", q.version>>
  <2>1. Root(q) = t /\ Lead(q) = 2
    BY <1>2 DEF Root, Lead
  <2>2. t \in Seq(Words(q)) /\ Len(t) = 2 /\ t[1] = "api" /\ t[2] = q.version
    BY <1>1, Tuples, Zenon
  <2> QED BY <1>2, <2>1, <2>2, Zenon
<1>3. CASE q.group # ""
  <2> DEFINE t == <<"apis", q.group, q.version>>
  <2>1. Root(q) = t /\ Lead(q) = 3
    BY <1>3 DEF Root, Lead
  <2>2. /\ t \in Seq(Words(q)) /\ Len(t) = 3
        /\ t[1] = "apis" /\ t[2] = q.group /\ t[3] = q.version
    BY <1>1, Tuples, Zenon
  <2> QED BY <1>3, <2>1, <2>2, Zenon
<1> QED BY <1>2, <1>3

\* The scope is there only if there is a namespace.
LEMMA ScopeIs ==
    ASSUME NEW q
    PROVE  /\ Scope(q) \in Seq(Words(q))
           /\ q.ns = "" => Len(Scope(q)) = 0
           /\ q.ns # "" => Len(Scope(q)) = 2 /\ Scope(q)[1] = "namespaces" /\ Scope(q)[2] = q.ns
<1>1. q.ns \in Words(q) /\ "namespaces" \in Words(q)
  BY DEF Words
<1>2. CASE q.ns = ""
  <2>1. Scope(q) = << >>
    BY <1>2 DEF Scope
  <2> QED BY <1>1, <1>2, <2>1, Tuples, Zenon
<1>3. CASE q.ns # ""
  <2> DEFINE t == <<"namespaces", q.ns>>
  <2>1. Scope(q) = t
    BY <1>3 DEF Scope
  <2>2. t \in Seq(Words(q)) /\ Len(t) = 2 /\ t[1] = "namespaces" /\ t[2] = q.ns
    BY <1>1, Tuples, Zenon
  <2> QED BY <1>3, <2>1, <2>2, Zenon
<1> QED BY <1>2, <1>3

\* A name or subresource is there only if it is not empty.
LEMMA OptIs ==
    ASSUME NEW S, NEW x \in S
    PROVE  /\ Opt(x) \in Seq(S)
           /\ x = "" => Len(Opt(x)) = 0
           /\ x # "" => Len(Opt(x)) = 1 /\ Opt(x)[1] = x
<1>1. CASE x = ""
  <2>1. Opt(x) = << >>
    BY <1>1 DEF Opt
  <2> QED BY <1>1, <2>1, Tuples, Zenon
<1>2. CASE x # ""
  <2>1. Opt(x) = <<x>>
    BY <1>2 DEF Opt
  <2>2. <<x>> \in Seq(S) /\ Len(<<x>>) = 1 /\ <<x>>[1] = x
    BY Tuples, Zenon
  <2> QED BY <1>2, <2>1, <2>2, Zenon
<1> QED BY <1>1, <1>2

\* A client's path is its parts.
LEMMA PathIs ==
    ASSUME NEW q
    PROVE  ClientPath(q) = Root(q) \o Scope(q) \o <<q.resource>> \o Opt(q.name) \o Opt(q.sub)
BY DEF ClientPath, Root, Scope, Opt

\* Which segment is where.
LEMMA Segments ==
    ASSUME NEW q
    PROVE  LET path == ClientPath(q)
               h == Lead(q)
               i == Place(q)
           IN  /\ path \in Seq(Words(q)) /\ Len(path) = Size(q)
               /\ \A k \in 1..h : path[k] = Root(q)[k]
               /\ q.ns # "" => path[h + 1] = "namespaces" /\ path[h + 2] = q.ns
               /\ path[i] = q.resource
               /\ q.name # "" => path[i + 1] = q.name
               /\ q.name # "" /\ q.sub # "" => path[i + 2] = q.sub
<1> DEFINE W == Words(q)
           a == Root(q)
           b == Scope(q)
           d == Opt(q.name)
           e == Opt(q.sub)
           r == q.resource
           path == a \o b \o <<r>> \o d \o e
<1>0. r \in W /\ q.name \in W /\ q.sub \in W
  BY DEF Words
<1>1. a \in Seq(W) /\ b \in Seq(W) /\ r \in W /\ d \in Seq(W) /\ e \in Seq(W)
  BY <1>0, RootIs, ScopeIs, OptIs, Zenon
<1>2. /\ Len(a) = Lead(q) /\ (q.ns = "" => Len(b) = 0) /\ (q.ns # "" => Len(b) = 2)
      /\ (q.name = "" => Len(d) = 0) /\ (q.name # "" => Len(d) = 1)
      /\ (q.sub = "" => Len(e) = 0) /\ (q.sub # "" => Len(e) = 1)
  BY <1>0, RootIs, ScopeIs, OptIs, Zenon
<1>3. /\ q.ns # "" => b[1] = "namespaces" /\ b[2] = q.ns
      /\ q.name # "" => d[1] = q.name
      /\ q.sub # "" => e[1] = q.sub
  BY <1>0, ScopeIs, OptIs, Zenon
<1>4. ClientPath(q) = path
  BY PathIs
<1> HIDE DEF a, b, d, e, r, W
<1>5. /\ path \in Seq(W) /\ Len(path) = Len(a) + Len(b) + 1 + Len(d) + Len(e)
      /\ \A k \in 1..Len(a) : path[k] = a[k]
      /\ \A k \in 1..Len(b) : path[Len(a) + k] = b[k]
      /\ path[Len(a) + Len(b) + 1] = r
      /\ \A k \in 1..Len(d) : path[Len(a) + Len(b) + 1 + k] = d[k]
      /\ \A k \in 1..Len(e) : path[Len(a) + Len(b) + 1 + Len(d) + k] = e[k]
  <2>1. Pieces(W, path, a, b, r, d, e)
    BY <1>1, Parts
  <2> HIDE DEF path
  <2> QED BY <2>1 DEF Pieces
<1> HIDE DEF path
<1>6. /\ Lead(q) = Len(a) /\ Lead(q) \in {2, 3}
      /\ Place(q) = Len(a) + Len(b) + 1
      /\ Size(q) = Len(a) + Len(b) + 1 + Len(d) + Len(e)
      /\ Len(b) \in {0, 2} /\ Len(d) \in {0, 1} /\ Len(e) \in {0, 1}
  <2>1. Lead(q) = Len(a) /\ Lead(q) \in {2, 3}
    BY <1>2 DEF Lead
  <2>2. Len(b) \in {0, 2} /\ Place(q) = Lead(q) + Len(b) + 1
    <3>1. CASE q.ns = ""
      <4>1. Len(b) = 0 /\ Place(q) = Lead(q) + 1
        BY <1>2, <3>1 DEF Place
      <4> QED BY <2>1, <4>1
    <3>2. CASE q.ns # ""
      <4>1. Len(b) = 2 /\ Place(q) = Lead(q) + 3
        BY <1>2, <3>2 DEF Place
      <4> QED BY <2>1, <4>1
    <3> QED BY <3>1, <3>2
  <2>3. Len(d) \in {0, 1} /\ Len(d) = (IF q.name = "" THEN 0 ELSE 1)
    BY <1>2
  <2>4. Len(e) \in {0, 1} /\ Len(e) = (IF q.sub = "" THEN 0 ELSE 1)
    BY <1>2
  <2>5. Size(q) = Place(q) + Len(d) + Len(e)
    BY <2>3, <2>4 DEF Size
  <2> QED BY <2>1, <2>2, <2>3, <2>4, <2>5
<1>7. ASSUME q.ns # "" PROVE path[Lead(q) + 1] = b[1] /\ path[Lead(q) + 2] = b[2]
  <2>1. Len(b) = 2
    BY <1>2, <1>7
  <2> QED BY <1>5, <1>6, <2>1
<1>8. ASSUME q.name # "" PROVE path[Place(q) + 1] = d[1] /\ Len(d) = 1
  <2>1. Len(d) = 1
    BY <1>2, <1>8
  <2> QED BY <1>5, <1>6, <2>1
<1>9. ASSUME q.name # "", q.sub # "" PROVE path[Place(q) + 2] = e[1]
  <2>1. Len(d) = 1 /\ Len(e) = 1
    BY <1>2, <1>9
  <2> QED BY <1>5, <1>6, <2>1
<1>10. path \in Seq(W) /\ Len(path) = Size(q) /\ path[Place(q)] = r
       /\ \A k \in 1..Lead(q) : path[k] = a[k]
  BY <1>5, <1>6
<1>11. q.ns # "" => path[Lead(q) + 1] = "namespaces" /\ path[Lead(q) + 2] = q.ns
  BY <1>3, <1>6, <1>7
<1>12. q.name # "" => path[Place(q) + 1] = q.name
  BY <1>3, <1>8
<1>13. q.name # "" /\ q.sub # "" => path[Place(q) + 2] = q.sub
  BY <1>3, <1>9
<1> QED BY <1>4, <1>10, <1>11, <1>12, <1>13 DEF W, a, r

\* How long the parts of a path are.
Sized(q) ==
    /\ q.group = "" => Lead(q) = 2
    /\ q.group # "" => Lead(q) = 3
    /\ q.ns = "" => Place(q) = Lead(q) + 1
    /\ q.ns # "" => Place(q) = Lead(q) + 3
    /\ q.name = "" => Size(q) = Place(q)
    /\ q.name # "" /\ q.sub = "" => Size(q) = Place(q) + 1
    /\ q.name # "" /\ q.sub # "" => Size(q) = Place(q) + 2
    /\ q.name = "" => q.sub = ""
    /\ Lead(q) \in {2, 3}
    /\ Place(q) \in 3..6
    /\ Size(q) \in Place(q)..(Place(q) + 2)

\* The parts have these sizes.
LEMMA Sizes ==
    ASSUME NEW q, Understandable(q)
    PROVE  Sized(q)
<1>1. /\ q.group = "" => Lead(q) = 2
      /\ q.group # "" => Lead(q) = 3
      /\ Lead(q) \in {2, 3}
  BY DEF Lead
<1>2. /\ q.ns = "" => Place(q) = Lead(q) + 1
      /\ q.ns # "" => Place(q) = Lead(q) + 3
  BY DEF Place
<1>3. Place(q) \in 3..6
  <2>1. Lead(q) = 2 \/ Lead(q) = 3
    BY <1>1, Zenon
  <2>2. Place(q) = Lead(q) + 1 \/ Place(q) = Lead(q) + 3
    BY <1>2, Zenon
  <2> QED BY <2>1, <2>2
<1>7. q.name = "" => q.sub = ""
  BY DEF Understandable
<1>4. CASE q.name = ""
  <2>1. q.sub = ""
    BY <1>4 DEF Understandable
  <2>2. Size(q) = Place(q) + 0 + 0
    BY <1>4, <2>1 DEF Size
  <2>3. Size(q) = Place(q) /\ Size(q) \in Place(q)..(Place(q) + 2)
    BY <1>3, <2>2
  <2> QED BY <1>1, <1>2, <1>3, <1>4, <1>7, <2>3 DEF Sized
<1>5. CASE q.name # "" /\ q.sub = ""
  <2>2. Size(q) = Place(q) + 1 + 0
    BY <1>5 DEF Size
  <2>3. Size(q) = Place(q) + 1 /\ Size(q) \in Place(q)..(Place(q) + 2)
    BY <1>3, <2>2
  <2> QED BY <1>1, <1>2, <1>3, <1>5, <1>7, <2>3 DEF Sized
<1>6. CASE q.name # "" /\ q.sub # ""
  <2>2. Size(q) = Place(q) + 1 + 1
    BY <1>6 DEF Size
  <2>3. Size(q) = Place(q) + 2 /\ Size(q) \in Place(q)..(Place(q) + 2)
    BY <1>3, <2>2
  <2> QED BY <1>1, <1>2, <1>3, <1>6, <1>7, <2>3 DEF Sized
<1> QED BY <1>4, <1>5, <1>6

\* What the parts of a path are.
Spelled(q, path) ==
    /\ q.group = "" => path[1] = "api" /\ path[2] = q.version
    /\ q.group # "" => path[1] = "apis" /\ path[2] = q.group /\ path[3] = q.version
    /\ q.ns # "" => path[Lead(q) + 1] = "namespaces" /\ path[Lead(q) + 2] = q.ns
    /\ q.ns = "" => path[Lead(q) + 1] = q.resource
    /\ path[Place(q)] = q.resource
    /\ q.name # "" => path[Place(q) + 1] = q.name
    /\ q.name # "" /\ q.sub # "" => path[Place(q) + 2] = q.sub
    /\ Len(path) = Size(q)

\* A client's path is spelled like that.
LEMMA Spelling ==
    ASSUME NEW q, Understandable(q)
    PROVE  Spelled(q, ClientPath(q))
<1> DEFINE path == ClientPath(q)
<1>0. Sized(q)
  BY Sizes
<1>1. /\ \A k \in 1..Lead(q) : path[k] = Root(q)[k]
      /\ q.ns # "" => path[Lead(q) + 1] = "namespaces" /\ path[Lead(q) + 2] = q.ns
      /\ path[Place(q)] = q.resource
      /\ q.name # "" => path[Place(q) + 1] = q.name
      /\ q.name # "" /\ q.sub # "" => path[Place(q) + 2] = q.sub
      /\ Len(path) = Size(q)
  BY Segments, Zenon
<1> HIDE DEF path
<1>5. Lead(q) \in {2, 3} /\ (q.group # "" => Lead(q) = 3) /\ (q.ns = "" => Place(q) = Lead(q) + 1)
  BY <1>0 DEF Sized
<1>2. path[1] = Root(q)[1] /\ path[2] = Root(q)[2] /\ (Lead(q) = 3 => path[3] = Root(q)[3])
  <2>1. Lead(q) = 2 \/ Lead(q) = 3
    BY <1>5, Zenon
  <2>2. \A k \in 1..Lead(q) : path[k] = Root(q)[k]
    BY <1>1
  <2>3. 1 \in 1..Lead(q) /\ 2 \in 1..Lead(q) /\ (Lead(q) = 3 => 3 \in 1..Lead(q))
    BY <2>1
  <2> QED BY <2>2, <2>3, Zenon
<1>6. /\ q.group = "" => Root(q)[1] = "api" /\ Root(q)[2] = q.version
      /\ q.group # "" => Root(q)[1] = "apis" /\ Root(q)[2] = q.group /\ Root(q)[3] = q.version
  BY RootIs, Zenon
<1>3. /\ q.group = "" => path[1] = "api" /\ path[2] = q.version
      /\ q.group # "" => path[1] = "apis" /\ path[2] = q.group /\ path[3] = q.version
  BY <1>2, <1>5, <1>6, Zenon
<1>4. q.ns = "" => path[Lead(q) + 1] = q.resource
  BY <1>1, <1>5, Zenon
<1> QED BY <1>1, <1>3, <1>4, Zenon DEF path, Spelled

\* The parser finds the resource where the client put it.
LEMMA Found ==
    ASSUME NEW q, Understandable(q), ~ Misread(q), NEW path, Spelled(q, path)
    PROVE  findResourceTypeIndex(path) = Place(q)
<1> DEFINE n == Len(path)
<1>0. Sized(q)
  BY Sizes
<1>1. n = Size(q) /\ Size(q) \in Place(q)..(Place(q) + 2) /\ Place(q) \in 3..6
  BY <1>0 DEF Sized, Spelled
<1>4. ASSUME q.ns = "", path[Place(q)] = "namespaces" PROVE n <= Place(q) + 1
  <2>1. q.resource = "namespaces"
    BY <1>4 DEF Spelled
  <2>2. q.sub = ""
    BY <1>4, <2>1 DEF Misread
  <2>3. Size(q) = Place(q) \/ Size(q) = Place(q) + 1
    BY <1>0, <2>2 DEF Sized
  <2> QED BY <1>1, <2>3
<1> HIDE DEF n
<1>2. CASE q.group = ""
  <2>1. path[1] = "api" /\ Lead(q) = 2
    BY <1>0, <1>2 DEF Sized, Spelled
  <2>2. n >= 3
    BY <1>1
  <2>3. CASE q.ns = ""
    <3>3. Place(q) = 2 + 1
      BY <1>0, <2>1, <2>3, Zenon DEF Sized
    <3>1. Place(q) = 3
      BY <3>3
    <3>4. ASSUME path[3] = "namespaces" PROVE n <= 3 + 1
      BY <1>4, <2>3, <3>1, <3>4, Zenon
    <3>5. n \in 3..(3 + 2)
      BY <1>1, <3>1
    <3>2. ~ (path[3] = "namespaces" /\ n > 4)
      BY <3>4, <3>5
    <3> QED BY <2>1, <2>2, <3>1, <3>2 DEF findResourceTypeIndex, n
  <2>4. CASE q.ns # ""
    <3>1. path[2 + 1] = "namespaces" /\ Place(q) = 2 + 3
      BY <1>0, <2>1, <2>4 DEF Sized, Spelled
    <3>2. n > 4 /\ path[3] = "namespaces" /\ Place(q) = 5
      BY <1>1, <3>1
    <3> QED BY <2>1, <2>2, <3>2 DEF findResourceTypeIndex, n
  <2> QED BY <2>3, <2>4
<1>3. CASE q.group # ""
  <2>1. path[1] = "apis" /\ Lead(q) = 3
    BY <1>0, <1>3 DEF Sized, Spelled
  <2>3. CASE q.ns = ""
    <3>3. Place(q) = 3 + 1
      BY <1>0, <2>1, <2>3, Zenon DEF Sized
    <3>1. Place(q) = 4
      BY <3>3
    <3>4. ASSUME path[4] = "namespaces" PROVE n <= 4 + 1
      BY <1>4, <2>3, <3>1, <3>4, Zenon
    <3>5. n \in 4..(4 + 2)
      BY <1>1, <3>1
    <3>2. n >= 4 /\ ~ (path[4] = "namespaces" /\ n > 5)
      BY <3>4, <3>5
    <3> QED BY <2>1, <3>1, <3>2 DEF findResourceTypeIndex, n
  <2>4. CASE q.ns # ""
    <3>1. path[3 + 1] = "namespaces" /\ Place(q) = 3 + 3
      BY <1>0, <2>1, <2>4 DEF Sized, Spelled
    <3>2. n >= 4 /\ n > 5 /\ path[4] = "namespaces" /\ Place(q) = 6
      BY <1>1, <3>1
    <3> QED BY <2>1, <3>2 DEF findResourceTypeIndex, n
  <2> QED BY <2>3, <2>4
<1> QED BY <1>2, <1>3

\* A subresource of a namespace is found in the place of a resource in it.
LEMMA FoundMisread ==
    ASSUME NEW q, Understandable(q), Misread(q), NEW path, Spelled(q, path)
    PROVE  findResourceTypeIndex(path) = Place(q) + 2
<1> DEFINE n == Len(path)
<1>0. Sized(q)
  BY Sizes
<1>1. q.ns = "" /\ q.sub # "" /\ q.name # "" /\ q.resource = "namespaces"
  BY DEF Misread, Understandable
<1>2. n = Place(q) + 2 /\ path[Place(q)] = "namespaces" /\ Place(q) = Lead(q) + 1
  BY <1>0, <1>1, Zenon DEF Sized, Spelled
<1> HIDE DEF n
<1>3. CASE q.group = ""
  <2>1. path[1] = "api" /\ Lead(q) = 2
    BY <1>0, <1>3, Zenon DEF Sized, Spelled
  <2>2. Place(q) = 3 /\ n = 5 /\ Place(q) + 2 = 5
    BY <1>2, <2>1
  <2>3. n >= 3 /\ n > 4 /\ path[3] = "namespaces"
    BY <1>2, <2>2
  <2> QED BY <2>1, <2>2, <2>3 DEF findResourceTypeIndex, n
<1>4. CASE q.group # ""
  <2>1. path[1] = "apis" /\ Lead(q) = 3
    BY <1>0, <1>4, Zenon DEF Sized, Spelled
  <2>2. Place(q) = 4 /\ n = 6 /\ Place(q) + 2 = 6
    BY <1>2, <2>1
  <2>3. n >= 4 /\ n > 5 /\ path[4] = "namespaces"
    BY <1>2, <2>2
  <2> QED BY <2>1, <2>2, <2>3 DEF findResourceTypeIndex, n
<1> QED BY <1>3, <1>4

\* Group and version are read off the root, the resource where the index says.
LEMMA ReadGVR ==
    ASSUME NEW q, NEW path, Spelled(q, path), NEW i, findResourceTypeIndex(path) = i, i # 0
    PROVE  parseURLToGVR(path) = [group |-> q.group, version |-> q.version,
                                  resource |-> path[i]]
<1>1. CASE q.group = ""
  <2>1. path[1] = "api" /\ path[2] = q.version
    BY <1>1, Zenon DEF Spelled
  <2> QED BY <1>1, <2>1 DEF parseURLToGVR
<1>2. CASE q.group # ""
  <2>1. path[1] = "apis" /\ path[2] = q.group /\ path[3] = q.version
    BY <1>2, Zenon DEF Spelled
  <2>2. path[1] # "api"
    BY <2>1
  <2> QED BY <2>1, <2>2 DEF parseURLToGVR
<1> QED BY <1>1, <1>2

\* Name and subresource are the two segments after the resource.
LEMMA ReadName ==
    ASSUME NEW q, Understandable(q), ~ Misread(q), NEW path, Spelled(q, path)
    PROVE  parseName(path) = q.name /\ parseSubresource(path) = q.sub
<1>0. Sized(q) /\ findResourceTypeIndex(path) = Place(q)
  BY Sizes, Found
<1> DEFINE i == Place(q)
           n == Len(path)
<1>1. n = Size(q) /\ i \in 3..6
  BY <1>0, Zenon DEF Sized, Spelled
<1>2. CASE q.name = ""
  <2>1. q.sub = ""
    BY <1>0, <1>2, Zenon DEF Sized
  <2>3. n = i
    BY <1>0, <1>1, <1>2, Zenon DEF Sized
  <2>2. ~ i + 1 <= n /\ ~ i + 2 <= n
    BY <1>1, <2>3
  <2> QED BY <1>0, <1>2, <2>1, <2>2, Zenon DEF parseName, parseSubresource, SegmentAfterType
<1>3. CASE q.name # "" /\ q.sub = ""
  <2>1. n = i + 1
    BY <1>0, <1>1, <1>3, Zenon DEF Sized
  <2>2. i > 0 /\ i + 1 <= n /\ ~ i + 2 <= n
    BY <1>1, <2>1
  <2>3. path[i + 1] = q.name
    BY <1>3, Zenon DEF Spelled
  <2> QED BY <1>0, <1>3, <2>2, <2>3, Zenon DEF parseName, parseSubresource, SegmentAfterType
<1>4. CASE q.name # "" /\ q.sub # ""
  <2>1. n = i + 2
    BY <1>0, <1>1, <1>4, Zenon DEF Sized
  <2>2. i > 0 /\ i + 1 <= n /\ i + 2 <= n
    BY <1>1, <2>1
  <2>3. path[i + 1] = q.name /\ path[i + 2] = q.sub
    BY <1>4, Zenon DEF Spelled
  <2> QED BY <1>0, <2>2, <2>3, Zenon DEF parseName, parseSubresource, SegmentAfterType
<1> QED BY <1>2, <1>3, <1>4

\* The request is for a resource in a namespace.
Namespaced(q) == q.ns # ""

\* Nothing before the scope is called "namespaces", so the segment after the
\* first one of that name is the namespace.
LEMMA ReadNamespace ==
    ASSUME NEW q, Understandable(q), Namespaced(q), NEW path, Spelled(q, path)
    PROVE  parseNamespace(path) = q.ns
<1> DEFINE h == Lead(q)
           n == Len(path)
           at == {i \in 1..(n - 1) : path[i] = "namespaces"}
<1>0. Sized(q)
  BY Sizes
<1>1. /\ h = 2 \/ h = 3
      /\ n \in Place(q)..(Place(q) + 2) /\ Place(q) = h + 3
      /\ path[h + 1] = "namespaces" /\ path[h + 2] = q.ns
  BY <1>0, Zenon DEF Sized, Spelled, Namespaced
<1>2. path[1] # "namespaces" /\ path[2] # "namespaces" /\ (h = 3 => path[3] # "namespaces")
  <2>1. CASE q.group = ""
    <3>1. path[1] = "api" /\ path[2] = q.version /\ h = 2
      BY <1>0, <2>1, Zenon DEF Sized, Spelled
    <3>2. q.version # "namespaces"
      BY DEF Understandable
    <3>3. "api" # "namespaces" /\ 2 # 3
      OBVIOUS
    <3> QED BY <3>1, <3>2, <3>3, Zenon
  <2>2. CASE q.group # ""
    <3>1. path[1] = "apis" /\ path[2] = q.group /\ path[3] = q.version
      BY <2>2, Zenon DEF Spelled
    <3>2. q.version # "namespaces" /\ q.group # "namespaces"
      BY DEF Understandable
    <3>3. "apis" # "namespaces"
      OBVIOUS
    <3> QED BY <3>1, <3>2, <3>3, Zenon
  <2> QED BY <2>1, <2>2
<1> DEFINE NS(i) == path[i] = "namespaces"
<1> HIDE DEF h, n
<1>3. NS(h + 1) /\ ~ NS(1) /\ ~ NS(2) /\ (h = 3 => ~ NS(3))
  BY <1>1, <1>2, Zenon
<1>4. n - 1 >= h + 1 /\ h \in Nat /\ n \in Nat
  <2>1. /\ h = 2 \/ h = 3
        /\ n \in Place(q)..(Place(q) + 2) /\ Place(q) = h + 3
    BY <1>1, Zenon
  <2> QED BY <2>1
<1>5. at = {i \in 1..(n - 1) : NS(i)}
  OBVIOUS
<1> HIDE DEF NS, at
<1>6. \A j \in at : h + 1 <= j
  <2> SUFFICES ASSUME NEW j \in at PROVE h + 1 <= j
    OBVIOUS
  <2>1. j \in 1..(n - 1) /\ NS(j)
    BY <1>5
  <2>2. h = 2 \/ h = 3
    BY <1>1
  <2>3. j # 1 /\ j # 2 /\ (h = 3 => j # 3)
    BY <1>3, <2>1, Zenon
  <2> QED BY <1>4, <2>1, <2>2, <2>3
<1>7. h + 1 \in at
  BY <1>3, <1>4, <1>5
<1>8. \A j \in at : j \in Nat
  BY <1>4, <1>5
<1>9. (CHOOSE i \in at : \A j \in at : i <= j) = h + 1
  <2> DEFINE first == CHOOSE i \in at : \A j \in at : i <= j
  <2>1. first \in at /\ \A j \in at : first <= j
    BY <1>6, <1>7, Zenon
  <2> HIDE DEF first
  <2>2. first <= h + 1 /\ h + 1 <= first /\ first \in Nat
    BY <1>6, <1>7, <1>8, <2>1
  <2>3. first = h + 1
    BY <1>4, <2>2
  <2> QED BY <2>3 DEF first
<1>10. at # {} /\ h + 1 + 1 = h + 2
  BY <1>4, <1>7
<1> QED BY <1>1, <1>9, <1>10, Zenon DEF parseNamespace, at, n

\* Only lists and collection deletions depend on the path.
LEMMA Verbs ==
    ASSUME NEW path, NEW method \in {"GET", "POST", "PUT", "PATCH", "DELETE"}
    PROVE  /\ isCollectionPath(path) =>
                 ((httpMethodToVerb(method, path) \in {"list", "deletecollection"}) <=>
                     (method \in {"GET", "DELETE"}))
           /\ ~ isCollectionPath(path) =>
                 httpMethodToVerb(method, path) \notin {"list", "deletecollection"}
BY DEF httpMethodToVerb

\* A request is one for a collection exactly if it names no object.
LEMMA ReadVerb ==
    ASSUME NEW q, Understandable(q), ~ Misread(q), NEW path, Spelled(q, path),
           NEW method \in {"GET", "POST", "PUT", "PATCH", "DELETE"}
    PROVE  (httpMethodToVerb(method, path) \in {"list", "deletecollection"}) <=>
              (q.name = "" /\ method \in {"GET", "DELETE"})
<1>0. Sized(q) /\ findResourceTypeIndex(path) = Place(q)
  BY Sizes, Found
<1>1. isCollectionPath(path) <=> q.name = ""
  <2>1. Len(path) = Size(q) /\ Place(q) \in 3..6
    BY <1>0, Zenon DEF Sized, Spelled
  <2>2. CASE q.name = ""
    <3>1. Size(q) = Place(q)
      BY <1>0, <2>2, Zenon DEF Sized
    <3>2. Place(q) > 0
      BY <2>1
    <3> QED BY <1>0, <2>1, <2>2, <3>1, <3>2, Zenon DEF isCollectionPath
  <2>3. CASE q.name # ""
    <3>1. Size(q) = Place(q) + 1 \/ Size(q) = Place(q) + 2
      BY <1>0, <2>3, Zenon DEF Sized
    <3>2. Place(q) # Size(q)
      BY <2>1, <3>1
    <3> QED BY <1>0, <2>1, <2>3, <3>2, Zenon DEF isCollectionPath
  <2> QED BY <2>2, <2>3
<1>2. /\ isCollectionPath(path) =>
            ((httpMethodToVerb(method, path) \in {"list", "deletecollection"}) <=>
                (method \in {"GET", "DELETE"}))
      /\ ~ isCollectionPath(path) =>
            httpMethodToVerb(method, path) \notin {"list", "deletecollection"}
  BY Verbs
<1> QED BY <1>1, <1>2, Zenon

\* All of the path is read as it was meant.
LEMMA Understood ==
    ASSUME NEW q, Understandable(q), ~ Misread(q), NEW path, Spelled(q, path)
    PROVE  /\ parseURLToGVR(path) = [group |-> q.group, version |-> q.version,
                                     resource |-> q.resource]
           /\ parseName(path) = q.name
           /\ parseSubresource(path) = q.sub
<1>1. findResourceTypeIndex(path) = Place(q)
  BY Found
<1>2. Place(q) \in 3..6
  BY Sizes DEF Sized
<1>3. Place(q) # 0
  BY <1>2
<1>4. path[Place(q)] = q.resource
  BY DEF Spelled
<1>5. parseURLToGVR(path) = [group |-> q.group, version |-> q.version,
                             resource |-> path[Place(q)]]
  BY <1>1, <1>3, ReadGVR
<1> QED BY <1>4, <1>5, ReadName

\* A subresource of a namespace is read as a resource in it.
LEMMA Misunderstood ==
    ASSUME NEW q, Understandable(q), Misread(q), NEW path, Spelled(q, path)
    PROVE  /\ parseURLToGVR(path) = [group |-> q.group, version |-> q.version,
                                     resource |-> q.sub]
           /\ q.sub # ""
<1>1. findResourceTypeIndex(path) = Place(q) + 2
  BY FoundMisread
<1>2. Place(q) \in 3..6
  BY Sizes DEF Sized
<1>3. Place(q) + 2 # 0
  BY <1>2
<1>4. q.sub # "" /\ q.name # ""
  BY DEF Misread, Understandable
<1>5. path[Place(q) + 2] = q.sub
  BY <1>4 DEF Spelled
<1>6. parseURLToGVR(path) = [group |-> q.group, version |-> q.version,
                             resource |-> path[Place(q) + 2]]
  BY <1>1, <1>3, ReadGVR
<1> QED BY <1>4, <1>5, <1>6

-----------------------------------------------------------------------------
(* Deciding on a request.                                                  *)

\* A request about a resource is refused if its kind is not found or not allowed.
LEMMA Refusal ==
    ASSUME NEW denied, NEW prefix, NEW path, NEW gvr, NEW gvk,
           parseURLToGVR(stripAPIPathPrefix(path, prefix)) = gvr, gvr # NoGVR,
           getGVK(gvr, parseSubresource(stripAPIPathPrefix(path, prefix))) = gvk
    PROVE  RoundTrip(denied, prefix, path) = "refuse"
              <=> (~ gvk.found \/ ~ isAllowed(denied, gvk))
BY DEF RoundTrip

\* The served kinds of a resource, whether the raw discovery knows it, and
\* whether an entry of denied_resources forbids it.
Served(g, v, r) == {k \in Kinds : k.group = g /\ k.version = v /\ k.resource = r}
Raw(g, v, r, sub) ==
    \E x \in RawOnly : /\ x.group = g /\ x.version = v /\ x.resource = r
                       /\ sub \in {"", x.sub}
Forbids(denied, g, v, kinds) ==
    \E d \in denied : d.group = g /\ d.version = v /\ d.kind \in kinds \cup {""}

\* The kind found and allowed, said of the request instead of the kind.
LEMMA Decided ==
    ASSUME NEW denied, NEW g, NEW v, NEW r, NEW sub
    PROVE  LET gvk == getGVK([group |-> g, version |-> v, resource |-> r], sub)
               kinds == {k.kind : k \in Served(g, v, r)}
               unknown == kinds = {} /\ ~ Raw(g, v, r, sub)
           IN  (~ gvk.found \/ ~ isAllowed(denied, gvk))
                  <=> (unknown \/ Forbids(denied, g, v, kinds))
<1> DEFINE gvr == [group |-> g, version |-> v, resource |-> r]
           gvk == getGVK(gvr, sub)
           kinds == {k.kind : k \in Served(g, v, r)}
           one == CHOOSE k \in Served(g, v, r) : TRUE
<1>1. gvr.group = g /\ gvr.version = v /\ gvr.resource = r
  OBVIOUS
<1> HIDE DEF gvr
<1>2. served(gvr) = Served(g, v, r)
  BY <1>1 DEF served, Served
<1>3. resourceExistsInDiscovery(gvr, sub) <=> Raw(g, v, r, sub)
  BY <1>1 DEF resourceExistsInDiscovery, Raw
<1>4. CASE Served(g, v, r) # {}
  <2>1. gvk = [group |-> g, version |-> v, kind |-> one.kind, found |-> TRUE]
    <3>1. KindFor(Served(g, v, r)) = one.kind
      BY DEF KindFor
    <3> HIDE DEF one
    <3> QED BY <1>1, <1>2, <1>4, <3>1 DEF getGVK
  <2>2. one \in Served(g, v, r)
    BY <1>4
  <2> HIDE DEF one, gvk
  <2>3. kinds = {one.kind}
    BY <2>2, KindAssumption DEF Served
  <2> HIDE DEF kinds
  <2>4. gvk.found /\ gvk.group = g /\ gvk.version = v /\ gvk.kind = one.kind
    BY <2>1
  <2>5. ~ isAllowed(denied, gvk) <=> Forbids(denied, g, v, kinds)
    BY <2>3, <2>4 DEF isAllowed, Forbids
  <2>6. kinds # {}
    BY <2>3
  <2> QED BY <2>4, <2>5, <2>6 DEF kinds, gvk, gvr
<1>5. CASE Served(g, v, r) = {} /\ Raw(g, v, r, sub)
  <2>1. gvk = [group |-> g, version |-> v, kind |-> "", found |-> TRUE]
    BY <1>1, <1>2, <1>3, <1>5 DEF getGVK
  <2>2. kinds = {}
    BY <1>5
  <2> HIDE DEF gvk, kinds
  <2>3. gvk.found /\ gvk.group = g /\ gvk.version = v /\ gvk.kind = ""
    BY <2>1
  <2>4. ~ isAllowed(denied, gvk) <=> Forbids(denied, g, v, kinds)
    BY <2>2, <2>3 DEF isAllowed, Forbids
  <2> QED BY <1>5, <2>3, <2>4 DEF kinds, gvk, gvr
<1>6. CASE Served(g, v, r) = {} /\ ~ Raw(g, v, r, sub)
  <2>1. gvk = NoKind
    BY <1>1, <1>2, <1>3, <1>6 DEF getGVK
  <2>2. kinds = {}
    BY <1>6
  <2> HIDE DEF gvk, kinds
  <2>3. ~ gvk.found
    BY <2>1 DEF NoKind
  <2> QED BY <1>6, <2>2, <2>3 DEF kinds, gvk, gvr
<1> QED BY <1>4, <1>5, <1>6

-----------------------------------------------------------------------------
(* The specification.                                                      *)

\* The inputs are from the tables, and the ring of a search under way holds
\* the last matches.
IInv == /\ c \in Configs /\ p \in Providers
        /\ request = None \/ request \in Requests
        /\ search = None \/ Searched(search)

\* IInv is an invariant.
LEMMA Inductive == Spec => []IInv
<1>1. Init => IInv
  BY SurfaceAssumption DEF Init, IInv
<1>2. IInv /\ [Next]_vars => IInv'
  <2> SUFFICES ASSUME IInv, [Next]_vars PROVE IInv'
    OBVIOUS
  <2>1. CASE Reconfigure
    BY <2>1 DEF Reconfigure, IInv
  <2>2. CASE ProviderChanges
    BY <2>2 DEF ProviderChanges, IInv
  <2>3. CASE Ask
    BY <2>3 DEF Ask, IInv
  <2>4. CASE Grep
    <3>1. PICK tail \in Tails : search' = StartSearch(tail)
      BY <2>4 DEF Grep
    <3>2. Searched(StartSearch(tail))
      BY TailAssumption, Starts
    <3> QED BY <2>4, <3>1, <3>2 DEF Grep, IInv
  <2>5. CASE GrepLine
    <3>1. PICK match \in BOOLEAN : search' = ReadLine(search, match)
      BY <2>5 DEF GrepLine
    <3>2. Searched(search)
      BY <2>5 DEF GrepLine, IInv
    <3>3. Searched(ReadLine(search, match))
      BY <3>2, Reads
    <3> QED BY <2>5, <3>1, <3>3 DEF GrepLine, IInv
  <2>6. CASE UNCHANGED vars
    BY <2>6 DEF vars, IInv
  <2> QED BY <2>1, <2>2, <2>3, <2>4, <2>5, <2>6 DEF Next
<1> QED BY <1>1, <1>2, PTL DEF Spec

\* No configuration exposes two tools under one name.
THEOREM DistinctToolNamesTheorem == Spec => []DistinctToolNames
<1>1. IInv => DistinctToolNames
  BY NamesApart DEF IInv, DistinctToolNames, Exposed
<1> QED BY <1>1, Inductive, PTL

\* There is at most one target list tool, and the provider's own if nothing
\* hides it.
THEOREM OneTargetListTheorem == Spec => []OneTargetList
<1>1. IInv => OneTargetList
  <2> SUFFICES ASSUME IInv PROVE OneTargetList
    OBVIOUS
  <2> DEFINE E == CollectApplicableTools(c, p)
             lists == {i \in DOMAIN E : E[i].targetListProvider}
             mine == IF p.parameter = ContextParameter THEN "configuration_contexts_list"
                     ELSE MutatedTargetsListName(p.parameter)
  <2>1. c \in Configs /\ p \in Providers
    BY DEF IInv
  <2>2. ASSUME NEW i \in lists, NEW j \in lists PROVE E[i] = E[j]
    <3> DEFINE tools == Offered(c, "tools")
    <3>1. i \in DOMAIN tools /\ j \in DOMAIN tools /\ tools[i].name = tools[j].name
      BY <2>1, OneList
    <3>2. tools[i] = tools[j]
      BY <2>1, <3>1, ToolAssumption
    <3> QED BY <3>2, ExposedAt
  <2>3. lists # {} => p.multi
    BY <2>1, OneList
  <2>4. ASSUME p.multi, ListTools \subseteq ItemNames(Offered(c, "tools")),
               c.EnabledTools = NoList, c.DisabledTools = NoList
        PROVE  \E i \in lists : E[i].name = mine
    BY <2>1, <2>4, ListExposed
  <2> QED BY <2>2, <2>3, <2>4 DEF OneTargetList, Exposed
<1> QED BY <1>1, Inductive, PTL

\* A tighter configuration exposes a subset of the tools.
THEOREM TighteningTheorem == Spec => TighteningOnlyRemoves
<1>1. [Next]_vars => [Tighter(c, c') /\ UNCHANGED p =>
                        \A k \in {c'} : ToolsOf(k) \subseteq ToolsOf(c)]_vars
  <2> SUFFICES ASSUME Tighter(c, c') PROVE ToolsOf(c') \subseteq ToolsOf(c)
    OBVIOUS
  <2> SUFFICES ASSUME NEW i \in DOMAIN CollectApplicableTools(c', p)
               PROVE  CollectApplicableTools(c', p)[i] \in ToolsOf(c)
    BY DEF ToolsOf
  <2> QED BY Tightened DEF ToolsOf
<1> QED BY <1>1, PTL DEF Spec, TighteningOnlyRemoves

\* The access control reads a request's path as the client wrote it.
THEOREM PathsTheorem == Spec => []PathsAreUnderstood
<1>1. IInv => PathsAreUnderstood
  <2> SUFFICES ASSUME IInv, request # None, ~ Misread(request.q)
               PROVE  PathsAreUnderstood
    BY DEF PathsAreUnderstood
  <2> DEFINE q == request.q
             path == ClientPath(q)
             parts == stripAPIPathPrefix(request.prefix \o path, request.prefix)
  <2>1. request \in Requests
    BY DEF IInv
  <2>2. /\ request.prefix \in Seq(STRING) /\ Understandable(q)
        /\ request.method \in {"GET", "POST", "PUT", "PATCH", "DELETE"}
    BY <2>1, RequestAssumption DEF Understandable
  <2>3. path \in Seq(Words(q)) /\ Spelled(q, path)
    BY <2>2, Segments, Spelling
  <2>4. parts = path
    BY <2>2, <2>3, PrefixStripped
  <2> HIDE DEF q, path, parts
  <2>5. ~ Misread(q)
    BY DEF q
  <2>7. parseURLToGVR(path) = [group |-> q.group, version |-> q.version,
                               resource |-> q.resource]
        /\ parseName(path) = q.name /\ parseSubresource(path) = q.sub
    BY <2>2, <2>3, <2>5, Understood
  <2>9. q.ns # "" => parseNamespace(path) = q.ns
    BY <2>2, <2>3, ReadNamespace DEF Namespaced
  <2>10. (httpMethodToVerb(request.method, path) \in {"list", "deletecollection"}) <=>
            (q.name = "" /\ request.method \in {"GET", "DELETE"})
    BY <2>2, <2>3, <2>5, ReadVerb
  <2>11. PathsAreUnderstood <=>
          (request # None /\ ~ Misread(request.q) =>
            /\ parseURLToGVR(parts) = [group |-> q.group, version |-> q.version,
                                       resource |-> q.resource]
            /\ parseName(parts) = q.name
            /\ parseSubresource(parts) = q.sub
            /\ q.ns # "" => parseNamespace(parts) = q.ns
            /\ (httpMethodToVerb(request.method, parts) \in {"list", "deletecollection"}) <=>
                  (q.name = "" /\ request.method \in {"GET", "DELETE"}))
    BY DEF PathsAreUnderstood, q, path, parts
  <2> QED BY <2>4, <2>7, <2>9, <2>10, <2>11, Zenon
<1> QED BY <1>1, Inductive, PTL

\* A request is refused if what it is for is denied or unknown, and, the
\* subresources of namespaces apart, only then.
THEOREM DeniedPathsTheorem == Spec => []DeniedPathsRefused
<1>1. IInv => DeniedPathsRefused
  <2> SUFFICES ASSUME IInv, request # None PROVE DeniedPathsRefused
    BY DEF DeniedPathsRefused
  <2> DEFINE q == request.q
             path == ClientPath(q)
             whole == request.prefix \o path
             parts == stripAPIPathPrefix(whole, request.prefix)
             kinds == {k.kind : k \in Served(q.group, q.version, q.resource)}
             denied == Forbids(request.denied, q.group, q.version, kinds)
             unknown == kinds = {} /\ ~ Raw(q.group, q.version, q.resource, q.sub)
             refused == RoundTrip(request.denied, request.prefix, whole) = "refuse"
  <2>1. request \in Requests
    BY DEF IInv
  <2>2. request.prefix \in Seq(STRING) /\ Understandable(q)
    BY <2>1, RequestAssumption DEF Understandable
  <2>3. path \in Seq(Words(q)) /\ Spelled(q, path)
    BY <2>2, Segments, Spelling
  <2>4. parts = path
    BY <2>2, <2>3, PrefixStripped
  <2>5. /\ denied \/ unknown => refused
        /\ refused => denied \/ unknown \/ Misread(q)
    <3> HIDE DEF q, path, whole, parts
    <3> DEFINE GVR(r) == [group |-> q.group, version |-> q.version, resource |-> r]
    <3>1. CASE ~ Misread(q)
      <4>1. parseURLToGVR(path) = GVR(q.resource) /\ parseSubresource(path) = q.sub
        BY <2>2, <2>3, <3>1, Understood
      <4>2. GVR(q.resource) # NoGVR
        BY <2>2 DEF Understandable, NoGVR
      <4> HIDE DEF GVR
      <4>3. refused <=> LET gvk == getGVK(GVR(q.resource), q.sub)
                        IN  ~ gvk.found \/ ~ isAllowed(request.denied, gvk)
        BY <2>4, <4>1, <4>2, Refusal DEF parts
      <4>4. refused <=> unknown \/ denied
        BY <4>3, Decided DEF GVR
      <4> QED BY <4>4
    <3>2. CASE Misread(q)
      <4>1. parseURLToGVR(path) = GVR(q.sub) /\ q.sub # ""
        BY <2>2, <2>3, <3>2, Misunderstood
      <4>2. GVR(q.sub) # NoGVR
        BY <4>1 DEF NoGVR
      <4>3. Served(q.group, q.version, q.sub) = {}
        BY <2>1, <3>2, RequestAssumption DEF Served, q
      <4>4. ~ Raw(q.group, q.version, q.sub, parseSubresource(path))
        BY <2>1, <3>2, RequestAssumption DEF Raw, q
      <4> HIDE DEF GVR
      <4>5. refused <=> LET gvk == getGVK(GVR(q.sub), parseSubresource(path))
                        IN  ~ gvk.found \/ ~ isAllowed(request.denied, gvk)
        BY <2>4, <4>1, <4>2, Refusal DEF parts
      <4>6. refused
        BY <4>3, <4>4, <4>5, Decided DEF GVR
      <4> QED BY <3>2, <4>6
    <3> QED BY <3>1, <3>2
  <2> HIDE DEF refused
  <2> QED BY <2>5 DEF DeniedPathsRefused, refused, denied, unknown, Forbids, Raw, Served
<1> QED BY <1>1, Inductive, PTL

\* A search answers the last matches, whatever the tail and the log.
THEOREM GrepTheorem == Spec => []GrepKeepsLastMatches
<1>1. IInv => GrepKeepsLastMatches
  <2> SUFFICES ASSUME IInv, search # None PROVE GrepKeepsLastMatches
    BY DEF GrepKeepsLastMatches
  <2>1. search \in Search /\ RingHolds(search.ring, search.tail, search.matched)
    BY DEF IInv, Searched
  <2>2. search.ring \in Ring /\ search.tail \in Int /\ search.matched \in Seq(Line)
    BY <2>1 DEF Search
  <2>3. search.ring.total = Len(search.matched)
    BY <2>1 DEF RingHolds, Turned
  <2> QED BY <2>1, <2>2, <2>3, OrderedIsTail DEF GrepKeepsLastMatches, mustgatherPodLogsGrep
<1> QED BY <1>1, Inductive, PTL
=============================================================================
