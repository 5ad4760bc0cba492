-------------------------- MODULE RateLimitProofs --------------------------
(***************************************************************************)
(* For any number of sessions, requests and settings: when reaping can be   *)
(* noticed, and that a reload refills the buckets a bounded number of times.*)
(***************************************************************************)
EXTENDS RateLimit, FiniteSetTheorems, TLAPS

\* What a request past the first step has read, and what it holds.
RequestsKnow ==
    \A r \in Requests :
        /\ req[r].pc \in {"read", "holding"} =>
              req[r].session \in Sessions /\ req[r].read \in Settings
        /\ req[r].pc = "holding" => req[r].entry \in Entries

\* An entry belongs to one session, in the map and in the hands of requests.
EntriesAreApart ==
    /\ \A s, t \in Sessions :
          limiters[s] # None /\ limiters[s] = limiters[t] => s = t
    /\ \A r \in Requests, s \in Sessions :
          (req[r].pc = "holding" /\ limiters[s] = req[r].entry) =>
              s = req[r].session

\* A session's bucket is at least as full as the ideal one, and equal to it
\* unless the session is in early; a missing one would be full; and a bucket
\* has at least as many tokens as refill periods went by since its last use.
Even(s) ==
    /\ ideal[s] <= Burst[current]
    /\ limiters[s] = None => ideal[s] = Burst[current] \/ s \in early
    /\ limiters[s] # None =>
          /\ ideal[s] <= tokens[limiters[s]]
          /\ tokens[limiters[s]] <= Burst[current]
          /\ ideal[s] = tokens[limiters[s]] \/ s \in early
          /\ \/ tokens[limiters[s]] = Burst[current]
             \/ tokens[limiters[s]] >= age[limiters[s]]
             \/ limiters[s] \in late

BucketsAreIdeal ==
    /\ current = Off => \A s \in Sessions : limiters[s] = None
    /\ current # Off => \A s \in Sessions : Even(s)

\* Each outdated request costs at most two more resets, and settings not yet
\* recorded one.
ResetsToCome ==
    resets + 2 * Cardinality(Outdated(config))
           + (IF current = config THEN 0 ELSE 1) <= 2 * stale + 1

IInv ==
    TypeOK /\ RequestsKnow /\ EntriesAreApart /\ BucketsAreIdeal /\ ResetsToCome

-----------------------------------------------------------------------------
\* IInv holds at the start.
LEMMA InitInv == Init => IInv
  <1> SUFFICES ASSUME Init PROVE IInv
    OBVIOUS
  <1> USE LimitAssumption
  <1>1. TypeOK
    <2>1. req \in [Requests -> [pc : {"idle", "read", "holding", "served",
                                     "rejected"},
                               session : Sessions \cup {NoSession},
                               read : Settings \cup {Off},
                               entry : Entries \cup {None}]]
      BY DEF Init, NoRequest
    <2>2. reaping \in BOOLEAN
      BY Zenon DEF Init
    <2> QED BY <2>1, <2>2 DEF Init, TypeOK
  <1>2. RequestsKnow
    BY DEF Init, RequestsKnow, NoRequest
  <1>3. EntriesAreApart
    BY DEF Init, EntriesAreApart, NoRequest
  <1>4. BucketsAreIdeal
    BY DEF Init, BucketsAreIdeal
  <1>5. ResetsToCome
    <2>1. Outdated(config) = {}
      BY DEF Init, Outdated, At, NoRequest
    <2>2. Cardinality(Outdated(config)) = 0
      BY <2>1, FS_EmptySet
    <2> QED BY <2>2 DEF Init, ResetsToCome
  <1> QED BY <1>1, <1>2, <1>3, <1>4, <1>5 DEF IInv

\* Steps that outdate no request and touch neither settings nor counters.
LEMMA ResetsKept ==
    ASSUME TypeOK, ResetsToCome, Outdated(config)' = Outdated(config),
           UNCHANGED <<config, current, resets, stale>>
    PROVE  ResetsToCome'
  BY DEF ResetsToCome

\* Finitely many requests are outdated.
LEMMA OutdatedFinite ==
    ASSUME NEW c, TypeOK
    PROVE  IsFiniteSet(Outdated(c)) /\ Cardinality(Outdated(c)) \in Nat
  <1>1. Outdated(c) \subseteq Requests /\ IsFiniteSet(Requests)
    BY LimitAssumption DEF Outdated, At
  <1> QED BY <1>1, FS_Subset, FS_CardinalityType

-----------------------------------------------------------------------------
\* The types, in every step.
LEMMA TypeInv ==
    ASSUME IInv, [Next]_vars PROVE TypeOK' /\ RequestsKnow'
  <1> USE LimitAssumption DEF IInv
  <1>1. ASSUME NEW r \in Requests, NEW s \in Sessions \cup {NoSession}, Read(r, s)
        PROVE  TypeOK' /\ RequestsKnow'
    <2>1. TypeOK'
      BY <1>1 DEF Read, history, TypeOK, NoRequest
    <2>2. RequestsKnow'
      BY <1>1 DEF Read, TypeOK, RequestsKnow, NoRequest
    <2> QED BY <2>1, <2>2
  <1>2. ASSUME NEW r \in Requests, Locked(r) PROVE TypeOK' /\ RequestsKnow'
    <2>1. req[r].session \in Sessions /\ req[r].read \in Settings
          /\ Burst[req[r].read] \in Nat
      BY <1>2 DEF Locked, RequestsKnow
    <2>2. PICK e \in Entries :
             /\ req' = [req EXCEPT ![r].pc = "holding", ![r].entry = e]
             /\ age' = Only(limiters', [age EXCEPT ![e] = 0])
             /\ \E n \in {tokens[e], Burst[req[r].read]} :
                   tokens' = Only(limiters', [tokens EXCEPT ![e] = n])
             /\ \E kept \in {limiters, [t \in Sessions |-> None]} :
                   limiters' = [kept EXCEPT ![req[r].session] = e]
             /\ late' \subseteq late
      BY <1>2 DEF Locked
    <2>3. TypeOK'
      <3>1. req' \in [Requests -> [pc : {"idle", "read", "holding", "served",
                                        "rejected"},
                                  session : Sessions \cup {NoSession},
                                  read : Settings \cup {Off},
                                  entry : Entries \cup {None}]]
        <4>1. [req[r] EXCEPT !.pc = "holding", !.entry = e] \in
                [pc : {"idle", "read", "holding", "served", "rejected"},
                 session : Sessions \cup {NoSession},
                 read : Settings \cup {Off}, entry : Entries \cup {None}]
          <5>1. req[r] \in [pc : {"idle", "read", "holding", "served", "rejected"},
                            session : Sessions \cup {NoSession},
                            read : Settings \cup {Off}, entry : Entries \cup {None}]
            BY DEF TypeOK
          <5> QED BY <5>1
        <4>2. req' = [req EXCEPT ![r] = [req[r] EXCEPT !.pc = "holding", !.entry = e]]
          BY <2>2 DEF TypeOK
        <4> QED BY <4>1, <4>2 DEF TypeOK
      <3>2. limiters' \in [Sessions -> Entries \cup {None}]
        <4>1. PICK kept \in {limiters, [t \in Sessions |-> None]} :
                 limiters' = [kept EXCEPT ![req[r].session] = e]
          BY <2>2
        <4>2. kept \in [Sessions -> Entries \cup {None}]
          <5>1. CASE kept = limiters
            BY <5>1 DEF TypeOK
          <5>2. CASE kept = [t \in Sessions |-> None]
            BY <5>2
          <5> QED BY <4>1, <5>1, <5>2
        <4> QED BY <4>1, <4>2
      <3>3. tokens' \in [Entries -> Nat] /\ age' \in [Entries -> Nat]
        BY <2>1, <2>2 DEF TypeOK, Only
      <3>4. ideal' \in [Sessions -> Nat] /\ late' \subseteq Entries
            /\ early' \subseteq Sessions
        BY <1>2, <2>1, <2>2 DEF Locked, TypeOK
      <3>5. resets' \in Nat /\ current' \in Settings
        BY <1>2, <2>1 DEF Locked, TypeOK, Recorded
      <3> QED BY <1>2, <3>1, <3>2, <3>3, <3>4, <3>5 DEF Locked, TypeOK
    <2>4. RequestsKnow'
      BY <2>1, <2>2 DEF TypeOK, RequestsKnow
    <2> QED BY <2>3, <2>4
  <1>3. ASSUME NEW r \in Requests, Allow(r) PROVE TypeOK' /\ RequestsKnow'
    <2>1. req[r].entry \in Entries /\ req[r].session \in Sessions
      BY <1>3 DEF Allow, RequestsKnow
    <2>2. TypeOK'
      <3>1. tokens' \in [Entries -> Nat] /\ ideal' \in [Sessions -> Nat]
        BY <1>3, <2>1 DEF Allow, TypeOK
      <3>2. req' \in [Requests -> [pc : {"idle", "read", "holding", "served",
                                        "rejected"},
                                  session : Sessions \cup {NoSession},
                                  read : Settings \cup {Off},
                                  entry : Entries \cup {None}]]
        BY <1>3 DEF Allow, TypeOK
      <3>3. late' \subseteq Entries
        BY <1>3, <2>1 DEF Allow, TypeOK
      <3> QED BY <1>3, <3>1, <3>2, <3>3 DEF Allow, TypeOK
    <2>3. RequestsKnow'
      BY <1>3 DEF Allow, TypeOK, RequestsKnow
    <2> QED BY <2>2, <2>3
  <1>10. ASSUME NEW r \in Requests, AllowDiscarded(r)
         PROVE  TypeOK' /\ RequestsKnow'
    <2>1. TypeOK'
      BY <1>10 DEF AllowDiscarded, history, TypeOK
    <2>2. RequestsKnow'
      BY <1>10 DEF AllowDiscarded, TypeOK, RequestsKnow
    <2> QED BY <2>1, <2>2
  <1>4. ASSUME NEW r \in Requests, Done(r) PROVE TypeOK' /\ RequestsKnow'
    <2>1. TypeOK'
      BY <1>4 DEF Done, history, TypeOK, NoRequest
    <2>2. RequestsKnow'
      BY <1>4 DEF Done, TypeOK, RequestsKnow, NoRequest
    <2> QED BY <2>1, <2>2
  <1>5. CASE Tick
    <2>1. Burst[current] \in Nat /\ ReapAfter[current] \in Nat
      BY <1>5 DEF Tick, TypeOK
    <2>2. tokens' \in [Entries -> Nat] /\ age' \in [Entries -> Nat]
      BY <1>5, <2>1 DEF Tick, TypeOK, AtMost, Only
    <2>3. ideal' \in [Sessions -> Nat] /\ early' \subseteq Sessions
      BY <1>5, <2>1 DEF Tick, TypeOK, AtMost
    <2> QED BY <1>5, <2>2, <2>3 DEF Tick, TypeOK, RequestsKnow
  <1>6. CASE Reap
    <2>1. tokens' \in [Entries -> Nat] /\ age' \in [Entries -> Nat]
      BY <1>6 DEF Reap, TypeOK, Only
    <2> QED BY <1>6, <2>1 DEF Reap, TypeOK, RequestsKnow
  <1>7. CASE Close
    BY <1>7 DEF Close, history, TypeOK, RequestsKnow
  <1>8. CASE Reload
    BY <1>8, OutdatedFinite DEF Reload, history, TypeOK, RequestsKnow
  <1>9. CASE UNCHANGED vars
    BY <1>9 DEF vars, TypeOK, RequestsKnow
  <1> HIDE DEF IInv
  <1> QED BY <1>1, <1>2, <1>3, <1>4, <1>5, <1>6, <1>7, <1>8, <1>9, <1>10 DEF Next

-----------------------------------------------------------------------------
(* The critical section: the entry it hands out.                           *)

\* The entry handed out is the session's own and as full as the ideal bucket.
LEMMA LockedApart ==
    ASSUME IInv, NEW r \in Requests, Locked(r)
    PROVE  EntriesAreApart' /\ BucketsAreIdeal'
  <1> USE LimitAssumption
  <1> DEFINE s == req[r].session
             read == req[r].read
             kept == IF read # current THEN [t \in Sessions |-> None] ELSE limiters
  <1>1. /\ s \in Sessions /\ read \in Settings /\ Burst[read] \in Nat
        /\ TypeOK /\ EntriesAreApart /\ BucketsAreIdeal
    BY DEF IInv, Locked, RequestsKnow
  <1>2. PICK e \in Entries :
           /\ e = kept[s] \/ (kept[s] = None /\ e \in Free(kept))
           /\ limiters' = [kept EXCEPT ![s] = e]
           /\ tokens' = Only(limiters', [tokens EXCEPT ![e] =
                               IF kept[s] = None THEN Burst[read] ELSE @])
           /\ age' = Only(limiters', [age EXCEPT ![e] = 0])
           /\ late' = (late \cap InMap(limiters')) \ {e}
           /\ req' = [req EXCEPT ![r].pc = "holding", ![r].entry = e]
    BY DEF Locked
  <1>3. /\ current' = read
        /\ ideal' = IF read # current THEN [t \in Sessions |-> Burst[read]] ELSE ideal
        /\ early' = IF read # current THEN {} ELSE early
    BY DEF Locked, Recorded
  <1>4. /\ kept \in [Sessions -> Entries \cup {None}]
        /\ \A t \in Sessions : kept[t] \in {limiters[t], None}
        /\ \A t \in Sessions : limiters'[t] = IF t = s THEN e ELSE kept[t]
    BY <1>1, <1>2 DEF TypeOK
  <1>5. \A t \in Sessions : t # s => kept[t] # e
    <2>1. CASE kept[s] = None
      BY <1>2, <1>4, <2>1 DEF Free, InMap
    <2>2. CASE kept[s] # None
      BY <1>1, <1>2, <1>4, <2>2 DEF EntriesAreApart
    <2> QED BY <2>1, <2>2
  <1>6. \A q \in Requests : req[q].pc = "holding" /\ req[q].entry = e =>
            req[q].session = s
    <2>1. CASE kept[s] = None
      BY <1>2, <2>1 DEF Free, At
    <2>2. CASE kept[s] # None
      BY <1>1, <1>2, <1>4, <2>2 DEF EntriesAreApart
    <2> QED BY <2>1, <2>2
  <1>7. /\ \A q \in Requests : q # r => req'[q] = req[q]
        /\ req'[r].pc = "holding" /\ req'[r].entry = e /\ req'[r].session = s
    BY <1>2 DEF IInv, TypeOK
  <1>8. e # None /\ None \notin Entries
    BY <1>2
  <1>9. /\ tokens'[e] = IF kept[s] = None THEN Burst[read] ELSE tokens[e]
        /\ age'[e] = 0
    BY <1>1, <1>2, <1>4, <1>8 DEF TypeOK, Only, InMap
  <1>10. ASSUME NEW t \in Sessions, t # s, kept[t] # None
         PROVE  /\ limiters'[t] = limiters[t] /\ limiters[t] \in Entries
                /\ tokens'[limiters[t]] = tokens[limiters[t]]
                /\ age'[limiters[t]] = age[limiters[t]]
                /\ limiters[t] \in late => limiters[t] \in late'
    <2>1. limiters'[t] = limiters[t] /\ limiters[t] \in Entries /\ limiters[t] # e
      BY <1>1, <1>4, <1>5, <1>10 DEF TypeOK
    <2>2. limiters[t] \in InMap(limiters')
      BY <2>1, <1>8 DEF InMap
    <2> QED BY <1>1, <1>2, <2>1, <2>2 DEF TypeOK, Only
  <1>11. read # current => \A t \in Sessions : kept[t] = None /\ ideal'[t] = Burst[read]
    BY <1>3
  <1>12. read = current => kept = limiters /\ ideal' = ideal /\ early' = early
    BY <1>3
  <1>13. read = current => \A t \in Sessions : Even(t)
    BY <1>1 DEF BucketsAreIdeal
  <1>14. /\ read # Off /\ tokens \in [Entries -> Nat] /\ ideal \in [Sessions -> Nat]
    BY <1>1 DEF TypeOK
  <1>15. e = kept[s] \/ kept[s] = None
    BY <1>2
  <1>16. \A a, b \in Sessions :
             limiters[a] # None /\ limiters[a] = limiters[b] => a = b
    BY <1>1 DEF EntriesAreApart
  <1>17. \A q \in Requests, t \in Sessions :
               (req[q].pc = "holding" /\ limiters[t] = req[q].entry) =>
                   t = req[q].session
    BY <1>1 DEF EntriesAreApart
  <1>18. \A t \in Sessions : limiters[t] \in Entries \cup {None}
    BY <1>1 DEF TypeOK
  <1> HIDE DEF s, read, kept
  <1>19. EntriesAreApart'
    <2>1. ASSUME NEW a \in Sessions, NEW b \in Sessions,
                 limiters'[a] # None, limiters'[a] = limiters'[b]
          PROVE  a = b
      BY <1>4, <1>5, <1>16, <2>1
    <2>2. ASSUME NEW q \in Requests, NEW t \in Sessions,
                 req'[q].pc = "holding", limiters'[t] = req'[q].entry
          PROVE  t = req'[q].session
      <3>1. CASE t = s
        BY <1>4, <1>6, <1>7, <2>2, <3>1
      <3>2. CASE t # s
        <4>1. limiters'[t] = kept[t] /\ limiters'[t] # e
          BY <1>4, <1>5, <3>2
        <4>2. q # r /\ req'[q] = req[q]
          BY <1>7, <2>2, <4>1
        <4>3. kept[t] # None
          <5>1. req[q].entry \in Entries
            BY <2>2, <4>2 DEF IInv, RequestsKnow
          <5> QED BY <1>8, <2>2, <4>1, <4>2, <5>1
        <4> QED BY <1>10, <1>17, <2>2, <3>2, <4>2, <4>3
      <3> QED BY <3>1, <3>2
    <2> QED BY <2>1, <2>2 DEF EntriesAreApart
  <1>20. BucketsAreIdeal'
    <2> SUFFICES ASSUME NEW t \in Sessions
                 PROVE  Even(t)'
      BY <1>3, <1>14 DEF BucketsAreIdeal
    <2>1. CASE t = s /\ kept[s] = None
      <3>1. ideal'[t] <= Burst[read] /\ (ideal'[t] = Burst[read] \/ t \in early')
        <4>1. CASE read # current
          BY <1>1, <1>11, <4>1
        <4>2. CASE read = current
          BY <1>12, <1>13, <2>1, <4>2 DEF Even
        <4> QED BY <4>1, <4>2
      <3>2. limiters'[t] = e /\ tokens'[e] = Burst[read]
        BY <1>4, <1>9, <2>1
      <3> QED BY <1>1, <1>3, <1>8, <3>1, <3>2 DEF Even
    <2>2. CASE t = s /\ kept[s] # None
      <3>1. limiters'[t] = e /\ tokens'[e] = tokens[e] /\ age'[e] = 0
        BY <1>4, <1>9, <2>2
      <3>2. e = limiters[t] /\ read = current /\ ideal' = ideal /\ early' = early
        BY <1>11, <1>12, <1>15, <2>2
      <3>3. tokens[e] \in Nat
        BY <1>14
      <3>4. Even(t) /\ current' = current
        BY <1>3, <1>13, <3>2
      <3> QED BY <1>8, <3>1, <3>2, <3>3, <3>4 DEF Even
    <2>3. CASE t # s /\ kept[t] = None
      <3>1. ideal'[t] <= Burst[read] /\ (ideal'[t] = Burst[read] \/ t \in early')
        <4>1. CASE read # current
          BY <1>1, <1>11, <4>1
        <4>2. CASE read = current
          BY <1>12, <1>13, <2>3, <4>2 DEF Even
        <4> QED BY <4>1, <4>2
      <3>2. limiters'[t] = None
        BY <1>4, <2>3
      <3> QED BY <1>3, <3>1, <3>2 DEF Even
    <2>4. CASE t # s /\ kept[t] # None
      <3>1. read = current /\ ideal' = ideal /\ early' = early /\ Even(t)
            /\ current' = current
        BY <1>3, <1>11, <1>12, <1>13, <2>4
      <3>2. /\ limiters'[t] = limiters[t] /\ limiters[t] \in Entries
            /\ tokens'[limiters[t]] = tokens[limiters[t]]
            /\ age'[limiters[t]] = age[limiters[t]]
            /\ limiters[t] \in late => limiters[t] \in late'
        BY <1>10, <2>4
      <3> QED BY <1>8, <3>1, <3>2 DEF Even
    <2> QED BY <2>1, <2>2, <2>3, <2>4
  <1> QED BY <1>19, <1>20

-----------------------------------------------------------------------------
(* Buckets, in every step.                                                 *)

\* Every step keeps entries apart and buckets as full as the ideal ones.
LEMMA BucketInv ==
    ASSUME IInv, [Next]_vars PROVE EntriesAreApart' /\ BucketsAreIdeal'
  <1> USE LimitAssumption
  <1>0. TypeOK /\ RequestsKnow /\ EntriesAreApart /\ BucketsAreIdeal
    BY DEF IInv
  <1>1. ASSUME NEW r \in Requests, NEW s \in Sessions \cup {NoSession}, Read(r, s)
        PROVE  EntriesAreApart' /\ BucketsAreIdeal'
    <2>1. \A q \in Requests : req'[q].pc = "holding" => req'[q] = req[q]
      BY <1>0, <1>1 DEF Read, TypeOK, NoRequest
    <2> QED BY <1>0, <1>1, <2>1
            DEF Read, history, EntriesAreApart, BucketsAreIdeal, Even
  <1>2. ASSUME NEW r \in Requests, Locked(r)
        PROVE  EntriesAreApart' /\ BucketsAreIdeal'
    BY <1>2, LockedApart
  <1>3. ASSUME NEW r \in Requests, Allow(r)
        PROVE  EntriesAreApart' /\ BucketsAreIdeal'
    <2> DEFINE e == req[r].entry
               s == req[r].session
    <2>1. e \in Entries /\ s \in Sessions /\ req[r].pc = "holding"
      BY <1>0, <1>3 DEF Allow, RequestsKnow
    <2>2. \A q \in Requests : req'[q].pc = "holding" => req'[q] = req[q]
      BY <1>0, <1>3 DEF Allow, TypeOK
    <2>3. EntriesAreApart'
      BY <1>0, <1>3, <2>2 DEF Allow, EntriesAreApart
    <2>4. /\ limiters[s] = e /\ e # None
          /\ \A t \in Sessions : t # s => limiters[t] # e
          /\ \A t \in Sessions : limiters[t] \in Entries \cup {None}
      BY <1>0, <1>3, <2>1 DEF Allow, Held, EntriesAreApart, TypeOK
    <2>5. /\ \A d \in Entries : tokens'[d] =
                IF d = e /\ tokens[e] > 0 THEN tokens[e] - 1 ELSE tokens[d]
          /\ \A t \in Sessions : ideal'[t] =
                IF t = s /\ ideal[s] > 0 THEN ideal[s] - 1 ELSE ideal[t]
          /\ tokens[e] \in Nat /\ age[e] \in Nat /\ ideal[s] \in Nat
      BY <1>0, <1>3, <2>1 DEF Allow, TypeOK
    <2>6. /\ UNCHANGED <<current, limiters, age, early>>
          /\ late \subseteq late'
          /\ tokens[e] > 0 /\ age[e] > 0 => e \in late'
      BY <1>3 DEF Allow
    <2>7. BucketsAreIdeal'
      <3>1. ASSUME current # Off, NEW t \in Sessions, Even(t), t # s PROVE Even(t)'
        BY <2>4, <2>5, <2>6, <3>1 DEF Even
      <3>2. ASSUME current # Off, NEW t \in Sessions, Even(t), t = s PROVE Even(t)'
        <4>1. Burst[current] \in Nat
          BY <1>0, <3>2 DEF TypeOK
        <4>2. CASE tokens[e] > 0
          <5>1. tokens'[e] = tokens[e] - 1 /\ age'[e] = age[e] /\ limiters'[t] = e
            BY <2>1, <2>4, <2>5, <2>6, <3>2, <4>2
          <5>2. CASE ideal[t] > 0
            <6>1. ideal'[t] = ideal[t] - 1
              BY <2>1, <2>5, <3>2, <5>2
            <6> QED BY <2>1, <2>4, <2>5, <2>6, <3>2, <4>1, <4>2, <5>1, <6>1 DEF Even
          <5>3. CASE ~ (ideal[t] > 0)
            <6>1. ideal'[t] = ideal[t]
              BY <2>1, <2>5, <3>2, <5>3
            <6> QED BY <2>1, <2>4, <2>5, <2>6, <3>2, <4>1, <4>2, <5>1, <5>3, <6>1 DEF Even
          <5> QED BY <5>2, <5>3
        <4>3. CASE ~ (tokens[e] > 0)
          <5>1. tokens'[e] = tokens[e] /\ age'[e] = age[e] /\ limiters'[t] = e
            BY <2>1, <2>4, <2>5, <2>6, <3>2, <4>3
          <5>2. ideal[t] = 0 /\ ideal'[t] = ideal[t]
            BY <2>1, <2>4, <2>5, <3>2, <4>3 DEF Even
          <5> QED BY <2>1, <2>4, <2>5, <2>6, <3>2, <4>1, <4>3, <5>1, <5>2 DEF Even
        <4> QED BY <4>2, <4>3
      <3>3. current' # Off => current # Off /\ \A t \in Sessions : Even(t)
        BY <1>0, <2>6 DEF BucketsAreIdeal
      <3>4. ASSUME current' # Off, NEW t \in Sessions PROVE Even(t)'
        <4>1. current # Off /\ Even(t)
          BY <3>3, <3>4
        <4>2. CASE t = s
          BY <3>2, <4>1, <4>2
        <4>3. CASE t # s
          BY <3>1, <4>1, <4>3
        <4> QED BY <4>2, <4>3
      <3>5. current' = Off => \A t \in Sessions : limiters'[t] = None
        BY <1>0, <2>6 DEF BucketsAreIdeal
      <3> QED BY <3>4, <3>5 DEF BucketsAreIdeal
    <2> QED BY <2>3, <2>7
  <1>4. ASSUME NEW r \in Requests, Done(r) \/ AllowDiscarded(r)
        PROVE  EntriesAreApart' /\ BucketsAreIdeal'
    <2>1. \A q \in Requests : req'[q].pc = "holding" => req'[q] = req[q]
      BY <1>0, <1>4 DEF Done, AllowDiscarded, TypeOK, NoRequest
    <2> QED BY <1>0, <1>4, <2>1
            DEF Done, AllowDiscarded, history, EntriesAreApart, BucketsAreIdeal,
                Even
  <1>5. CASE Tick
    <2>1. EntriesAreApart'
      BY <1>0, <1>5 DEF Tick, EntriesAreApart
    <2>2. current # Off /\ Burst[current] \in Nat /\ current' = current
          /\ limiters' = limiters /\ late' = late /\ ReapAfter[current] \in Nat
      BY <1>0, <1>5 DEF Tick, TypeOK
    <2>3. ASSUME NEW s \in Sessions PROVE Even(s)'
      <3>1. /\ ideal'[s] = AtMost(ideal[s] + 1, Burst[current])
            /\ ideal[s] \in Nat /\ Even(s)
            /\ s \in early => s \in early' \/ ideal'[s] >= Burst[current]
        BY <1>0, <1>5, <2>2 DEF Tick, TypeOK, BucketsAreIdeal, AtMost
      <3>2. CASE limiters[s] = None
        BY <2>2, <3>1, <3>2 DEF Even, AtMost
      <3>3. CASE limiters[s] # None
        <4>1. limiters[s] \in Entries /\ limiters[s] \in InMap(limiters)
          BY <1>0, <3>3 DEF TypeOK, InMap
        <4>2. /\ tokens'[limiters[s]] = AtMost(tokens[limiters[s]] + 1, Burst[current])
              /\ age'[limiters[s]] = AtMost(age[limiters[s]] + 1,
                                           ReapAfter[current] + 1)
              /\ tokens[limiters[s]] \in Nat /\ age[limiters[s]] \in Nat
          BY <1>0, <1>5, <4>1 DEF Tick, TypeOK, Only
        <4> QED BY <2>2, <3>1, <3>3, <4>1, <4>2 DEF Even, AtMost
      <3> QED BY <3>2, <3>3
    <2> QED BY <2>1, <2>2, <2>3 DEF BucketsAreIdeal
  <1>6. CASE Reap
    <2>1. \A s \in Sessions : limiters'[s] = IF Expired(s) THEN None ELSE limiters[s]
      BY <1>6 DEF Reap
    <2>2. EntriesAreApart'
      <3>1. \A q \in Requests : req[q].pc = "holding" => req[q].entry # None
        BY <1>0 DEF RequestsKnow
      <3> QED BY <1>0, <1>6, <2>1, <3>1 DEF Reap, EntriesAreApart
    <2>3. /\ UNCHANGED <<current, ideal>>
          /\ early \subseteq early'
          /\ \A s \in Sessions : Expired(s) /\ MayBeHalfFull(s) => s \in early'
      BY <1>6 DEF Reap
    <2>4. ASSUME NEW s \in Sessions, current # Off, Even(s) PROVE Even(s)'
      <3>1. CASE Expired(s)
        <4>1. limiters'[s] = None /\ limiters[s] # None
          BY <2>1, <3>1 DEF Expired
        <4>2. limiters[s] \in Entries /\ age[limiters[s]] > ReapAfter[current]
          BY <1>0, <3>1, <4>1 DEF Expired, TypeOK
        <4>3. /\ Burst[current] \in Nat /\ ReapAfter[current] \in Nat
              /\ tokens[limiters[s]] \in Nat /\ age[limiters[s]] \in Nat
              /\ ideal[s] \in Nat
          BY <1>0, <2>4, <4>2 DEF TypeOK
        <4>4. CASE s \in early'
          BY <2>3, <2>4, <4>1, <4>3, <4>4 DEF Even
        <4>5. CASE s \notin early'
          <5>1. s \notin early /\ Burst[current] <= ReapAfter[current]
                /\ limiters[s] \notin late
            BY <2>3, <3>1, <4>3, <4>5 DEF MayBeHalfFull
          <5>2. ideal[s] = Burst[current]
            BY <2>4, <4>1, <4>2, <4>3, <5>1 DEF Even
          <5> QED BY <2>3, <4>1, <4>3, <5>2 DEF Even
        <4> QED BY <4>4, <4>5
      <3>2. CASE ~ Expired(s) /\ limiters[s] # None
        <4>1. limiters'[s] = limiters[s] /\ limiters[s] \in Entries
          BY <1>0, <2>1, <3>2 DEF TypeOK
        <4>2. limiters[s] \in InMap(limiters')
          BY <3>2, <4>1 DEF InMap
        <4>3. /\ tokens'[limiters[s]] = tokens[limiters[s]]
              /\ age'[limiters[s]] = age[limiters[s]]
              /\ limiters[s] \in late => limiters[s] \in late'
          BY <1>6, <4>1, <4>2 DEF Reap, Only
        <4> QED BY <2>3, <2>4, <3>2, <4>1, <4>3 DEF Even
      <3>3. CASE ~ Expired(s) /\ limiters[s] = None
        BY <2>1, <2>3, <2>4, <3>3 DEF Even
      <3> QED BY <3>1, <3>2, <3>3
    <2> QED BY <1>0, <2>1, <2>2, <2>3, <2>4 DEF BucketsAreIdeal
  <1>7. CASE UNCHANGED <<current, limiters, tokens, age, req, ideal, late, early>>
    BY <1>0, <1>7 DEF EntriesAreApart, BucketsAreIdeal, Even
  <1> QED BY <1>1, <1>2, <1>3, <1>4, <1>5, <1>6, <1>7
          DEF Next, Close, Reload, history, vars

-----------------------------------------------------------------------------
(* Resets, in every step.                                                  *)

\* Every step keeps the count of resets to come.
LEMMA ResetInv == ASSUME IInv, [Next]_vars PROVE ResetsToCome'
  <1>0. TypeOK /\ ResetsToCome /\ TypeOK'
    BY TypeInv DEF IInv
  <1>1. ASSUME NEW r \in Requests, NEW s \in Sessions \cup {NoSession}, Read(r, s)
        PROVE  ResetsToCome'
    <2>1. Outdated(config)' = Outdated(config)
      BY <1>0, <1>1 DEF Read, Outdated, At, TypeOK, NoRequest
    <2> QED BY <1>0, <1>1, <2>1, ResetsKept DEF Read
  <1>2. ASSUME NEW r \in Requests, Locked(r) PROVE ResetsToCome'
    <2> DEFINE outdated == Outdated(config)
    <2>1. /\ req[r].pc = "read" /\ current' = req[r].read
          /\ resets' = IF req[r].read # current THEN resets + 1 ELSE resets
          /\ UNCHANGED <<config, stale>>
      BY <1>2 DEF Locked, Recorded
    <2>2. \A q \in Requests : IF q = r THEN req'[q].pc = "holding"
                              ELSE req'[q] = req[q]
      BY <1>0, <1>2 DEF Locked, TypeOK
    <2>3. outdated' = outdated \ {r}
      BY <2>1, <2>2 DEF Outdated, At
    <2>4. IsFiniteSet(outdated) /\ Cardinality(outdated) \in Nat
      BY <1>0, OutdatedFinite
    <2>5. resets \in Nat /\ stale \in Nat
      BY <1>0 DEF TypeOK
    <2> HIDE DEF outdated
    <2>6. CASE req[r].read = config
      <3>1. r \notin outdated
        BY <2>6 DEF outdated, Outdated
      <3>2. outdated' = outdated
        BY <2>3, <3>1
      <3> QED BY <1>0, <2>1, <2>4, <2>5, <2>6, <3>2 DEF ResetsToCome, outdated
    <2>7. CASE req[r].read # config
      <3>1. r \in outdated
        BY <2>1, <2>7 DEF outdated, Outdated, At
      <3>2. Cardinality(outdated') = Cardinality(outdated) - 1
        BY <2>3, <2>4, <3>1, FS_RemoveElement
      <3> QED BY <1>0, <2>1, <2>4, <2>5, <2>7, <3>2 DEF ResetsToCome, outdated
    <2> QED BY <2>6, <2>7
  <1>3. ASSUME NEW r \in Requests, Allow(r) \/ AllowDiscarded(r) \/ Done(r)
        PROVE  ResetsToCome'
    <2>1. \A q \in Requests : /\ req'[q].read = req[q].read \/ q = r
                              /\ q # r => req'[q] = req[q]
      BY <1>0, <1>3 DEF Allow, AllowDiscarded, Done, TypeOK
    <2>2. req[r].pc # "read" /\ req'[r].pc # "read"
      BY <1>0, <1>3 DEF Allow, AllowDiscarded, Done, TypeOK, NoRequest
    <2>3. config' = config
      BY <1>3 DEF Allow, AllowDiscarded, Done
    <2>4. Outdated(config)' = Outdated(config)
      BY <2>1, <2>2, <2>3 DEF Outdated, At
    <2> QED BY <1>0, <1>3, <2>4, ResetsKept DEF Allow, AllowDiscarded, Done
  <1>4. CASE Reload
    <2>1. /\ resets' = 0 /\ stale' = Cardinality(Outdated(config'))
          /\ Outdated(config)' = Outdated(config')
      BY <1>4 DEF Reload, Outdated, At
    <2>2. Cardinality(Outdated(config')) \in Nat
      BY <1>0, OutdatedFinite
    <2> QED BY <2>1, <2>2 DEF ResetsToCome
  <1>5. CASE UNCHANGED <<config, current, req, resets, stale>>
    <2>1. Outdated(config)' = Outdated(config)
      BY <1>5 DEF Outdated, At
    <2> QED BY <1>0, <1>5, <2>1, ResetsKept
  <1> QED BY <1>1, <1>2, <1>3, <1>4, <1>5 DEF Next, Tick, Reap, Close, vars

\* IInv is kept by every step.
LEMMA StepInv == IInv /\ [Next]_vars => IInv'
  BY TypeInv, BucketInv, ResetInv DEF IInv

\* With any number of requests that read the old limit before a SIGHUP stored
\* a new one, rateLimitingMiddleware discards the limiters at most twice per
\* such request and once more.
THEOREM ResetsTheorem == Spec => []ResetsBounded
  <1>1. IInv => ResetsBounded
    <2> SUFFICES ASSUME IInv PROVE ResetsBounded
      OBVIOUS
    <2>1. Cardinality(Outdated(config)) \in Nat /\ resets \in Nat /\ stale \in Nat
      BY OutdatedFinite DEF IInv, TypeOK
    <2> QED BY <2>1 DEF IInv, ResetsToCome, ResetsBounded
  <1> QED BY InitInv, StepInv, <1>1, PTL DEF Spec

\* However the reaper, the ticks of the clock and the requests of all sessions
\* interleave, and whatever burst and rate are set, rateLimitingMiddleware
\* rejects only what a bucket that is never reaped would reject, and serves only
\* what it would serve, unless the session's bucket may have been reaped before
\* it was full.
THEOREM OneBucketTheorem == Spec => ServedAsByOneBucket
  <1> DEFINE Served ==
        \A r \in Requests :
          LET s == req[r].session IN
          (req[r].pc = "holding" /\ Held(r)) =>
              /\ req'[r].pc = "served" => ideal[s] > 0 \/ s \in early
              /\ req'[r].pc = "rejected" => ideal[s] = 0
  <1>1. ASSUME IInv, [Next]_vars PROVE [Served]_vars
    <2> SUFFICES ASSUME Next, NEW r \in Requests, req[r].pc = "holding", Held(r)
                 PROVE  /\ req'[r].pc = "served" =>
                              ideal[req[r].session] > 0 \/ req[r].session \in early
                        /\ req'[r].pc = "rejected" => ideal[req[r].session] = 0
      BY <1>1
    <2>0. TypeOK /\ RequestsKnow /\ BucketsAreIdeal
      BY <1>1 DEF IInv
    <2>1. CASE req'[r].pc \notin {"served", "rejected"}
      BY <2>1
    <2>2. CASE Allow(r)
      <3>1. /\ req[r].session \in Sessions /\ req[r].entry \in Entries
            /\ limiters[req[r].session] = req[r].entry
        BY <2>0 DEF RequestsKnow, Held
      <3>2. /\ ideal[req[r].session] <= tokens[req[r].entry]
            /\ \/ ideal[req[r].session] = tokens[req[r].entry]
               \/ req[r].session \in early
        BY <2>0, <3>1, LimitAssumption DEF BucketsAreIdeal, Even
      <3>3. req'[r].pc = IF tokens[req[r].entry] > 0 THEN "served" ELSE "rejected"
        BY <2>0, <2>2 DEF Allow, TypeOK
      <3>4. tokens[req[r].entry] \in Nat /\ ideal[req[r].session] \in Nat
        BY <2>0, <3>1 DEF TypeOK
      <3> QED BY <3>2, <3>3, <3>4
    <2>3. CASE ~ Allow(r)
      <3>1. req'[r].pc = "holding"
        <4>1. ASSUME NEW q \in Requests, NEW s, Read(q, s) PROVE req'[r].pc = "holding"
          BY <2>0, <4>1 DEF Read, TypeOK
        <4>2. ASSUME NEW q \in Requests, Locked(q) PROVE req'[r].pc = "holding"
          BY <2>0, <4>2 DEF Locked, TypeOK
        <4>3. ASSUME NEW q \in Requests, Allow(q) PROVE req'[r].pc = "holding"
          BY <2>0, <2>3, <4>3 DEF Allow, TypeOK
        <4>6. ASSUME NEW q \in Requests, AllowDiscarded(q) PROVE req'[r].pc = "holding"
          BY <2>0, <4>6 DEF AllowDiscarded, TypeOK
        <4>4. ASSUME NEW q \in Requests, Done(q) PROVE req'[r].pc = "holding"
          BY <2>0, <4>4 DEF Done, TypeOK
        <4>5. CASE UNCHANGED req
          BY <4>5
        <4> QED BY <4>1, <4>2, <4>3, <4>4, <4>5, <4>6 DEF Next, Tick, Reap, Close, Reload
      <3> QED BY <2>1, <3>1
    <2> QED BY <2>2, <2>3
  <1>2. ServedAsByOneBucket <=> [][Served]_vars
    BY DEF ServedAsByOneBucket
  <1> QED BY InitInv, StepInv, <1>1, <1>2, PTL DEF Spec
=============================================================================
