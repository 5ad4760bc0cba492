-------------------------- MODULE ToolCallsProofs --------------------------
(***************************************************************************)
(* For any tables of tools and prompts, and any settings: no denied kind is *)
(* reached and no request that a rule matches is sent without an answer of  *)
(* its own, whatever the handlers are; and for any tables whose handlers    *)
(* keep the disciplines of HandlerDisciplines: what read_only and           *)
(* disable_destructive promise, failed calls that changed nothing, prompts  *)
(* that only their subject fails, and temporary objects that are removed.   *)
(*                                                                         *)
(* 1. sequences of instructions      4. read_only      7. destructive       *)
(* 2. what a step does to a call     5. failed calls   8. temporary objects *)
(* 3. denied kinds, confirmation     6. prompts                             *)
(***************************************************************************)
EXTENDS HandlerDisciplines, SequenceTheorems, WellFoundedInduction, TLAPS

-----------------------------------------------------------------------------
(* 1. Sequences of instructions.                                            *)

\* The innermost rescue is one, and the first.
LEMMA InnermostIsFirst ==
    ASSUME NEW S, NEW todo \in Seq(S), Rescues(todo) # {}
    PROVE  /\ Innermost(todo) \in Rescues(todo)
           /\ Innermost(todo) \in 1..Len(todo)
           /\ \A j \in Rescues(todo) : Innermost(todo) <= j
  <1>1. DOMAIN todo = 1..Len(todo) /\ Len(todo) \in Nat
    BY LenProperties
  <1>2. Rescues(todo) \subseteq Nat /\ Rescues(todo) \subseteq 1..Len(todo)
    BY <1>1 DEF Rescues
  <1> DEFINE Less == {ss \in Nat \X Nat : ss[1] < ss[2]}
  <1>3. IsWellFoundedOn(Less, Nat)
    <2>1. OpToRel(<, Nat) = Less
      BY Zenon DEF OpToRel
    <2> QED BY <2>1, NatLessThanWellFounded, Zenon
  <1>4. PICK i \in Rescues(todo) : \A j \in Rescues(todo) : i <= j
    <2>1. PICK i \in Rescues(todo) : \A j \in Rescues(todo) : ~ (<<j, i>> \in Less)
      <3> HIDE DEF Less
      <3> QED BY <1>2, <1>3, WFMin
    <2>2. \A j \in Rescues(todo) : j < i => <<j, i>> \in Less
      BY <1>2
    <2>3. ASSUME NEW j \in Rescues(todo) PROVE i <= j
      <3>1. ~ (j < i)
        <4> HIDE DEF Less
        <4> QED BY <2>1, <2>2
      <3>2. i \in Nat /\ j \in Nat
        BY <1>2
      <3> QED BY <3>1, <3>2
    <2> QED BY <2>3
  <1>5. /\ Innermost(todo) \in Rescues(todo)
        /\ \A j \in Rescues(todo) : Innermost(todo) <= j
    BY <1>4 DEF Innermost
  <1> QED BY <1>2, <1>5

\* Sequences of a set: their tails, suffixes and concatenations.
LEMMA Suffixes ==
    ASSUME NEW S, NEW s \in Seq(S), NEW n \in 0..Len(s)
    PROVE  /\ Rest(s, n) \in Seq(S)
           /\ Len(Rest(s, n)) = Len(s) - n
           /\ \A j \in 1..(Len(s) - n) : Rest(s, n)[j] = s[n + j]
  <1>1. Len(s) \in Nat /\ \A j \in 1..Len(s) : s[j] \in S
    BY LenProperties, ElementOfSeq
  <1>2. \A j \in (n + 1)..Len(s) : s[j] \in S
    BY <1>1
  <1>3. /\ Rest(s, n) \in Seq(S)
        /\ Len(Rest(s, n)) = IF n + 1 <= Len(s) THEN Len(s) - (n + 1) + 1 ELSE 0
        /\ \A j \in 1..(Len(s) - (n + 1) + 1) : Rest(s, n)[j] = s[(n + 1) + j - 1]
    BY <1>1, <1>2, SubSeqProperties DEF Rest
  <1> QED BY <1>1, <1>3

\* The code left after one instruction.
LEMMA TailRest ==
    ASSUME NEW S, NEW s \in Seq(S), s # <<>>
    PROVE  Tail(s) = Rest(s, 1) /\ Tail(s) \in Seq(S) /\ s[1] \in S
           /\ Len(s) \in Nat /\ Len(s) >= 1 /\ Head(s) = s[1]
  BY TailIsSubSeq, HeadTailProperties, LenProperties, EmptySeq, ElementOfSeq DEF Rest

\* A code in two parts: a suffix beyond the first part is one of the second.
LEMMA RestOfConcat ==
    ASSUME NEW S, NEW s \in Seq(S), NEW t \in Seq(S)
    PROVE  /\ \A n \in 0..Len(s) : Rest(s \o t, n) = Rest(s, n) \o t
           /\ \A n \in 0..Len(t) : Rest(s \o t, Len(s) + n) = Rest(t, n)
  <1>0. /\ s \o t \in Seq(S) /\ Len(s) \in Nat /\ Len(t) \in Nat
        /\ Len(s \o t) = Len(s) + Len(t)
    BY ConcatProperties, LenProperties
  <1>1. ASSUME NEW n \in 0..Len(t) PROVE Rest(s \o t, Len(s) + n) = Rest(t, n)
    <2>1. CASE n = Len(t)
      <3>1. Rest(t, n) = <<>>
        BY <1>0, <2>1, SubSeqEmpty DEF Rest
      <3>2. Rest(s \o t, Len(s) + n) = <<>>
        <4>1. Len(s \o t) < Len(s) + n + 1
          BY <1>0, <2>1
        <4> QED BY <1>0, <4>1, SubSeqEmpty DEF Rest
      <3> QED BY <3>1, <3>2
    <2>2. CASE n # Len(t)
      <3>1. /\ Len(s) + n + 1 \in Len(s)+1 .. Len(s)+Len(t)
            /\ Len(s) + Len(t) \in Len(s)+1 .. Len(s)+Len(t)
        BY <1>0, <2>2
      <3>2. SubSeq(s \o t, Len(s) + n + 1, Len(s) + Len(t))
               = SubSeq(t, Len(s) + n + 1 - Len(s), Len(s) + Len(t) - Len(s))
        BY <3>1, SubSeqOfConcat2
      <3>3. Len(s) + n + 1 - Len(s) = n + 1 /\ Len(s) + Len(t) - Len(s) = Len(t)
        BY <1>0
      <3> QED BY <1>0, <3>2, <3>3 DEF Rest
    <2> QED BY <2>1, <2>2
  <1>2. Rest(s \o t, Len(s)) = t
    <2>1. Rest(s \o t, Len(s) + 0) = Rest(t, 0)
      BY <1>0, <1>1
    <2>2. Rest(t, 0) = t
      BY SubSeqFull DEF Rest
    <2>3. Len(s) + 0 = Len(s)
      BY <1>0
    <2> QED BY <2>1, <2>2, <2>3
  <1>3. ASSUME NEW n \in 0..Len(s) PROVE Rest(s \o t, n) = Rest(s, n) \o t
    <2>1. SubSeq(s \o t, n + 1, Len(s)) \o SubSeq(s \o t, Len(s) + 1, Len(s \o t))
             = SubSeq(s \o t, n + 1, Len(s \o t))
      <3> DEFINE st == s \o t
      <3>1. st \in Seq(S) /\ Len(st) = Len(s) + Len(t)
        BY <1>0
      <3> HIDE DEF st
      <3>2. /\ n + 1 \in 1..(Len(st) + 1) /\ Len(s) \in (n + 1 - 1)..Len(st)
            /\ Len(st) \in Len(s)..Len(st)
        BY <1>0, <3>1
      <3>3. \A m \in 1..(Len(st) + 1) : \A k \in (m - 1)..Len(st) : \A l \in k..Len(st) :
               SubSeq(st, m, k) \o SubSeq(st, k + 1, l) = SubSeq(st, m, l)
        BY <3>1, ConcatAdjacentSubSeq
      <3>4. SubSeq(st, n + 1, Len(s)) \o SubSeq(st, Len(s) + 1, Len(st))
               = SubSeq(st, n + 1, Len(st))
        <4> DEFINE m == n + 1
        <4>1. m \in 1..(Len(st) + 1) /\ Len(s) \in (m - 1)..Len(st)
          BY <3>2
        <4> HIDE DEF m
        <4>2. SubSeq(st, m, Len(s)) \o SubSeq(st, Len(s) + 1, Len(st))
                 = SubSeq(st, m, Len(st))
          BY <3>2, <3>3, <4>1
        <4> QED BY <4>2 DEF m
      <3> QED BY <3>4 DEF st
    <2>2. SubSeq(s \o t, n + 1, Len(s)) = SubSeq(s, n + 1, Len(s))
      <3>1. CASE n = Len(s)
        BY <1>0, <3>1, SubSeqEmpty
      <3>2. CASE n # Len(s)
        <4>1. n + 1 \in 1..Len(s) /\ Len(s) \in 1..Len(s)
          BY <1>0, <3>2
        <4> QED BY <4>1, SubSeqOfConcat1
      <3> QED BY <3>1, <3>2
    <2> QED BY <1>2, <2>1, <2>2 DEF Rest
  <1> QED BY <1>1, <1>3

\* Where the code goes on after the instruction at its head, without an error.
Escape(todo) ==
    IF Rescues(todo) = {} THEN <<>> ELSE Rest(todo, Innermost(todo))
Onward(todo) ==
    CASE todo[1].op = "either" -> {code \o Tail(todo) : code \in todo[1].body}
      [] todo[1].op = "attempt" ->
            {code \o <<CatchOf(todo[1])>> \o Tail(todo) : code \in todo[1].body}
      [] todo[1].op = "return" -> {Escape(todo)}
      [] OTHER -> {Tail(todo)}

\* The codes, each followed by t.
Then(codes, t) == {code \o t : code \in codes}

\* Concatenation is associative.
LEMMA Regroup == \A S : \A a, b, c \in Seq(S) : (a \o b) \o c = a \o (b \o c)
  BY ConcatAssociative

\* The code that a closed set of instructions leads to is of that set.
LEMMA ClosedOnward ==
    ASSUME NEW S, Closed(S), NEW todo \in Seq(S), todo # <<>>
    PROVE  /\ Onward(todo) \subseteq Seq(S) /\ Caught(todo) \subseteq Seq(S)
           /\ Escape(todo) \in Seq(S)
  <1>1. todo[1] \in S /\ Tail(todo) \in Seq(S)
    BY TailRest
  <1>2. /\ todo[1].body \subseteq Seq(S)
        /\ todo[1].op = "attempt" => <<CatchOf(todo[1])>> \in Seq(S)
    BY <1>1 DEF Closed, IsInside
  <1>3. Rescues(todo) # {} =>
           /\ Rest(todo, Innermost(todo)) \in Seq(S)
           /\ todo[Innermost(todo)].rescue \subseteq Seq(S)
    <2> SUFFICES ASSUME Rescues(todo) # {}
                 PROVE  /\ Rest(todo, Innermost(todo)) \in Seq(S)
                        /\ todo[Innermost(todo)].rescue \subseteq Seq(S)
      OBVIOUS
    <2>1. Innermost(todo) \in 1..Len(todo) /\ Innermost(todo) \in 0..Len(todo)
      BY InnermostIsFirst, LenProperties
    <2>2. todo[Innermost(todo)] \in S
      BY <2>1, ElementOfSeq
    <2> QED BY <2>1, <2>2, Suffixes DEF Closed, IsInside
  <1>4. Escape(todo) \in Seq(S)
    BY <1>3, EmptySeq DEF Escape
  <1>5. Caught(todo) \subseteq Seq(S)
    BY <1>3, ConcatProperties DEF Caught
  <1>6. ASSUME NEW x \in Onward(todo) PROVE x \in Seq(S)
    <2>1. CASE todo[1].op = "either"
      <3>1. PICK code \in todo[1].body : x = code \o Tail(todo)
        BY <1>6, <2>1 DEF Onward
      <3> QED BY <1>1, <1>2, <3>1, ConcatProperties
    <2>2. CASE todo[1].op = "attempt"
      <3>1. PICK code \in todo[1].body : x = code \o <<CatchOf(todo[1])>> \o Tail(todo)
        BY <1>6, <2>2 DEF Onward
      <3>2. code \o <<CatchOf(todo[1])>> \in Seq(S)
        BY <1>2, <2>2, ConcatProperties
      <3> QED BY <1>1, <3>1, <3>2, ConcatProperties
    <2>3. CASE todo[1].op = "return"
      BY <1>4, <1>6, <2>3 DEF Onward
    <2>4. CASE todo[1].op \notin {"either", "attempt", "return"}
      BY <1>1, <1>6, <2>4 DEF Onward
    <2> QED BY <2>1, <2>2, <2>3, <2>4
  <1> QED BY <1>4, <1>5, <1>6

\* The rescues of a code in two parts.
LEMMA RescuesOfConcat ==
    ASSUME NEW S, NEW s \in Seq(S), NEW t \in Seq(S)
    PROVE  /\ Rescues(s \o t) = {} <=> Rescues(s) = {} /\ Rescues(t) = {}
           /\ Rescues(s) # {} =>
                 /\ Innermost(s \o t) = Innermost(s)
                 /\ (s \o t)[Innermost(s)] = s[Innermost(s)]
           /\ Rescues(s) = {} /\ Rescues(t) # {} =>
                 /\ Innermost(s \o t) = Len(s) + Innermost(t)
                 /\ (s \o t)[Len(s) + Innermost(t)] = t[Innermost(t)]
  <1> DEFINE st == s \o t
  <1>1. /\ st \in Seq(S) /\ Len(s) \in Nat /\ Len(t) \in Nat
        /\ DOMAIN s = 1..Len(s) /\ DOMAIN t = 1..Len(t)
        /\ DOMAIN st = 1..(Len(s) + Len(t))
        /\ \A j \in 1..(Len(s) + Len(t)) :
              st[j] = IF j <= Len(s) THEN s[j] ELSE t[j - Len(s)]
    BY ConcatProperties, LenProperties
  <1> HIDE DEF st
  <1>2. \A j \in 1..Len(s) : j \in DOMAIN st /\ st[j] = s[j]
    BY <1>1
  <1>3. \A j \in 1..Len(t) : Len(s) + j \in DOMAIN st /\ st[Len(s) + j] = t[j]
    <2> SUFFICES ASSUME NEW j \in 1..Len(t)
                 PROVE  Len(s) + j \in DOMAIN st /\ st[Len(s) + j] = t[j]
      OBVIOUS
    <2>1. Len(s) + j \in 1..(Len(s) + Len(t)) /\ ~ (Len(s) + j <= Len(s))
          /\ Len(s) + j - Len(s) = j
      BY <1>1
    <2> QED BY <1>1, <2>1
  <1>4. \A j \in DOMAIN st : j \in 1..Len(s) \/ (j - Len(s) \in 1..Len(t) /\ st[j] = t[j - Len(s)])
    BY <1>1
  <1>5. \A j : j \in Rescues(s) => j \in Rescues(st) /\ j \in 1..Len(s)
    BY <1>1, <1>2 DEF Rescues
  <1>6. \A j : j \in Rescues(t) => Len(s) + j \in Rescues(st) /\ j \in 1..Len(t)
    BY <1>1, <1>3 DEF Rescues
  <1>7. \A j \in Rescues(st) : /\ j \in 1..(Len(s) + Len(t))
                               /\ j \in Rescues(s) \/ (j > Len(s) /\ j - Len(s) \in Rescues(t))
    <2> SUFFICES ASSUME NEW j \in Rescues(st)
                 PROVE  /\ j \in 1..(Len(s) + Len(t))
                        /\ j \in Rescues(s) \/ (j > Len(s) /\ j - Len(s) \in Rescues(t))
      OBVIOUS
    <2>1. j \in DOMAIN st /\ st[j].op = "catch"
      BY DEF Rescues
    <2>2. CASE j \in 1..Len(s)
      BY <1>1, <1>2, <2>1, <2>2 DEF Rescues
    <2>3. CASE j - Len(s) \in 1..Len(t) /\ st[j] = t[j - Len(s)]
      BY <1>1, <2>1, <2>3 DEF Rescues
    <2> QED BY <1>4, <2>1, <2>2, <2>3
  <1>8. Rescues(st) = {} <=> Rescues(s) = {} /\ Rescues(t) = {}
    BY <1>5, <1>6, <1>7
  <1>9. ASSUME Rescues(s) # {}
        PROVE  Innermost(st) = Innermost(s) /\ st[Innermost(s)] = s[Innermost(s)]
    <2>1. /\ Innermost(s) \in Rescues(s) /\ Innermost(s) \in 1..Len(s)
          /\ \A j \in Rescues(s) : Innermost(s) <= j
      BY <1>9, InnermostIsFirst
    <2>2. /\ Innermost(st) \in Rescues(st)
          /\ \A j \in Rescues(st) : Innermost(st) <= j
      BY <1>1, <1>8, <1>9, InnermostIsFirst
    <2>3. Innermost(st) <= Innermost(s) /\ Innermost(st) \in 1..(Len(s) + Len(t))
      BY <1>5, <1>7, <2>1, <2>2
    <2>4. Innermost(st) \in Rescues(s)
      BY <1>1, <1>7, <2>1, <2>2, <2>3
    <2> QED BY <1>1, <1>2, <2>1, <2>3, <2>4
  <1>10. ASSUME Rescues(s) = {}, Rescues(t) # {}
         PROVE  /\ Innermost(st) = Len(s) + Innermost(t)
                /\ st[Len(s) + Innermost(t)] = t[Innermost(t)]
    <2>1. /\ Innermost(t) \in Rescues(t) /\ Innermost(t) \in 1..Len(t)
          /\ \A j \in Rescues(t) : Innermost(t) <= j
      BY <1>10, InnermostIsFirst
    <2>2. /\ Innermost(st) \in Rescues(st)
          /\ \A j \in Rescues(st) : Innermost(st) <= j
      BY <1>1, <1>8, <1>10, InnermostIsFirst
    <2>3. Innermost(st) <= Len(s) + Innermost(t) /\ Innermost(st) \in 1..(Len(s) + Len(t))
      BY <1>6, <1>7, <2>1, <2>2
    <2>4. Innermost(st) - Len(s) \in Rescues(t)
      BY <1>7, <1>10, <2>2
    <2>5. Innermost(t) <= Innermost(st) - Len(s)
      BY <2>1, <2>4
    <2> QED BY <1>1, <1>3, <2>1, <2>3, <2>5
  <1> QED BY <1>8, <1>9, <1>10 DEF st

\* What happens in the first part of a code leaves the second part alone,
\* unless it leaves the first part by an error or a return.
LEMMA CaughtOfConcat ==
    ASSUME NEW S, NEW s \in Seq(S), NEW t \in Seq(S),
           \A i \in S : i.rescue \subseteq Seq(S)
    PROVE  /\ Rescues(s) # {} =>
                 /\ Caught(s \o t) \subseteq Then(Caught(s), t)
                 /\ Escape(s \o t) = Escape(s) \o t
           /\ Rescues(s) = {} =>
                 /\ Caught(s \o t) = Caught(t)
                 /\ Escape(s \o t) = Escape(t)
  <1>1. ASSUME Rescues(s) # {}
        PROVE  /\ Caught(s \o t) \subseteq Then(Caught(s), t)
               /\ Escape(s \o t) = Escape(s) \o t
    <2>1. /\ Innermost(s \o t) = Innermost(s) /\ Rescues(s \o t) # {}
          /\ (s \o t)[Innermost(s)] = s[Innermost(s)]
          /\ Innermost(s) \in 1..Len(s) /\ Len(s) \in Nat
      BY <1>1, RescuesOfConcat, InnermostIsFirst, LenProperties
    <2>2. Rest(s \o t, Innermost(s)) = Rest(s, Innermost(s)) \o t
      <3>1. Innermost(s) \in 0..Len(s)
        BY <2>1
      <3> QED BY <3>1, RestOfConcat
    <2>3. Rest(s, Innermost(s)) \in Seq(S) /\ s[Innermost(s)].rescue \subseteq Seq(S)
      <3>1. Innermost(s) \in 0..Len(s)
        BY <2>1
      <3> QED BY <2>1, <3>1, Suffixes, ElementOfSeq
    <2>4. ASSUME NEW x \in Caught(s \o t) PROVE x \in Then(Caught(s), t)
      <3>1. PICK r \in s[Innermost(s)].rescue : x = r \o Rest(s \o t, Innermost(s))
        BY <2>1, <2>4 DEF Caught
      <3>2. r \o Rest(s, Innermost(s)) \in Caught(s)
        BY <1>1, <3>1 DEF Caught
      <3>3. x = (r \o Rest(s, Innermost(s))) \o t
        <4>1. r \in Seq(S)
          BY <2>3
        <4>2. (r \o Rest(s, Innermost(s))) \o t = r \o (Rest(s, Innermost(s)) \o t)
          BY <2>3, <4>1, Regroup
        <4> QED BY <2>2, <3>1, <4>2
      <3> QED BY <3>2, <3>3 DEF Then
    <2>5. Escape(s \o t) = Escape(s) \o t
      BY <1>1, <2>1, <2>2 DEF Escape
    <2> QED BY <2>4, <2>5
  <1>2. ASSUME Rescues(s) = {}
        PROVE  Caught(s \o t) = Caught(t) /\ Escape(s \o t) = Escape(t)
    <2>1. CASE Rescues(t) = {}
      BY <1>2, <2>1, RescuesOfConcat DEF Caught, Escape
    <2>2. CASE Rescues(t) # {}
      <3>1. /\ Innermost(s \o t) = Len(s) + Innermost(t) /\ Rescues(s \o t) # {}
            /\ (s \o t)[Innermost(s \o t)] = t[Innermost(t)]
            /\ Innermost(t) \in 0..Len(t)
        BY <1>2, <2>2, RescuesOfConcat, InnermostIsFirst, LenProperties
      <3>2. Rest(s \o t, Innermost(s \o t)) = Rest(t, Innermost(t))
        BY <3>1, RestOfConcat
      <3> QED BY <2>2, <3>1, <3>2 DEF Caught, Escape
    <2> QED BY <2>1, <2>2
  <1> QED BY <1>1, <1>2

\* Where two parts of code lead: the first part leads where it would alone, but
\* for an early return out of it, which the second part may catch.
LEMMA OnwardOfConcat ==
    ASSUME NEW S, NEW s \in Seq(S), NEW t \in Seq(S), Closed(S), s # <<>>
    PROVE  /\ s \o t # <<>> /\ (s \o t)[1] = s[1]
           /\ \A x \in Onward(s \o t) :
                 \/ x \in Then(Onward(s), t)
                 \/ s[1].op = "return" /\ Rescues(s) = {} /\ x = Escape(t)
  <1>1. /\ Len(s) \in Nat /\ Len(s) >= 1 /\ s[1] \in S
        /\ Tail(s) = Rest(s, 1) /\ Tail(s) \in Seq(S)
    BY TailRest
  <1>2. s \o t # <<>> /\ (s \o t)[1] = s[1]
    <2>1. /\ Len(s \o t) = Len(s) + Len(t) /\ Len(t) \in Nat
          /\ \A i \in 1..(Len(s) + Len(t)) :
                (s \o t)[i] = IF i <= Len(s) THEN s[i] ELSE t[i - Len(s)]
      BY ConcatProperties, LenProperties
    <2>2. (s \o t)[1] = s[1]
      BY <1>1, <2>1
    <2>3. s \o t # <<>>
      BY ConcatEqualIffEmpty
    <2> QED BY <2>2, <2>3
  <1>3. Tail(s \o t) = Tail(s) \o t
    <2>1. s \o t \in Seq(S)
      BY ConcatProperties
    <2>2. Tail(s \o t) = Rest(s \o t, 1)
      BY <1>2, <2>1, TailRest
    <2>3. 1 \in 0..Len(s)
      BY <1>1
    <2>4. Rest(s \o t, 1) = Rest(s, 1) \o t
      BY <2>3, RestOfConcat
    <2> QED BY <1>1, <2>2, <2>4
  <1>4. /\ s[1].body \subseteq Seq(S) /\ \A i \in S : i.rescue \subseteq Seq(S)
        /\ s[1].op = "attempt" => <<CatchOf(s[1])>> \in Seq(S)
    BY <1>1 DEF Closed, IsInside
  <1>5. ASSUME NEW x \in Onward(s \o t)
        PROVE  \/ x \in Then(Onward(s), t)
               \/ s[1].op = "return" /\ Rescues(s) = {} /\ x = Escape(t)
    <2>1. CASE s[1].op = "either"
      <3>1. PICK code \in s[1].body : x = code \o (Tail(s) \o t)
        BY <1>2, <1>3, <1>5, <2>1 DEF Onward
      <3>2. x = (code \o Tail(s)) \o t
        <4>1. code \in Seq(S)
          BY <1>4
        <4>2. (code \o Tail(s)) \o t = code \o (Tail(s) \o t)
          BY <1>1, <4>1, Regroup
        <4> QED BY <3>1, <4>2
      <3> QED BY <2>1, <3>2 DEF Onward, Then
    <2>2. CASE s[1].op = "attempt"
      <3>1. PICK code \in s[1].body : x = (code \o <<CatchOf(s[1])>>) \o (Tail(s) \o t)
        BY <1>2, <1>3, <1>5, <2>2 DEF Onward
      <3>2. code \o <<CatchOf(s[1])>> \in Seq(S)
        BY <1>4, <2>2, ConcatProperties
      <3>3. x = ((code \o <<CatchOf(s[1])>>) \o Tail(s)) \o t
        <4> DEFINE body == code \o <<CatchOf(s[1])>>
        <4>1. body \in Seq(S) /\ Tail(s) \in Seq(S)
          BY <1>1, <3>2
        <4> HIDE DEF body
        <4>2. (body \o Tail(s)) \o t = body \o (Tail(s) \o t)
          BY <4>1, Regroup
        <4> QED BY <3>1, <4>2 DEF body
      <3> QED BY <2>2, <3>3 DEF Onward, Then
    <2>3. CASE s[1].op = "return"
      <3>1. x = Escape(s \o t)
        BY <1>2, <1>5, <2>3 DEF Onward
      <3>2. Escape(s) \in Onward(s)
        BY <2>3 DEF Onward
      <3>3. Rescues(s) # {} => Escape(s \o t) = Escape(s) \o t
        BY <1>4, CaughtOfConcat
      <3>4. Rescues(s) = {} => Escape(s \o t) = Escape(t)
        BY <1>4, CaughtOfConcat
      <3> QED BY <2>3, <3>1, <3>2, <3>3, <3>4 DEF Then
    <2>4. CASE s[1].op \notin {"either", "attempt", "return"}
      BY <1>2, <1>3, <1>5, <2>4 DEF Onward, Then
    <2> QED BY <2>1, <2>2, <2>3, <2>4
  <1> QED BY <1>2, <1>5

\* A code taken apart at position n.
LEMMA Split ==
    ASSUME NEW S, NEW s \in Seq(S), NEW n \in 0..Len(s)
    PROVE  /\ SubSeq(s, 1, n) \in Seq(S) /\ Rest(s, n) \in Seq(S)
           /\ s = SubSeq(s, 1, n) \o Rest(s, n)
  <1>1. /\ Len(s) \in Nat /\ n \in Nat /\ n <= Len(s) /\ Rest(s, n) \in Seq(S)
        /\ \A j \in 1..Len(s) : s[j] \in S
    BY Suffixes, LenProperties, ElementOfSeq
  <1>2. SubSeq(s, 1, n) \in Seq(S)
    <2>1. \A j \in 1..n : s[j] \in S
      BY <1>1
    <2> QED BY <1>1, <2>1, SubSeqProperties
  <1>3. SubSeq(s, 1, n) \o SubSeq(s, n + 1, Len(s)) = SubSeq(s, 1, Len(s))
    <2>1. /\ 1 \in 1..(Len(s) + 1) /\ n \in (1 - 1)..Len(s) /\ Len(s) \in n..Len(s)
      BY <1>1
    <2> QED BY <2>1, ConcatAdjacentSubSeq
  <1>4. SubSeq(s, 1, Len(s)) = s
    BY SubSeqFull
  <1> QED BY <1>1, <1>2, <1>3, <1>4 DEF Rest

\* Such a rest begins with the instruction after n.
LEMMA SplitAt ==
    ASSUME NEW S, NEW s \in Seq(S), NEW n \in 1..Len(s)
    PROVE  /\ SubSeq(s, 1, n - 1) \in Seq(S) /\ Rest(s, n) \in Seq(S) /\ s[n] \in S
           /\ s = SubSeq(s, 1, n - 1) \o (<<s[n]>> \o Rest(s, n))
  <1>1. /\ n \in 0..Len(s) /\ n - 1 \in 0..Len(s) /\ Len(s) \in Nat /\ s[n] \in S
    BY LenProperties, ElementOfSeq
  <1>2. /\ SubSeq(s, 1, n - 1) \in Seq(S) /\ Rest(s, n) \in Seq(S)
        /\ s = SubSeq(s, 1, n - 1) \o Rest(s, n - 1) /\ Rest(s, n - 1) \in Seq(S)
    BY <1>1, Split
  <1>3. Rest(s, n - 1) = <<s[n]>> \o Rest(s, n)
    <2> DEFINE r == Rest(s, n - 1)
    <2>1. /\ r \in Seq(S) /\ Len(r) = Len(s) - (n - 1)
          /\ \A j \in 1..(Len(s) - (n - 1)) : r[j] = s[n - 1 + j]
      BY <1>1, Suffixes
    <2>2. /\ Rest(s, n) \in Seq(S) /\ Len(Rest(s, n)) = Len(s) - n
          /\ \A j \in 1..(Len(s) - n) : Rest(s, n)[j] = s[n + j]
      BY <1>1, Suffixes
    <2> DEFINE t == <<s[n]>> \o Rest(s, n)
    <2>3. /\ t \in Seq(S) /\ Len(t) = 1 + (Len(s) - n)
          /\ \A j \in 1..(1 + (Len(s) - n)) :
                t[j] = IF j <= 1 THEN s[n] ELSE Rest(s, n)[j - 1]
      <3>1. <<s[n]>> \in Seq(S) /\ Len(<<s[n]>>) = 1 /\ <<s[n]>>[1] = s[n]
        BY <1>1
      <3> DEFINE a == <<s[n]>>
      <3>2. /\ a \o Rest(s, n) \in Seq(S) /\ Len(a \o Rest(s, n)) = Len(a) + Len(Rest(s, n))
            /\ \A i \in 1..(Len(a) + Len(Rest(s, n))) :
                  (a \o Rest(s, n))[i] = IF i <= Len(a) THEN a[i] ELSE Rest(s, n)[i - Len(a)]
        <4> HIDE DEF a
        <4> QED BY <2>2, <3>1, ConcatProperties DEF a
      <3>3. \A j : j \in 1..(1 + (Len(s) - n)) /\ j <= 1 => j = 1
        BY <1>1
      <3> QED BY <2>2, <3>1, <3>2, <3>3
    <2> HIDE DEF r, t
    <2>4. Len(r) = Len(t) /\ \A j \in 1..Len(r) : r[j] = t[j]
      <3>1. Len(r) = Len(t)
        BY <1>1, <2>1, <2>3
      <3>2. ASSUME NEW j \in 1..Len(r) PROVE r[j] = t[j]
        <4>1. CASE j = 1
          BY <1>1, <2>1, <2>3, <4>1
        <4>2. CASE j # 1
          <5>1. /\ j \in 1..(Len(s) - (n - 1)) /\ j \in 1..(1 + (Len(s) - n))
                /\ ~ (j <= 1) /\ j - 1 \in 1..(Len(s) - n) /\ n + (j - 1) = n - 1 + j
            BY <1>1, <2>1, <4>2
          <5> QED BY <2>1, <2>2, <2>3, <5>1
        <4> QED BY <4>1, <4>2
      <3> QED BY <3>1, <3>2
    <2>5. r = t
      BY <2>1, <2>3, <2>4, SeqEqual
    <2> QED BY <2>5 DEF r, t
  <1> QED BY <1>1, <1>2, <1>3

\* Code of one instruction.
LEMMA Single ==
    ASSUME NEW S, NEW l \in S, l.op # "catch"
    PROVE  /\ <<l>> \in Seq(S) /\ Rescues(<<l>>) = {} /\ Caught(<<l>>) = {}
           /\ Escape(<<l>>) = <<>> /\ Tail(<<l>>) = <<>> /\ <<l>>[1] = l
  <1>1. Rescues(<<l>>) = {}
    BY DEF Rescues
  <1> QED BY <1>1 DEF Caught, Escape

\* Code that begins with an instruction i.
LEMMA Cons ==
    ASSUME NEW S, NEW i \in S, NEW post \in Seq(S)
    PROVE  /\ <<i>> \o post \in Seq(S) /\ <<i>> \o post # <<>>
           /\ (<<i>> \o post)[1] = i /\ Tail(<<i>> \o post) = post
           /\ Rest(<<i>> \o post, 1) = post
           /\ 1 \in DOMAIN (<<i>> \o post)
  <1> DEFINE a == <<i>>
  <1>1. a \in Seq(S) /\ Len(a) = 1 /\ a[1] = i
    OBVIOUS
  <1> HIDE DEF a
  <1>2. /\ a \o post \in Seq(S) /\ Len(a \o post) = 1 + Len(post) /\ Len(post) \in Nat
        /\ \A j \in 1..(Len(a) + Len(post)) :
              (a \o post)[j] = IF j <= Len(a) THEN a[j] ELSE post[j - Len(a)]
    BY <1>1, ConcatProperties, LenProperties
  <1>3. (a \o post)[1] = i /\ 1 \in DOMAIN (a \o post)
    <2>1. 1 \in 1..(Len(a) + Len(post)) /\ 1 <= Len(a)
      BY <1>1, <1>2
    <2>2. DOMAIN (a \o post) = 1..Len(a \o post)
      BY <1>2, LenProperties
    <2> QED BY <1>1, <1>2, <2>1, <2>2
  <1>4. a \o post # <<>>
    BY <1>2, EmptySeq
  <1>5. Rest(a \o post, 1) = post
    <2>1. Rest(a \o post, Len(a) + 0) = Rest(post, 0)
      <3>1. 0 \in 0..Len(post)
        BY <1>2
      <3> QED BY <1>1, <3>1, RestOfConcat
    <2>2. Rest(post, 0) = post
      BY SubSeqFull DEF Rest
    <2> QED BY <1>1, <2>1, <2>2
  <1>6. Tail(a \o post) = post
    BY <1>2, <1>4, <1>5, TailRest
  <1> QED BY <1>2, <1>3, <1>4, <1>5, <1>6 DEF a

\* Code that begins with the end of a body.
LEMMA CatchFirst ==
    ASSUME NEW S, NEW i \in S, i.op = "catch", NEW post \in Seq(S)
    PROVE  /\ Rescues(<<i>> \o post) # {} /\ Escape(<<i>> \o post) = post
           /\ Caught(<<i>> \o post) = Then(i.rescue, post)
  <1> DEFINE todo == <<i>> \o post
  <1>1. /\ todo \in Seq(S) /\ todo[1] = i /\ Rest(todo, 1) = post /\ 1 \in DOMAIN todo
    BY Cons
  <1> HIDE DEF todo
  <1>2. 1 \in Rescues(todo)
    BY <1>1 DEF Rescues
  <1>3. Innermost(todo) = 1
    <2>1. Innermost(todo) \in 1..Len(todo) /\ Innermost(todo) <= 1
      BY <1>1, <1>2, InnermostIsFirst
    <2>2. Len(todo) \in Nat
      BY <1>1, LenProperties
    <2> QED BY <2>1, <2>2
  <1> QED BY <1>1, <1>2, <1>3 DEF Escape, Caught, Then, todo

\* Code taken apart behind its first instruction.
LEMMA Uncons ==
    ASSUME NEW S, NEW s \in Seq(S), s # <<>>
    PROVE  /\ s[1] \in S /\ Tail(s) \in Seq(S) /\ s = <<s[1]>> \o Tail(s)
           /\ Len(Tail(s)) = Len(s) - 1 /\ Len(s) \in Nat
           /\ \A j \in 1..(Len(s) - 1) : Tail(s)[j] = s[1 + j]
  <1>1. /\ Tail(s) = Rest(s, 1) /\ 1 \in 1..Len(s) /\ 1 \in 0..Len(s) /\ Len(s) \in Nat
    BY TailRest
  <1>2. /\ Rest(s, 1) \in Seq(S) /\ Len(Rest(s, 1)) = Len(s) - 1
        /\ \A j \in 1..(Len(s) - 1) : Rest(s, 1)[j] = s[1 + j]
    BY <1>1, Suffixes
  <1>3. /\ Rest(s, 1) \in Seq(S) /\ s[1] \in S
        /\ s = SubSeq(s, 1, 1 - 1) \o (<<s[1]>> \o Rest(s, 1))
    BY <1>1, SplitAt
  <1>4. SubSeq(s, 1, 1 - 1) = <<>>
    BY SubSeqEmpty
  <1> DEFINE e == <<s[1]>> \o Rest(s, 1)
  <1>5. e \in Seq(S) /\ s = <<>> \o e
    BY <1>3, <1>4, Cons
  <1> HIDE DEF e
  <1>6. s = e
    BY <1>5, ConcatEmptySeq
  <1> QED BY <1>1, <1>2, <1>3, <1>6 DEF e

-----------------------------------------------------------------------------
(* 2. What a step does to a call.                                           *)

\* The fields of a call.
Fields == {"name", "status", "todo", "cancelled", "cleared", "asked", "owed",
           "changed", "last"}
IsCall(c) ==
    /\ c = [f \in Fields |-> c[f]]
    /\ c.cleared \in BOOLEAN

\* What a step leaves alone unless it runs an instruction.
Still(c, d) ==
    /\ d.name = c.name /\ d.todo = c.todo
    /\ d.owed = c.owed /\ d.changed = c.changed /\ d.last = c.last

Fresh(c) == c.owed = {} /\ c.changed = {} /\ c.last = Nothing

Permitted(kind) == kind \in Services \/ kind \notin client.Denied

\* The change of the request at the head was made, and its answer lost.
LostChange(c, d) ==
    /\ Changes(c.todo[1])
    /\ d.changed = c.changed \cup {<<c.todo[1].verb, c.todo[1].kind>>}
    /\ d.last.lost /\ d.last.verb = c.todo[1].verb /\ d.last.kind = c.todo[1].kind

\* The instruction at the head was run: the code goes on, or it fails.
Proceeds(c, d) ==
    /\ d.status = "running" /\ d.todo \in Onward(c.todo)
    /\ c.todo[1].op # "fail"
    /\ Changes(c.todo[1]) /\ CanFail(c.todo[1]) =>
          <<c.todo[1].verb, c.todo[1].kind>> \in d.changed
Errs(c, d) ==
    /\ CanFail(c.todo[1]) /\ d.owed = c.owed
    /\ d.changed = c.changed \/ LostChange(c, d)
    /\ \/ Rescues(c.todo) = {} /\ d.todo = <<>> /\ d.status = "failed"
       \/ /\ Rescues(c.todo) # {} /\ d.todo \in Caught(c.todo)
          /\ d.status = "running"
Ran(c, d) ==
    /\ c.status = "running" /\ c.todo # <<>> /\ d.name = c.name
    /\ Proceeds(c, d) \/ Errs(c, d)
    /\ d.last = c.last \/ (IsRequest(c.todo[1]) /\ d.last.kind = c.todo[1].kind)
    /\ \/ d.changed = c.changed
       \/ /\ Changes(c.todo[1])
          /\ d.changed = c.changed \cup {<<c.todo[1].verb, c.todo[1].kind>>}
    /\ \/ d.owed = c.owed
       \/ /\ c.todo[1].op = "temporary" /\ Permitted(c.todo[1].kind)
          /\ d.owed = c.owed \cup {c.todo[1].kind}
       \/ c.todo[1].op = "cleanup" /\ d.owed = c.owed \ {c.todo[1].kind}
    /\ (/\ c.todo[1].op = "cleanup" /\ c.todo[1].verb = "delete"
        /\ Permitted(c.todo[1].kind) /\ ~ Needs(c.todo[1]))
          => d.owed = c.owed \ {c.todo[1].kind}

Begins(d, item) ==
    /\ Fresh(d) /\ d.name = item.name /\ d.todo = Check \o item.code
    /\ d.status \in {"running", "confirming"}

\* Every step of a call is one of these.
Moves(c, d) ==
    \/ Still(c, d) /\ d.status = c.status
    \/ Still(c, d) /\ c.status = "confirming" /\ d.status = "running"
    \/ Still(c, d) /\ c.status = "running" /\ c.todo = <<>> /\ d.status = "done"
    \/ /\ c.status = "confirming" /\ d.status = "failed" /\ d.todo = <<>>
       /\ d.name = c.name /\ Fresh(d)
    \/ Ran(c, d)

Base ==
    /\ IsCall(call) /\ client \in Settings
    /\ call.status \in {"idle", "confirming"} => Fresh(call)
    /\ call.status \in {"done", "failed"} => call.todo = <<>>

Alike(c, d) == Still(c, d) /\ d.status = c.status

\* Taking a clearance back changes nothing else.
LEMMA UnclearFields ==
    ASSUME NEW c, IsCall(c)
    PROVE  IsCall(Unclear(c)) /\ Alike(c, Unclear(c)) /\ ~ Unclear(c).cleared
  BY DEF IsCall, Fields, Unclear, Alike, Still

\* Advance drops the head of the code and the clearance.
LEMMA AdvanceFields ==
    ASSUME NEW c, IsCall(c)
    PROVE  /\ IsCall(Advance(c)) /\ Advance(c).todo = Tail(c.todo)
           /\ Advance(c).name = c.name /\ Advance(c).status = c.status
           /\ Advance(c).owed = c.owed /\ Advance(c).changed = c.changed
           /\ Advance(c).last = c.last /\ ~ Advance(c).cleared
  <1>1. IsCall(Unclear(c)) /\ Alike(c, Unclear(c)) /\ ~ Unclear(c).cleared
    BY UnclearFields
  <1> QED BY <1>1 DEF IsCall, Fields, Advance, Alike, Still

\* d is c after an error.
Erred(c, d) ==
    /\ d.name = c.name /\ d.owed = c.owed /\ d.changed = c.changed /\ d.last = c.last
    /\ \/ Rescues(c.todo) = {} /\ d.todo = <<>> /\ d.status = "failed"
       \/ Rescues(c.todo) # {} /\ d.todo \in Caught(c.todo) /\ d.status = c.status

\* An error leads to a rescue or ends the call.
LEMMA AfterErrorFields ==
    ASSUME NEW c, IsCall(c), NEW d \in AfterError(c)
    PROVE  IsCall(d) /\ Erred(c, d) /\ d.cleared = c.cleared
  <1>1. CASE Rescues(c.todo) = {}
    BY <1>1 DEF IsCall, Fields, AfterError, Erred
  <1>2. CASE Rescues(c.todo) # {}
    <2>1. PICK todo \in Caught(c.todo) : d = [c EXCEPT !.todo = todo]
      BY <1>2 DEF AfterError
    <2> QED BY <1>2, <2>1 DEF IsCall, Fields, Erred
  <1> QED BY <1>1, <1>2

\* d is c after a request that failed, or was not sent.
Failed(c, d) ==
    \/ /\ IsBestEffort(c.todo[1])
       /\ d.todo = Tail(c.todo) /\ d.status = c.status
       /\ d.name = c.name /\ d.owed = c.owed /\ d.changed = c.changed /\ d.last = c.last
    \/ ~ IsBestEffort(c.todo[1]) /\ Erred(c, d)

\* A request that fails is passed over or raises an error.
LEMMA RequestFailsFields ==
    ASSUME NEW c, IsCall(c), NEW d \in RequestFails(c)
    PROVE  IsCall(d) /\ Failed(c, d) /\ ~ d.cleared
  <1>1. CASE IsBestEffort(c.todo[1])
    BY <1>1, AdvanceFields DEF RequestFails, Failed
  <1>2. CASE ~ IsBestEffort(c.todo[1])
    <2>1. IsCall(Unclear(c)) /\ Alike(c, Unclear(c)) /\ ~ Unclear(c).cleared
      BY UnclearFields
    <2>2. IsCall(d) /\ Erred(Unclear(c), d) /\ d.cleared = Unclear(c).cleared
      BY <1>2, <2>1, AfterErrorFields DEF RequestFails
    <2> QED BY <1>2, <2>1, <2>2 DEF Erred, Alike, Still, Failed
  <1> QED BY <1>1, <1>2

\* Settle writes off what a removal removes.
LEMMA SettleFields ==
    ASSUME NEW c, IsCall(c)
    PROVE  /\ IsCall(Settle(c))
           /\ Settle(c).todo = c.todo /\ Settle(c).name = c.name
           /\ Settle(c).status = c.status
           /\ Settle(c).changed = c.changed /\ Settle(c).last = c.last
           /\ c.todo[1].op = "cleanup" => Settle(c).owed = c.owed \ {c.todo[1].kind}
           /\ c.todo[1].op # "cleanup" => Settle(c).owed = c.owed
  BY DEF IsCall, Fields, Settle

\* Sent records the request and changes nothing in the cluster.
LEMMA SentFields ==
    ASSUME NEW c, IsCall(c), NEW lost
    PROVE  /\ IsCall(Sent(c, lost))
           /\ Sent(c, lost).todo = c.todo /\ Sent(c, lost).name = c.name
           /\ Sent(c, lost).status = c.status /\ Sent(c, lost).changed = c.changed
           /\ Sent(c, lost).owed = Settle(c).owed
           /\ Sent(c, lost).last.kind = c.todo[1].kind
           /\ Sent(c, lost).last.verb = c.todo[1].verb
           /\ Sent(c, lost).last.lost = lost
  <1>1. /\ IsCall(Settle(c)) /\ Settle(c).todo = c.todo /\ Settle(c).name = c.name
        /\ Settle(c).status = c.status /\ Settle(c).changed = c.changed
    BY SettleFields
  <1> DEFINE sent == [op |-> c.todo[1].op, verb |-> c.todo[1].verb,
                      kind |-> c.todo[1].kind,
                      cleared |-> c.cleared /\ c.asked = c.todo,
                      lost |-> lost]
  <1>2. sent.kind = c.todo[1].kind /\ sent.verb = c.todo[1].verb /\ sent.lost = lost
    OBVIOUS
  <1>3. Sent(c, lost) = [Settle(c) EXCEPT !.last = sent]
    BY DEF Sent
  <1> HIDE DEF sent
  <1> QED BY <1>1, <1>2, <1>3 DEF IsCall, Fields

\* A lost answer: what was sent, and its change.
LEMMA LostFields ==
    ASSUME NEW c, IsCall(c)
    PROVE  LET b == AnswerLost(c) IN
           /\ IsCall(b) /\ b.todo = c.todo /\ b.name = c.name /\ b.status = c.status
           /\ b.owed = Settle(c).owed /\ b.last = Sent(c, TRUE).last
           /\ Persists(c.todo[1]) =>
                 b.changed = c.changed \cup {<<c.todo[1].verb, c.todo[1].kind>>}
           /\ ~ Persists(c.todo[1]) => b.changed = c.changed
  <1> DEFINE a == Sent(c, TRUE)
  <1>1. /\ IsCall(a) /\ a.todo = c.todo /\ a.name = c.name /\ a.status = c.status
        /\ a.owed = Settle(c).owed
    BY SentFields
  <1>2. AnswerLost(c) = [a EXCEPT !.changed = Change(c)]
    BY DEF AnswerLost
  <1> HIDE DEF a
  <1>3. /\ IsCall(AnswerLost(c)) /\ AnswerLost(c).changed = Change(c)
        /\ AnswerLost(c).todo = a.todo /\ AnswerLost(c).name = a.name
        /\ AnswerLost(c).status = a.status /\ AnswerLost(c).owed = a.owed
        /\ AnswerLost(c).last = a.last
    BY <1>1, <1>2 DEF IsCall, Fields
  <1> QED BY <1>1, <1>3 DEF Change, a

\* Effect is what an accepted request does to the call's accounts.
LEMMA EffectFields ==
    ASSUME NEW c, IsCall(c)
    PROVE  /\ IsCall(Effect(c))
           /\ Effect(c).todo = Tail(c.todo) /\ Effect(c).name = c.name
           /\ Effect(c).status = c.status /\ Effect(c).last = c.last
           /\ ~ Effect(c).cleared
           /\ IsTemporary(c.todo[1]) => Effect(c).owed = c.owed \cup {c.todo[1].kind}
           /\ ~ IsTemporary(c.todo[1]) => Effect(c).owed = c.owed
           /\ Persists(c.todo[1]) => Effect(c).changed =
                 c.changed \cup {<<c.todo[1].verb, c.todo[1].kind>>}
           /\ ~ Persists(c.todo[1]) => Effect(c).changed = c.changed
  BY AdvanceFields DEF IsCall, Fields, Effect, Change

\* A request at the head that is not sent: only the code moves on.
LEMMA NotSent ==
    ASSUME NEW c, NEW d, Failed(c, d),
           c.status = "running", c.todo # <<>>, IsRequest(c.todo[1]),
           (/\ c.todo[1].op = "cleanup" /\ c.todo[1].verb = "delete"
            /\ Permitted(c.todo[1].kind) /\ ~ Needs(c.todo[1])) => FALSE
    PROVE  Ran(c, d)
  <1>1. /\ d.last = c.last /\ d.changed = c.changed /\ d.owed = c.owed /\ d.name = c.name
    BY DEF Failed, Erred
  <1>2. CASE IsBestEffort(c.todo[1])
    <2>1. d.todo \in Onward(c.todo)
      BY <1>2 DEF Failed, Onward, IsRequest, Requests
    <2>2. c.todo[1].op # "fail" /\ ~ CanFail(c.todo[1])
      BY <1>2 DEF CanFail, IsRequest, Requests
    <2>3. Proceeds(c, d)
      BY <1>2, <2>1, <2>2 DEF Proceeds, Failed
    <2> QED BY <1>1, <2>3 DEF Ran
  <1>3. CASE ~ IsBestEffort(c.todo[1])
    <2>1. Errs(c, d)
      BY <1>3 DEF Failed, Errs, Erred, CanFail
    <2> QED BY <1>1, <2>1 DEF Ran
  <1> QED BY <1>2, <1>3

\* A request at the head that got as far as the validators or the server.
LEMMA SettledFails ==
    ASSUME NEW c, NEW b, NEW d, Failed(b, d),
           c.status = "running", c.todo # <<>>, IsRequest(c.todo[1]),
           b.todo = c.todo, b.name = c.name, b.status = c.status,
           b.changed = c.changed \/ LostChange(c, b), b.owed = Settle(c).owed,
           b.last = c.last \/ b.last.kind = c.todo[1].kind,
           IsCall(c)
    PROVE  Ran(c, d)
  <1>1. /\ c.todo[1].op = "cleanup" => b.owed = c.owed \ {c.todo[1].kind}
        /\ c.todo[1].op # "cleanup" => b.owed = c.owed
    BY SettleFields
  <1>2. /\ d.last = b.last /\ d.changed = b.changed /\ d.owed = b.owed /\ d.name = c.name
        /\ d.changed = c.changed \/ LostChange(c, d)
    BY DEF Failed, Erred, LostChange
  <1>3. CASE IsBestEffort(c.todo[1])
    <2>1. d.todo \in Onward(c.todo)
      BY <1>3 DEF Failed, Onward, IsRequest, Requests
    <2>2. c.todo[1].op # "fail" /\ ~ CanFail(c.todo[1])
      BY <1>3 DEF CanFail, IsRequest, Requests
    <2>3. Proceeds(c, d)
      BY <1>3, <2>1, <2>2 DEF Proceeds, Failed
    <2> QED BY <1>1, <1>2, <2>3 DEF Ran, LostChange
  <1>4. CASE ~ IsBestEffort(c.todo[1])
    <2>1. c.todo[1].op # "cleanup"
      BY <1>4 DEF IsBestEffort
    <2>2. Errs(c, d)
      BY <1>1, <1>2, <1>4, <2>1 DEF Failed, Errs, Erred, CanFail
    <2> QED BY <1>1, <1>2, <2>1, <2>2 DEF Ran, LostChange
  <1> QED BY <1>3, <1>4

\* Sending a request, accepted or refused, is a way to run on.
LEMMA SendRuns ==
    ASSUME Base, Send
    PROVE  IsCall(call') /\ Ran(call, call')
  <1>1. /\ call.status = "running" /\ call.todo # <<>> /\ IsRequest(call.todo[1])
        /\ Permitted(call.todo[1].kind) /\ IsCall(call)
    BY DEF Base, Send, CanRequest, Running, Head1, IsRequest, Blocked, isAllowed, Permitted
  <1>2. /\ IsCall(Sent(call, FALSE)) /\ Sent(call, FALSE).todo = call.todo /\ Sent(call, FALSE).name = call.name
        /\ Sent(call, FALSE).status = call.status /\ Sent(call, FALSE).changed = call.changed
        /\ Sent(call, FALSE).owed = Settle(call).owed /\ Sent(call, FALSE).last.kind = call.todo[1].kind
    BY <1>1, SentFields
  <1>3. CASE call' \in RequestFails(Sent(call, FALSE))
    <2>1. IsCall(call') /\ Failed(Sent(call, FALSE), call')
      BY <1>2, <1>3, RequestFailsFields
    <2> QED BY <1>1, <1>2, <2>1, SettledFails
  <1>4. CASE call' = Effect(Sent(call, FALSE))
    <2> DEFINE c == Sent(call, FALSE)
               head == call.todo[1]
    <2>1. /\ IsCall(call') /\ call'.todo = Tail(call.todo) /\ call'.name = call.name
          /\ call'.status = "running" /\ call'.last.kind = head.kind
          /\ IsTemporary(head) => call'.owed = c.owed \cup {head.kind}
          /\ ~ IsTemporary(head) => call'.owed = c.owed
          /\ Persists(head) => call'.changed = call.changed \cup {<<head.verb, head.kind>>}
          /\ ~ Persists(head) => call'.changed = call.changed
      <3>1. /\ IsCall(c) /\ c.todo = call.todo /\ c.name = call.name
            /\ c.status = "running" /\ c.changed = call.changed
            /\ c.last.kind = head.kind /\ call' = Effect(c)
        BY <1>1, <1>2, <1>4
      <3> HIDE DEF c
      <3> QED BY <3>1, EffectFields
    <2>2. /\ head.op = "cleanup" => c.owed = call.owed \ {head.kind}
          /\ head.op # "cleanup" => c.owed = call.owed
      BY <1>1, <1>2, SettleFields
    <2>3. call'.todo \in Onward(call.todo) /\ head.op # "fail"
      BY <1>1, <2>1 DEF Onward, IsRequest, Requests
    <2>4. Proceeds(call, call')
      BY <1>1, <2>1, <2>3 DEF Proceeds, Changes
    <2>5. \/ call'.owed = call.owed
          \/ head.op = "temporary" /\ call'.owed = call.owed \cup {head.kind}
          \/ head.op = "cleanup" /\ call'.owed = call.owed \ {head.kind}
      BY <2>1, <2>2 DEF IsTemporary
    <2>6. head.op = "cleanup" => call'.owed = call.owed \ {head.kind}
      BY <2>1, <2>2 DEF IsTemporary
    <2>7. \/ call'.changed = call.changed
          \/ /\ Changes(head)
             /\ call'.changed = call.changed \cup {<<head.verb, head.kind>>}
      BY <1>1, <2>1 DEF Changes
    <2> QED BY <1>1, <2>1, <2>4, <2>5, <2>6, <2>7 DEF Ran
  <1>5. CASE call' \in RequestFails(AnswerLost(call))
    <2> DEFINE b == AnswerLost(call)
    <2>1. /\ IsCall(b) /\ b.todo = call.todo /\ b.name = call.name
          /\ b.status = call.status /\ b.owed = Settle(call).owed
          /\ b.last = Sent(call, TRUE).last
          /\ Persists(call.todo[1]) => b.changed =
                call.changed \cup {<<call.todo[1].verb, call.todo[1].kind>>}
          /\ ~ Persists(call.todo[1]) => b.changed = call.changed
      BY <1>1, LostFields
    <2>2. /\ Sent(call, TRUE).last.kind = call.todo[1].kind
          /\ Sent(call, TRUE).last.verb = call.todo[1].verb
          /\ Sent(call, TRUE).last.lost
      BY <1>1, SentFields
    <2> HIDE DEF b
    <2>3. b.changed = call.changed \/ LostChange(call, b)
      BY <1>1, <2>1, <2>2 DEF LostChange, Changes
    <2>4. IsCall(call') /\ Failed(b, call')
      BY <1>5, <2>1, RequestFailsFields DEF b
    <2> QED BY <1>1, <2>1, <2>2, <2>3, <2>4, SettledFails
  <1> QED BY <1>3, <1>4, <1>5 DEF Send

\* An instruction that is no request and no error: only the code changes.
LEMMA ControlRuns ==
    ASSUME Base, NEW todo \in Onward(call.todo), Running,
           call' = [call EXCEPT !.todo = todo],
           call.todo[1].op \notin Requests \cup {"fail"}
    PROVE  IsCall(call') /\ Ran(call, call')
  <1>1. /\ call.status = "running" /\ call.todo # <<>> /\ IsCall(call)
        /\ ~ IsRequest(call.todo[1])
    BY DEF Base, Running, IsRequest
  <1>2. /\ IsCall(call') /\ call'.todo = todo /\ call'.name = call.name
        /\ call'.status = "running" /\ call'.owed = call.owed
        /\ call'.changed = call.changed /\ call'.last = call.last
    BY <1>1 DEF IsCall, Fields
  <1>3. Proceeds(call, call')
    BY <1>1, <1>2 DEF Proceeds, Changes
  <1>4. call.todo[1].op # "cleanup"
    BY DEF Requests
  <1> QED BY <1>1, <1>2, <1>3, <1>4 DEF Ran

\* What Enter leaves behind a body is the catch of its attempt.
LEMMA CatchIs == \A i : Instr("catch", "", "", {}, i.rescue) = <<CatchOf(i)>>
  BY DEF CatchOf, Instr

\* Every step of a running call runs its code on or leaves the code alone.
LEMMA StepRuns ==
    ASSUME Base,
           \/ RequestBlocked \/ ValidatorRefuses \/ Confirm \/ WindowsEULAValidator
           \/ Send \/ Choose \/ Enter \/ Leave \/ ReturnError \/ ReturnEarly
    PROVE  /\ IsCall(call') /\ UNCHANGED <<config, client>>
           /\ Ran(call, call') \/ Alike(call, call')
  <1>0. IsCall(call)
    BY DEF Base
  <1>1. UNCHANGED <<config, client>>
    BY DEF RequestBlocked, ValidatorRefuses, Confirm, WindowsEULAValidator,
           Send, Choose, Enter, Leave, ReturnError, ReturnEarly
  <1>2. CASE RequestBlocked
    <2>1. /\ call.status = "running" /\ call.todo # <<>> /\ IsRequest(call.todo[1])
          /\ Blocked(call.todo[1]) /\ call' \in RequestFails(call)
      BY <1>2 DEF RequestBlocked, CanRequest, Running, Head1, IsRequest
    <2>2. IsCall(call') /\ Failed(call, call')
      BY <1>0, <2>1, RequestFailsFields
    <2>3. call.todo[1].op = "cleanup" => ~ Permitted(call.todo[1].kind)
      BY <2>1 DEF Blocked, IsDetached, isAllowed, Permitted
    <2> QED BY <1>1, <2>1, <2>2, <2>3, NotSent
  <1>3. CASE ValidatorRefuses
    <2>1. /\ call.status = "running" /\ call.todo # <<>> /\ IsRequest(call.todo[1])
          /\ call' \in RequestFails(Settle(call))
      BY <1>3 DEF ValidatorRefuses, CanRequest, Running, Head1, IsRequest
    <2>2. /\ IsCall(Settle(call)) /\ Settle(call).todo = call.todo
          /\ Settle(call).name = call.name /\ Settle(call).status = call.status
          /\ Settle(call).changed = call.changed /\ Settle(call).last = call.last
      BY <1>0, SettleFields
    <2>3. IsCall(call') /\ Failed(Settle(call), call')
      BY <2>1, <2>2, RequestFailsFields
    <2> QED BY <1>0, <1>1, <2>1, <2>2, <2>3, SettledFails
  <1>4. CASE WindowsEULAValidator
    <2>1. /\ call.status = "running" /\ call.todo # <<>> /\ IsRequest(call.todo[1])
          /\ httpMethodToVerb(call.todo[1].verb) \in {"create", "update", "patch"}
          /\ call' \in RequestFails(call)
      BY <1>4 DEF WindowsEULAValidator, CanRequest, Running, Head1, IsRequest
    <2>2. IsCall(call') /\ Failed(call, call')
      BY <1>0, <2>1, RequestFailsFields
    <2>3. call.todo[1].verb # "delete"
      BY <2>1 DEF httpMethodToVerb
    <2> QED BY <1>1, <2>1, <2>2, <2>3, NotSent
  <1>5. CASE Confirm
    <2>1. /\ call.status = "running" /\ call.todo # <<>> /\ IsRequest(call.todo[1])
          /\ Needs(call.todo[1])
      BY <1>5 DEF Confirm, CanRequest, Running, Head1, IsRequest
    <2>2. CASE call' \in RequestFails(call)
      <3>1. IsCall(call') /\ Failed(call, call')
        BY <1>0, <2>2, RequestFailsFields
      <3> QED BY <1>1, <2>1, <3>1, NotSent
    <2>3. CASE call' = [call EXCEPT !.cleared = TRUE, !.asked = call.todo]
      BY <1>0, <1>1, <2>3 DEF IsCall, Fields, Alike, Still
    <2> QED BY <1>5, <2>2, <2>3 DEF Confirm
  <1>6. CASE Send
    BY <1>1, <1>6, SendRuns
  <1>7. CASE Choose
    <2>1. PICK code \in call.todo[1].body :
             call' = [call EXCEPT !.todo = code \o Tail(call.todo)]
      BY <1>0, <1>7 DEF Choose, Head1, IsCall
    <2>2. code \o Tail(call.todo) \in Onward(call.todo)
      BY <1>7 DEF Choose, Head1, Onward
    <2> QED BY <1>1, <1>7, <2>1, <2>2, ControlRuns DEF Choose, Head1, Requests
  <1>8. CASE Enter
    <2>1. PICK code \in call.todo[1].body :
             call' = [call EXCEPT !.todo = code \o <<CatchOf(call.todo[1])>> \o Tail(call.todo)]
      BY <1>0, <1>8, CatchIs DEF Enter, Head1, IsCall
    <2>2. code \o <<CatchOf(call.todo[1])>> \o Tail(call.todo) \in Onward(call.todo)
      BY <1>8 DEF Enter, Head1, Onward
    <2> QED BY <1>1, <1>8, <2>1, <2>2, ControlRuns DEF Enter, Head1, Requests
  <1>9. CASE Leave
    <2>1. call' = [call EXCEPT !.todo = Tail(call.todo)]
      BY <1>9 DEF Leave
    <2>2. Tail(call.todo) \in Onward(call.todo)
      BY <1>9 DEF Leave, Head1, Onward
    <2> QED BY <1>1, <1>9, <2>1, <2>2, ControlRuns DEF Leave, Head1, Requests
  <1>10. CASE ReturnEarly
    <2>1. call' = [call EXCEPT !.todo = Escape(call.todo)]
      BY <1>10 DEF ReturnEarly, Escape
    <2>2. Escape(call.todo) \in Onward(call.todo)
      BY <1>10 DEF ReturnEarly, Head1, Onward
    <2> QED BY <1>1, <1>10, <2>1, <2>2, ControlRuns DEF ReturnEarly, Head1, Requests
  <1>11. CASE ReturnError
    <2>1. /\ call.status = "running" /\ call.todo # <<>> /\ call.todo[1].op = "fail"
          /\ call' \in AfterError(call)
      BY <1>11 DEF ReturnError, Running, Head1
    <2>2. IsCall(call') /\ Erred(call, call')
      BY <1>0, <2>1, AfterErrorFields
    <2>3. Errs(call, call')
      BY <2>1, <2>2 DEF Errs, Erred, CanFail
    <2> QED BY <1>1, <2>1, <2>2, <2>3 DEF Ran, Erred
  <1> QED BY <1>2, <1>3, <1>4, <1>5, <1>6, <1>7, <1>8, <1>9, <1>10, <1>11

\* The server starts without a call.
LEMMA IdleIs == IsCall(Idle) /\ Fresh(Idle) /\ Idle.todo = <<>> /\ Idle.status = "idle"
                /\ Idle.name = None
  BY DEF IsCall, Fields, Fresh, Idle

\* What a step of the specification does to a call.
LEMMA StepIs ==
    ASSUME Base, [Next]_vars
    PROVE  /\ IsCall(call') /\ client' = client
           /\ \/ config' = config /\ Moves(call, call')
              \/ call' = Idle /\ (call = Idle \/ config' = config)
              \/ /\ config' = config
                 /\ \/ \E tool \in Tools :
                          /\ Surface!IsToolApplicable(config, AnyProvider, tool)
                          /\ Begins(call', tool)
                    \/ \E prompt \in Prompts : Begins(call', prompt)
  <1>0. IsCall(call) /\ (call.status = "confirming" => Fresh(call))
    BY DEF Base
  <1>1. CASE \/ RequestBlocked \/ ValidatorRefuses \/ Confirm \/ WindowsEULAValidator
             \/ Send \/ Choose \/ Enter \/ Leave \/ ReturnError \/ ReturnEarly
    BY <1>1, StepRuns DEF Moves, Alike
  <1>2. CASE ConfirmTool
    BY <1>0, <1>2 DEF ConfirmTool, Moves, Still, Fresh, IsCall, Fields
  <1>3. CASE Finish
    BY <1>0, <1>3 DEF Finish, Moves, Still, IsCall, Fields
  <1>4. CASE Cancel
    BY <1>0, <1>4 DEF Cancel, Moves, Still, IsCall, Fields
  <1>5. CASE Answer
    BY <1>5, IdleIs DEF Answer
  <1>6. CASE Reload
    BY <1>6, IdleIs DEF Reload
  <1>7. ASSUME NEW tool \in Tools, CallTool(tool)
        PROVE  /\ IsCall(call') /\ client' = client /\ config' = config
               /\ Surface!IsToolApplicable(config, AnyProvider, tool)
               /\ Begins(call', tool)
    BY <1>7, IdleIs DEF CallTool, Begins, Fresh, IsCall, Fields
  <1>8. ASSUME NEW prompt \in Prompts, GetPrompt(prompt)
        PROVE  /\ IsCall(call') /\ client' = client /\ config' = config
               /\ Begins(call', prompt)
    BY <1>8, IdleIs DEF GetPrompt, Begins, Fresh, IsCall, Fields
  <1>9. CASE UNCHANGED vars
    BY <1>0, <1>9 DEF vars, Moves, Still
  <1>10. CASE Step
    BY <1>1, <1>2, <1>3, <1>5, <1>10 DEF Step
  <1>11. CASE Next
    BY <1>4, <1>6, <1>7, <1>8, <1>10, <1>11 DEF Next
  <1> QED BY <1>9, <1>11

\* Base holds at the start.
LEMMA InitBase == Init => Base
  BY IdleIs DEF Init, Base

\* Base is kept by every step.
LEMMA StepBase == Base /\ [Next]_vars => Base'
  <1> SUFFICES ASSUME Base, [Next]_vars PROVE Base'
    OBVIOUS
  <1>1. IsCall(call') /\ client' \in Settings
    BY StepIs DEF Base
  <1>2. CASE Moves(call, call')
    BY <1>1, <1>2 DEF Base, Moves, Still, Fresh, Ran, Proceeds, Errs
  <1>3. CASE call' = Idle
    BY <1>1, <1>3, IdleIs DEF Base
  <1>4. ASSUME NEW item, Begins(call', item) PROVE Base'
    BY <1>1, <1>4 DEF Base, Begins, Fresh
  <1> QED BY <1>2, <1>3, <1>4, StepIs

\* An instruction of a closed set leads to code of that set.
LEMMA RanInside ==
    ASSUME NEW S, Closed(S), NEW c, NEW d, c.todo \in Seq(S), Ran(c, d)
    PROVE  d.todo \in Seq(S) /\ c.todo[1] \in S
  <1>1. c.todo # <<>>
    BY DEF Ran
  <1>2. /\ Onward(c.todo) \subseteq Seq(S) /\ Caught(c.todo) \subseteq Seq(S)
        /\ c.todo[1] \in S
    BY <1>1, ClosedOnward, TailRest
  <1> QED BY <1>2, EmptySeq DEF Ran, Proceeds, Errs

\* Code in two parts: the first goes on, or is left, by a return or an error,
\* for where the second goes on.
Parted(pre, post, c, d) ==
    \/ d.todo \in Then(Onward(pre), post) /\ Proceeds(c, d)
    \/ d.todo \in Then(Caught(pre), post) /\ Errs(c, d) /\ d.status = "running"
    \/ /\ Rescues(pre) = {} /\ pre[1].op = "return"
       /\ d.todo = Escape(post) /\ Proceeds(c, d)
    \/ /\ Rescues(pre) = {} /\ Errs(c, d)
       /\ \/ d.todo \in Caught(post) /\ d.status = "running"
          \/ Rescues(post) = {} /\ d.todo = <<>> /\ d.status = "failed"

\* How a call runs on whose code begins with a part of the closed set Q.
LEMMA PartRuns ==
    ASSUME NEW Q, Closed(Q), Q \subseteq AllCode,
           NEW pre \in Seq(Q), pre # <<>>, NEW post \in Seq(AllCode),
           NEW c, NEW d, c.todo = pre \o post, Ran(c, d)
    PROVE  /\ c.todo[1] = pre[1] /\ pre[1] \in Q
           /\ Onward(pre) \subseteq Seq(Q) /\ Caught(pre) \subseteq Seq(Q)
           /\ Parted(pre, post, c, d)
  <1>1. /\ pre \in Seq(AllCode) /\ Closed(AllCode)
        /\ \A i \in AllCode : i.rescue \subseteq Seq(AllCode)
    BY CodeAssumption, SeqMonotonic DEF Closed, IsInside
  <1>2. /\ Onward(pre) \subseteq Seq(Q) /\ Caught(pre) \subseteq Seq(Q) /\ pre[1] \in Q
    BY ClosedOnward, TailRest
  <1>3. /\ c.todo[1] = pre[1]
        /\ \A x \in Onward(c.todo) :
              \/ x \in Then(Onward(pre), post)
              \/ pre[1].op = "return" /\ Rescues(pre) = {} /\ x = Escape(post)
    BY <1>1, OnwardOfConcat
  <1>4. CASE Proceeds(c, d)
    <2>1. d.todo \in Onward(c.todo)
      BY <1>4 DEF Proceeds
    <2> QED BY <1>2, <1>3, <1>4, <2>1 DEF Parted
  <1>5. CASE Errs(c, d)
    <2>1. \/ Rescues(c.todo) = {} /\ d.todo = <<>> /\ d.status = "failed"
          \/ Rescues(c.todo) # {} /\ d.todo \in Caught(c.todo) /\ d.status = "running"
      BY <1>5 DEF Errs
    <2>2. CASE Rescues(pre) = {}
      <3>1. Caught(c.todo) = Caught(post) /\ (Rescues(c.todo) = {} => Rescues(post) = {})
        BY <1>1, <2>2, CaughtOfConcat, RescuesOfConcat
      <3> QED BY <1>2, <1>3, <1>5, <2>1, <2>2, <3>1 DEF Parted
    <2>3. CASE Rescues(pre) # {}
      <3>1. Caught(c.todo) \subseteq Then(Caught(pre), post)
        BY <1>1, <2>3, CaughtOfConcat
      <3>2. Rescues(c.todo) # {}
        BY <1>1, <2>3, RescuesOfConcat
      <3> QED BY <1>2, <1>3, <1>5, <2>1, <3>1, <3>2 DEF Parted
    <2> QED BY <2>2, <2>3
  <1> QED BY <1>4, <1>5 DEF Ran

-----------------------------------------------------------------------------
(* 3. Confirmation, whatever the handlers are.                              *)

\* Someone, or the fallback, may accept.
Consent == elicitation \/ client.Fallback # "deny"

\* A clearance is for the request at the head of the code, and for nothing
\* after it.
Clearance(c) ==
    c.cleared =>
        /\ c.status = "running" /\ c.todo # <<>>
        /\ c.todo[1].op \in Requests
        /\ c.asked = c.todo
        /\ Consent

\* What may be said of the last request sent.
Allowed(request) ==
    (request.op # "none" /\ Needs(request)) => request.cleared /\ Consent

IInv ==
    /\ client \in Settings
    /\ IsCall(call) /\ Clearance(call) /\ Allowed(call.last)

\* A request that fails takes its clearance with it and leaves no trace.
LEMMA RequestFailsCall ==
    ASSUME NEW c, IsCall(c), NEW d \in RequestFails(c)
    PROVE  IsCall(d) /\ ~ d.cleared /\ d.last = c.last
  BY RequestFailsFields DEF Failed, Erred

\* Handling an error does not touch the clearance.
LEMMA AfterErrorCall ==
    ASSUME NEW c, IsCall(c), NEW d \in AfterError(c)
    PROVE  IsCall(d) /\ d.cleared = c.cleared /\ d.last = c.last
  BY AfterErrorFields DEF Erred

\* What is recorded of a request that was sent.
LEMMA SentCall ==
    ASSUME NEW c, IsCall(c), NEW lost
    PROVE  /\ IsCall(Sent(c, lost))
           /\ Sent(c, lost).last = [op |-> c.todo[1].op, verb |-> c.todo[1].verb,
                                    kind |-> c.todo[1].kind,
                                    cleared |-> c.cleared /\ c.asked = c.todo,
                                    lost |-> lost]
  BY SettleFields DEF IsCall, Fields, Sent

\* A request sent with its own clearance is recorded as cleared.
LEMMA SentCleared ==
    ASSUME NEW c, IsCall(c), NEW lost, c.cleared, c.asked = c.todo
    PROVE  Sent(c, lost).last.cleared
  <1> DEFINE asked == c.cleared /\ c.asked = c.todo
             last(b) == [op |-> c.todo[1].op, verb |-> c.todo[1].verb,
                         kind |-> c.todo[1].kind, cleared |-> b, lost |-> lost]
  <1>1. Sent(c, lost).last = last(asked)
    BY SettleFields DEF IsCall, Fields, Sent
  <1>2. asked = TRUE
    OBVIOUS
  <1>3. \A b : last(b).cleared = b
    OBVIOUS
  <1> HIDE DEF last, asked
  <1>4. Sent(c, lost).last.cleared = asked
    BY <1>1, <1>3
  <1> QED BY <1>2, <1>4

\* An unclear call with an allowed last request keeps the invariant.
LEMMA UnclearInv ==
    ASSUME client \in Settings, UNCHANGED <<client, elicitation>>,
           IsCall(call'), ~ call'.cleared, Allowed(call'.last)
    PROVE  IInv'
  BY DEF IInv, Clearance, Allowed, Needs, Consent, IsCall

\* IInv holds at the start.
LEMMA InitInv == Init => IInv
  <1> SUFFICES ASSUME Init PROVE IInv
    OBVIOUS
  <1>1. client \in Settings /\ call = Idle
    BY DEF Init
  <1>2. IsCall(Idle) /\ ~ Idle.cleared
    BY DEF IsCall, Fields, Idle
  <1>3. Idle.last.op = "none"
    BY DEF Idle, Nothing
  <1> QED BY <1>1, <1>2, <1>3 DEF IInv, Clearance, Allowed

\* IInv is kept by every step.
LEMMA StepInv == IInv /\ [Next]_vars => IInv'
  <1> SUFFICES ASSUME IInv, [Next]_vars PROVE IInv'
    OBVIOUS
  <1> USE DEF IInv
  <1>1. CASE RequestBlocked
    BY <1>1, RequestFailsCall, UnclearInv DEF RequestBlocked
  <1>2. CASE ValidatorRefuses
    BY <1>2, SettleFields, RequestFailsCall, UnclearInv DEF ValidatorRefuses
  <1>3. CASE WindowsEULAValidator
    BY <1>3, RequestFailsCall, UnclearInv DEF WindowsEULAValidator
  <1>4. CASE Confirm
    <2>1. CASE call' \in RequestFails(call)
      BY <1>4, <2>1, RequestFailsCall, UnclearInv DEF Confirm
    <2>2. CASE /\ CheckConfirmation(client.Fallback, ~ IsDetached(Head1), elicitation)
                    \in {"ask", "accept"}
               /\ call' = [call EXCEPT !.cleared = TRUE, !.asked = call.todo]
      <3>1. Consent
        BY <2>2 DEF CheckConfirmation, Consent
      <3>2. IsCall(call') /\ call'.status = call.status /\ call'.todo = call.todo
            /\ call'.asked = call.todo /\ call'.last = call.last
        BY <2>2 DEF IsCall, Fields
      <3>3. call.status = "running" /\ call.todo # <<>> /\ call.todo[1].op \in Requests
        BY <1>4 DEF Confirm, CanRequest, Running, Head1
      <3>4. UNCHANGED <<client, elicitation>>
        BY <1>4 DEF Confirm
      <3>5. Clearance(call)'
        BY <3>1, <3>2, <3>3, <3>4 DEF Clearance, Consent
      <3>6. Allowed(call.last)'
        BY <3>2, <3>4 DEF Allowed, Needs, Consent
      <3> QED BY <3>2, <3>4, <3>5, <3>6 DEF IsCall
    <2> QED BY <1>4, <2>1, <2>2 DEF Confirm
  <1>5. CASE Send
    <2>1. ASSUME NEW lost PROVE IsCall(Sent(call, lost)) /\ Allowed(Sent(call, lost).last)
      <3> DEFINE sent == Sent(call, lost).last
      <3>1. IsCall(Sent(call, lost)) /\ sent =
               [op |-> Head1.op, verb |-> Head1.verb, kind |-> Head1.kind,
                cleared |-> call.cleared /\ call.asked = call.todo, lost |-> lost]
        BY SentCall DEF Head1
      <3>2. Needs(sent) <=> Needs(Head1)
        BY <3>1 DEF Needs, RequestSubject
      <3>3. Needs(Head1) => call.cleared /\ call.asked = call.todo /\ Consent
        BY <1>5 DEF Send, Clearance
      <3>4. call.cleared /\ call.asked = call.todo => sent.cleared
        BY SentCleared
      <3> HIDE DEF sent
      <3>5. Allowed(sent)
        BY <3>2, <3>3, <3>4 DEF Allowed
      <3> QED BY <3>1, <3>5 DEF sent
    <2>2. IsCall(AnswerLost(call)) /\ AnswerLost(call).last = Sent(call, TRUE).last
      BY LostFields
    <2>3. /\ IsCall(call') /\ ~ call'.cleared
          /\ \/ call'.last = Sent(call, FALSE).last
             \/ call'.last = Sent(call, TRUE).last
      BY <1>5, <2>1, <2>2, EffectFields, RequestFailsCall DEF Send
    <2> QED BY <1>5, <2>1, <2>3, UnclearInv DEF Send
  <1>6. CASE Choose \/ Enter \/ Leave \/ ReturnEarly
    <2>1. ~ call.cleared
      BY <1>6 DEF Choose, Enter, Leave, ReturnEarly, Clearance, Requests, Head1
    <2>2. \E todo : call' = [call EXCEPT !.todo = todo]
      BY <1>6 DEF Choose, Enter, Leave, ReturnEarly
    <2>3. IsCall(call') /\ ~ call'.cleared /\ call'.last = call.last
      BY <2>1, <2>2 DEF IsCall, Fields
    <2> QED BY <1>6, <2>3, UnclearInv DEF Choose, Enter, Leave, ReturnEarly
  <1>7. CASE ReturnError
    <2>1. ~ call.cleared
      BY <1>7 DEF ReturnError, Clearance, Requests, Head1
    <2> QED BY <1>7, <2>1, AfterErrorCall, UnclearInv DEF ReturnError
  <1>8. CASE ConfirmTool \/ Finish \/ Cancel
    <2>1. ConfirmTool \/ Finish => ~ call.cleared
      BY DEF ConfirmTool, Finish, Clearance
    <2>2. CASE ConfirmTool \/ Finish
      <3>1. IsCall(call') /\ ~ call'.cleared /\ call'.last = call.last
        BY <2>1, <2>2 DEF ConfirmTool, Finish, IsCall, Fields
      <3> QED BY <2>2, <3>1, UnclearInv DEF ConfirmTool, Finish
    <2>3. CASE Cancel
      <3>1. UNCHANGED <<client, elicitation>>
            /\ call' = [call EXCEPT !.cancelled = TRUE]
        BY <2>3 DEF Cancel
      <3>2. IsCall(call') /\ call'.status = call.status /\ call'.todo = call.todo
            /\ call'.asked = call.asked /\ call'.last = call.last
            /\ call'.cleared = call.cleared
        BY <3>1 DEF IsCall, Fields
      <3> QED BY <3>1, <3>2 DEF IsCall, Clearance, Allowed, Needs, Consent
    <2> QED BY <1>8, <2>2, <2>3
  <1>9. Allowed(Nothing) /\ IsCall(Idle) /\ ~ Idle.cleared /\ Idle.last = Nothing
    <2>1. IsCall(Idle) /\ ~ Idle.cleared /\ Idle.last = Nothing
      BY DEF IsCall, Fields, Idle
    <2>2. Allowed(Nothing)
      BY DEF Allowed, Nothing
    <2> QED BY <2>1, <2>2
  <1>10. CASE Answer
    BY <1>9, <1>10, UnclearInv DEF Answer
  <1>11. ASSUME NEW tool \in Tools, CallTool(tool) PROVE IInv'
    <2>1. IsCall(call') /\ ~ call'.cleared /\ call'.last = Nothing
      BY <1>9, <1>11 DEF CallTool, IsCall, Fields
    <2> QED BY <1>9, <1>11, <2>1, UnclearInv DEF CallTool
  <1>12. ASSUME NEW prompt \in Prompts, GetPrompt(prompt) PROVE IInv'
    <2>1. IsCall(call') /\ ~ call'.cleared /\ call'.last = Nothing
      BY <1>9, <1>12 DEF GetPrompt, IsCall, Fields
    <2> QED BY <1>9, <1>12, <2>1, UnclearInv DEF GetPrompt
  <1>13. CASE UNCHANGED <<client, elicitation, call>>
    BY <1>13 DEF IsCall, Clearance, Allowed, Needs, Consent
  <1> HIDE DEF IInv
  <1>14. CASE Step
    BY <1>1, <1>2, <1>3, <1>4, <1>5, <1>6, <1>7, <1>8, <1>10, <1>14 DEF Step
  <1>15. CASE Next
    BY <1>8, <1>11, <1>12, <1>13, <1>14, <1>15 DEF Next, Reload
  <1> QED BY <1>13, <1>15 DEF vars

\* Whatever a handler asks for, every request that a confirmation rule
\* matches was accepted for itself before it was sent (checkConfirmation in
\* the round tripper), by the user or by the fallback.
THEOREM ConfirmedTheorem == Spec => []ConfirmedBeforeSent
  <1>1. IInv => ConfirmedBeforeSent
    BY DEF IInv, Allowed, ConfirmedBeforeSent, Consent
  <1> QED BY InitInv, StepInv, <1>1, PTL DEF Spec

-----------------------------------------------------------------------------
(* 4. read_only.                                                            *)

HarmlessCall(c) ==
    /\ c.todo \in Seq(Harmless)
    /\ \A request \in c.changed : request[2] \in Outside

ReadOnlyInv == config.ReadOnly => HarmlessCall(call)

\* A harmless call stays harmless.
LEMMA HarmlessMoves ==
    ASSUME NEW c, NEW d, HarmlessCall(c), Moves(c, d)
    PROVE  HarmlessCall(d)
  <1>1. CASE Still(c, d)
    BY <1>1 DEF Still, HarmlessCall
  <1>2. CASE Fresh(d) /\ d.todo = <<>>
    BY <1>2, EmptySeq DEF Fresh, HarmlessCall
  <1>3. CASE Ran(c, d)
    <2>1. d.todo \in Seq(Harmless) /\ c.todo[1] \in Harmless
      BY <1>3, RanInside, ReadOnlyAssumption DEF HarmlessCall
    <2>2. Changes(c.todo[1]) => c.todo[1].kind \in Outside
      BY <2>1, ReadOnlyAssumption
    <2>3. \A request \in d.changed : request[2] \in Outside
      BY <1>3, <2>2 DEF Ran, HarmlessCall
    <2> QED BY <2>1, <2>3 DEF HarmlessCall
  <1> QED BY <1>1, <1>2, <1>3 DEF Moves

\* ReadOnlyInv is kept by every step, a reload into read-only included.
LEMMA ReadOnlyStep == Base /\ ReadOnlyInv /\ [Next]_vars => ReadOnlyInv'
  <1> SUFFICES ASSUME Base, ReadOnlyInv, [Next]_vars, config.ReadOnly'
               PROVE  HarmlessCall(call')
    BY DEF ReadOnlyInv, HarmlessCall
  <1>1. CASE config' = config /\ Moves(call, call')
    BY <1>1, HarmlessMoves DEF ReadOnlyInv
  <1>2. CASE call' = Idle
    BY <1>2, IdleIs, EmptySeq DEF HarmlessCall, Fresh
  <1>3. ASSUME NEW tool \in Tools, config' = config,
               Surface!IsToolApplicable(config, AnyProvider, tool), Begins(call', tool)
        PROVE  HarmlessCall(call')
    <2>1. tool.readOnly
      BY <1>3 DEF Surface!IsToolApplicable
    <2> QED BY <1>3, <2>1, ReadOnlyAssumption DEF Offered, Begins, HarmlessCall, Fresh
  <1>4. ASSUME NEW prompt \in Prompts, Begins(call', prompt)
        PROVE  HarmlessCall(call')
    BY <1>4, ReadOnlyAssumption DEF Offered, Begins, HarmlessCall, Fresh
  <1> QED BY <1>1, <1>2, <1>3, <1>4, StepIs

\* Under read_only (IsToolApplicable in pkg/mcp), no call of an exposed tool,
\* and no prompt, leaves a change behind in the cluster or in a service of it:
\* the code still to be run is harmless, whatever was chosen, refused or caught.
THEOREM ReadOnlyTheorem == Spec => []ReadOnlyLeavesNothing
  <1>1. Init => ReadOnlyInv
    BY IdleIs, EmptySeq DEF Init, ReadOnlyInv, HarmlessCall, Fresh
  <1>2. ReadOnlyInv => ReadOnlyLeavesNothing
    BY DEF ReadOnlyInv, HarmlessCall, ReadOnlyLeavesNothing
  <1> QED BY InitBase, StepBase, ReadOnlyStep, <1>1, <1>2, PTL DEF Spec

-----------------------------------------------------------------------------
(* 5. A handler's one change is the last thing it does.                     *)

\* Quiet code, or quiet code and one last instruction that may change something.
Ends(todo) ==
    \/ todo \in Seq(Quiet)
    \/ \E pre \in Seq(Quiet), l \in Finals : todo = pre \o <<l>>

Untouched(c) == c.changed = {} /\ Ends(c.todo)
\* The one change was made; the call fails only when its answer was lost.
Changed(c) ==
    /\ c.todo = <<>>
    /\ c.status = "failed" =>
          c.last.lost /\ c.changed = {<<c.last.verb, c.last.kind>>}
LastInv ==
    call.name \notin SeveralChanges => Untouched(call) \/ Changed(call)

\* The sets of instructions are sets of this table's instructions.
LEMMA QuietInside == Quiet \subseteq AllCode /\ Finals \subseteq AllCode
  BY DEF Quiet, Core, ThreeInside, Inside, Finals, Branches

\* Code that ends with a final instruction, taken apart.
LEMMA EndsWithForm ==
    ASSUME NEW code \in Seq(AllCode), EndsWith(code, Finals)
    PROVE  Ends(code)
  <1>1. CASE code \in Seq(Quiet)
    BY <1>1 DEF Ends
  <1>2. CASE code # <<>> /\ code \notin Seq(Quiet)
    <2>1. Len(code) \in 1..Len(code)
      BY <1>2, TailRest
    <2>2. /\ code = SubSeq(code, 1, Len(code) - 1) \o (<<code[Len(code)]>> \o Rest(code, Len(code)))
          /\ code[Len(code)] \in AllCode
      BY <2>1, SplitAt
    <2>3. Rest(code, Len(code)) = <<>>
      <3>1. Len(code) \in 0..Len(code) /\ Len(code) \in Nat
        BY <2>1, LenProperties
      <3>2. Rest(code, Len(code)) \in Seq(AllCode) /\ Len(Rest(code, Len(code))) = 0
        BY <3>1, Suffixes
      <3> QED BY <3>2, EmptySeq
    <2>4. <<code[Len(code)]>> \o <<>> = <<code[Len(code)]>>
      BY <2>2, ConcatEmptySeq
    <2> QED BY <1>2, <2>2, <2>3, <2>4 DEF Ends, EndsWith
  <1> QED BY <1>1, <1>2 DEF EndsWith

\* A final instruction is a request or a branch between such ends.
LEMMA Last ==
    ASSUME NEW l \in Finals
    PROVE  /\ l \in AllCode /\ l.op # "catch" /\ l.op # "fail"
           /\ \/ IsRequest(l)
              \/ l.op = "either" /\ \A code \in l.body : Ends(code)
  <1>1. l \in AllCode
    BY QuietInside
  <1>2. CASE IsRequest(l)
    BY <1>1, <1>2 DEF IsRequest, Requests
  <1>3. CASE l.op = "either" /\ \A code \in l.body : EndsWith(code, Finals)
    <2>1. \A code \in l.body : code \in Seq(AllCode)
      BY <1>1, CodeAssumption DEF Closed, IsInside
    <2> QED BY <1>1, <1>3, <2>1, EndsWithForm
  <1> QED BY <1>2, <1>3, LastChangeAssumption

\* The last instruction runs: it changes something and the code is over, or
\* nothing is changed.
LEMMA LastRuns ==
    ASSUME NEW l \in Finals, NEW c, NEW d, c.todo = <<l>>, c.changed = {}, Ran(c, d)
    PROVE  Untouched(d) \/ Changed(d)
  <1>1. /\ l \in AllCode /\ l.op # "catch" /\ c.todo[1] = l
        /\ Rescues(c.todo) = {} /\ Tail(c.todo) = <<>>
    BY Last, Single
  <1>2. <<>> \in Seq(Quiet)
    BY EmptySeq
  <1>3. CASE IsRequest(l)
    <2>1. CASE Proceeds(c, d)
      BY <1>1, <1>3, <2>1 DEF Proceeds, Onward, IsRequest, Requests, Changed
    <2>2. CASE Errs(c, d)
      BY <1>1, <1>2, <2>2 DEF Errs, LostChange, Untouched, Ends, Changed
    <2> QED BY <2>1, <2>2 DEF Ran
  <1>4. CASE l.op = "either" /\ \A code \in l.body : Ends(code)
    <2>1. ~ CanFail(l) /\ ~ Changes(l) /\ ~ IsRequest(l)
      BY <1>4 DEF CanFail, Changes, IsRequest, Requests
    <2>2. d.changed = {} /\ Proceeds(c, d)
      BY <1>1, <2>1 DEF Ran, Errs
    <2>3. PICK code \in l.body : d.todo = code \o <<>>
      BY <1>1, <1>4, <2>2 DEF Proceeds, Onward
    <2>4. code \in Seq(AllCode)
      BY <1>1, CodeAssumption DEF Closed, IsInside
    <2>5. d.todo = code
      BY <2>3, <2>4, ConcatEmptySeq
    <2> QED BY <1>4, <2>2, <2>5 DEF Untouched
  <1> QED BY <1>3, <1>4, Last

\* A call that has changed nothing runs on: it still has not, or the change was
\* its last instruction.
LEMMA UntouchedRuns ==
    ASSUME NEW c, NEW d, Untouched(c), Ran(c, d)
    PROVE  Untouched(d) \/ Changed(d)
  <1>0. <<>> \in Seq(Quiet) /\ c.todo # <<>> /\ c.changed = {}
    BY EmptySeq DEF Ran, Untouched
  <1>1. CASE c.todo \in Seq(Quiet)
    <2>1. d.todo \in Seq(Quiet) /\ c.todo[1] \in Quiet
      BY <1>1, RanInside, LastChangeAssumption
    <2>2. d.changed = {}
      BY <1>0, <2>1, LastChangeAssumption DEF Ran
    <2> QED BY <2>1, <2>2 DEF Untouched, Ends
  <1>2. ASSUME NEW pre \in Seq(Quiet), NEW l \in Finals, c.todo = pre \o <<l>>
        PROVE  Untouched(d) \/ Changed(d)
    <2>1. /\ l \in AllCode /\ <<l>> \in Seq(AllCode) /\ Rescues(<<l>>) = {}
          /\ Caught(<<l>>) = {} /\ Escape(<<l>>) = <<>>
      BY Last, Single
    <2>2. CASE pre = <<>>
      <3>1. c.todo = <<l>>
        BY <1>2, <2>1, <2>2, ConcatEmptySeq
      <3> QED BY <1>0, <3>1, LastRuns
    <2>3. CASE pre # <<>>
      <3> DEFINE post == <<l>>
      <3>1. /\ post \in Seq(AllCode) /\ c.todo = pre \o post
            /\ Rescues(post) = {} /\ Caught(post) = {} /\ Escape(post) = <<>>
        BY <1>2, <2>1
      <3> HIDE DEF post
      <3>2. /\ c.todo[1] \in Quiet
            /\ d.todo = <<>> \/ \E y \in Seq(Quiet) : d.todo = y \o post
        <4>1. Closed(Quiet) /\ Quiet \subseteq AllCode
          BY QuietInside, LastChangeAssumption
        <4>2. /\ c.todo[1] = pre[1] /\ pre[1] \in Quiet
              /\ Onward(pre) \subseteq Seq(Quiet) /\ Caught(pre) \subseteq Seq(Quiet)
              /\ Parted(pre, post, c, d)
          BY <2>3, <3>1, <4>1, PartRuns
        <4> QED BY <3>1, <4>2 DEF Then, Parted
      <3>3. d.changed = {}
        BY <1>0, <3>2, LastChangeAssumption DEF Ran
      <3> QED BY <1>0, <3>2, <3>3 DEF Untouched, Ends, post
    <2> QED BY <2>2, <2>3
  <1> QED BY <1>1, <1>2 DEF Untouched, Ends

\* LastInv is kept by every step.
LEMMA LastStep == Base /\ LastInv /\ [Next]_vars => LastInv'
  <1> SUFFICES ASSUME Base, LastInv, [Next]_vars, call'.name \notin SeveralChanges
               PROVE  Untouched(call') \/ Changed(call')
    BY DEF LastInv, Untouched, Changed
  <1>0. <<>> \in Seq(Quiet)
    BY EmptySeq
  <1>1. CASE Moves(call, call')
    <2>1. call'.name = call.name
      BY <1>1 DEF Moves, Still, Ran
    <2>2. Untouched(call) \/ Changed(call)
      BY <2>1 DEF LastInv
    <2>3. CASE Ran(call, call')
      BY <2>2, <2>3, UntouchedRuns DEF Ran, Changed
    <2>4. CASE /\ Still(call, call')
               /\ call'.status = call.status \/ call'.status \in {"running", "done"}
      BY <2>2, <2>4 DEF Still, Untouched, Changed
    <2>5. CASE Fresh(call') /\ call'.todo = <<>>
      BY <1>0, <2>5 DEF Fresh, Untouched, Ends
    <2> QED BY <1>1, <2>3, <2>4, <2>5 DEF Moves
  <1>2. CASE call' = Idle
    BY <1>0, <1>2, IdleIs DEF Fresh, Untouched, Ends
  <1>3. ASSUME NEW item \in Offered, Begins(call', item) PROVE Untouched(call')
    <2>1. EndsWith(call'.todo, Finals) /\ call'.todo \in Seq(AllCode)
      BY <1>3, LastChangeAssumption, CodeAssumption DEF Begins
    <2> QED BY <1>3, <2>1, EndsWithForm DEF Begins, Fresh, Untouched
  <1> QED BY <1>1, <1>2, <1>3, StepIs DEF Offered

\* A call that answers an error has changed nothing, or only what its very last
\* request asked for, whose answer was lost, if its handler makes its one change
\* last: as long as something can still fail, nothing was changed.
THEOREM LastChangeTheorem == Spec => []FailedCallsChangedNothing
  <1>1. Init => LastInv
    BY IdleIs, EmptySeq DEF Init, LastInv, Untouched, Ends, Fresh
  <1>2. LastInv => FailedCallsChangedNothing
    BY DEF LastInv, Untouched, Changed, FailedCallsChangedNothing
  <1> QED BY InitBase, StepBase, LastStep, <1>1, <1>2, PTL DEF Spec

-----------------------------------------------------------------------------
(* 6. Prompts.                                                              *)

Calm(request) == request = Nothing \/ request.kind \in PromptSubjects

\* Before or among the requests for the subject; after them.
Asking(todo) ==
    \E pre \in Seq(AboutSubject), post \in Seq(Unfailing) : todo = pre \o post
Safe(todo) ==
    \/ todo \in Seq(Unfailing)
    \/ \E pre \in Seq(AllCode), i \in Unfailing, post \in Seq(Unfailing) :
          i.op = "catch" /\ todo = pre \o (<<i>> \o post)

PromptCall(c) ==
    \/ Calm(c.last) /\ Asking(c.todo)
    \/ c.status # "failed" /\ Safe(c.todo)

PromptInv == call.name \in {p.name : p \in Prompts} => PromptCall(call)

\* The sets of instructions are sets of this table's instructions.
LEMMA PromptSets == AboutSubject \subseteq AllCode /\ Unfailing \subseteq AllCode
  <1>1. AboutSubject \subseteq AllCode
    BY DEF AboutSubject, Core, ThreeInside, Inside
  <1>2. Unfailing \subseteq AllCode
    BY PromptAssumption
  <1> QED BY <1>1, <1>2

\* Code that drops errors leads to such code.
LEMMA UnfailingCode ==
    ASSUME NEW todo \in Seq(Unfailing)
    PROVE  /\ Escape(todo) \in Seq(Unfailing) /\ Caught(todo) \subseteq Seq(Unfailing)
           /\ Asking(todo) /\ Safe(todo)
  <1>1. <<>> \in Seq(Unfailing) /\ <<>> \in Seq(AboutSubject) /\ <<>> \o todo = todo
    BY EmptySeq, ConcatEmptySeq
  <1>2. Rescues(todo) # {} =>
           /\ Rest(todo, Innermost(todo)) \in Seq(Unfailing)
           /\ todo[Innermost(todo)].rescue \subseteq Seq(Unfailing)
    <2> SUFFICES ASSUME Rescues(todo) # {}
                 PROVE  /\ Rest(todo, Innermost(todo)) \in Seq(Unfailing)
                        /\ todo[Innermost(todo)].rescue \subseteq Seq(Unfailing)
      OBVIOUS
    <2>1. /\ Innermost(todo) \in 1..Len(todo) /\ Innermost(todo) \in 0..Len(todo)
          /\ Innermost(todo) \in Rescues(todo)
      BY InnermostIsFirst, LenProperties
    <2>2. todo[Innermost(todo)] \in Unfailing /\ todo[Innermost(todo)].op = "catch"
      BY <2>1, ElementOfSeq DEF Rescues
    <2> QED BY <2>1, <2>2, Suffixes, PromptAssumption DEF DropsErrors
  <1>3. Escape(todo) \in Seq(Unfailing)
    BY <1>1, <1>2 DEF Escape
  <1>4. Caught(todo) \subseteq Seq(Unfailing)
    BY <1>2, ConcatProperties DEF Caught
  <1> QED BY <1>1, <1>3, <1>4 DEF Asking, Safe

\* A prompt past its subject does not fail.
LEMMA SafeRuns ==
    ASSUME NEW c, NEW d, Safe(c.todo), Ran(c, d)
    PROVE  d.status # "failed" /\ Safe(d.todo)
  <1>1. ASSUME c.todo \in Seq(Unfailing)
        PROVE  d.status # "failed" /\ Safe(d.todo)
    <2>1. /\ c.todo # <<>> /\ c.todo[1] \in Unfailing /\ Tail(c.todo) \in Seq(Unfailing)
      BY <1>1, TailRest DEF Ran
    <2>2. DropsErrors(c.todo[1], Unfailing) /\ c.todo[1] \in AllCode
      BY <2>1, PromptAssumption
    <2>3. Proceeds(c, d)
      BY <2>2 DEF Ran, Errs, DropsErrors
    <2>4. CASE c.todo[1].op = "either"
      <3>1. PICK code \in c.todo[1].body : d.todo = code \o Tail(c.todo)
        BY <2>3, <2>4 DEF Proceeds, Onward
      <3>2. code \in Seq(Unfailing)
        BY <2>2, <2>4 DEF DropsErrors
      <3> QED BY <2>1, <2>3, <3>1, <3>2, ConcatProperties DEF Proceeds, Safe
    <2>5. CASE c.todo[1].op = "attempt"
      <3> DEFINE k == CatchOf(c.todo[1])
      <3>1. PICK code \in c.todo[1].body : d.todo = code \o <<k>> \o Tail(c.todo)
        BY <2>3, <2>5 DEF Proceeds, Onward
      <3>2. k \in Unfailing /\ k.op = "catch"
        BY <2>2, <2>5 DEF DropsErrors, CatchOf, Instr
      <3>3. code \in Seq(AllCode) /\ k \in AllCode /\ Tail(c.todo) \in Seq(AllCode)
        BY <2>1, <2>2, <3>2, CodeAssumption, PromptSets, SeqMonotonic DEF Closed, IsInside
      <3> HIDE DEF k
      <3>4. <<k>> \in Seq(AllCode)
        BY <3>3
      <3>5. d.todo = code \o (<<k>> \o Tail(c.todo))
        <4> DEFINE a == <<k>>
                   t == Tail(c.todo)
        <4>1. /\ code \in Seq(AllCode) /\ a \in Seq(AllCode) /\ t \in Seq(AllCode)
              /\ d.todo = (code \o a) \o t
          BY <3>1, <3>3, <3>4
        <4> HIDE DEF a, t
        <4>2. (code \o a) \o t = code \o (a \o t)
          BY <4>1, Regroup
        <4> QED BY <4>1, <4>2 DEF a, t
      <3> QED BY <2>1, <2>3, <3>2, <3>3, <3>5 DEF Proceeds, Safe
    <2>6. CASE c.todo[1].op = "return"
      BY <1>1, <2>3, <2>6, UnfailingCode DEF Proceeds, Onward, Safe
    <2>7. CASE c.todo[1].op \notin {"either", "attempt", "return"}
      BY <2>1, <2>3, <2>7 DEF Proceeds, Onward, Safe
    <2> QED BY <2>4, <2>5, <2>6, <2>7
  <1>2. ASSUME NEW pre \in Seq(AllCode), NEW i \in Unfailing, NEW post \in Seq(Unfailing),
               i.op = "catch", c.todo = pre \o (<<i>> \o post)
        PROVE  d.status # "failed" /\ Safe(d.todo)
    <2> DEFINE end == <<i>> \o post
    <2>1. end \in Seq(Unfailing)
      BY Cons
    <2>2. CASE pre = <<>>
      <3>1. c.todo \in Seq(Unfailing)
        <4> HIDE DEF end
        <4>1. c.todo = end
          BY <1>2, <2>1, <2>2, ConcatEmptySeq DEF end
        <4> QED BY <2>1, <4>1
      <3> QED BY <1>1, <3>1
    <2>3. CASE pre # <<>>
      <3>1. /\ Rescues(end) # {} /\ Escape(end) = post /\ Caught(end) = Then(i.rescue, post)
        BY <1>2, CatchFirst
      <3>2. i.rescue \subseteq Seq(Unfailing)
        BY <1>2, PromptAssumption DEF DropsErrors
      <3>3. Caught(end) \subseteq Seq(Unfailing)
        BY <3>1, <3>2, ConcatProperties DEF Then
      <3>4. \A y \in Seq(AllCode) : Safe(y \o end)
        BY <1>2 DEF Safe
      <3>5. end \in Seq(AllCode) /\ c.todo = pre \o end
        BY <1>2, <2>1, PromptSets, SeqMonotonic
      <3> HIDE DEF end
      <3>6. /\ Parted(pre, end, c, d)
            /\ Onward(pre) \subseteq Seq(AllCode) /\ Caught(pre) \subseteq Seq(AllCode)
        <4>1. Closed(AllCode) /\ AllCode \subseteq AllCode
          BY CodeAssumption
        <4> QED BY <2>3, <3>5, <4>1, PartRuns
      <3>7. d.status = "running"
        BY <3>1, <3>6 DEF Parted, Proceeds
      <3>8. CASE d.todo \in Then(Onward(pre), end) \cup Then(Caught(pre), end)
        BY <3>4, <3>6, <3>7, <3>8 DEF Then
      <3>9. CASE d.todo \in {Escape(end)} \cup Caught(end)
        BY <3>1, <3>3, <3>7, <3>9 DEF Safe
      <3> QED BY <3>1, <3>6, <3>8, <3>9 DEF Parted
    <2> QED BY <2>2, <2>3
  <1> QED BY <1>1, <1>2 DEF Safe

\* A prompt stays one that only its subject can fail.
LEMMA PromptRuns ==
    ASSUME NEW c, NEW d, PromptCall(c), Ran(c, d)
    PROVE  PromptCall(d)
  <1>1. CASE Safe(c.todo)
    BY <1>1, SafeRuns DEF PromptCall
  <1>2. ASSUME Calm(c.last), NEW pre \in Seq(AboutSubject), NEW post \in Seq(Unfailing),
               c.todo = pre \o post
        PROVE  PromptCall(d)
    <2>1. CASE pre = <<>>
      <3>1. c.todo = post
        BY <1>2, <2>1, ConcatEmptySeq
      <3> QED BY <1>1, <3>1, UnfailingCode
    <2>2. CASE pre # <<>>
      <3>1. Closed(AboutSubject) /\ AboutSubject \subseteq AllCode /\ post \in Seq(AllCode)
        BY PromptAssumption, PromptSets, SeqMonotonic
      <3>2. /\ c.todo[1] = pre[1] /\ pre[1] \in AboutSubject
            /\ Onward(pre) \subseteq Seq(AboutSubject)
            /\ Caught(pre) \subseteq Seq(AboutSubject)
            /\ Parted(pre, post, c, d)
        <4>1. pre \in Seq(AboutSubject) /\ pre # <<>> /\ c.todo = pre \o post
          BY <1>2, <2>2
        <4> HIDE <1>2
        <4> QED BY <3>1, <4>1, PartRuns
      <3>3. Calm(d.last)
        BY <1>2, <3>2, PromptAssumption DEF Ran, Calm
      <3>4. Asking(d.todo)
        <4>1. <<>> \in Seq(Unfailing)
          BY EmptySeq
        <4> QED BY <3>2, <4>1, UnfailingCode DEF Then, Asking, Parted
      <3> QED BY <3>3, <3>4 DEF PromptCall
    <2> QED BY <2>1, <2>2
  <1> QED BY <1>1, <1>2 DEF PromptCall, Asking

\* PromptInv is kept by every step.
LEMMA PromptStep == Base /\ PromptInv /\ [Next]_vars => PromptInv'
  <1> SUFFICES ASSUME Base, PromptInv, [Next]_vars, call'.name \in {p.name : p \in Prompts}
               PROVE  PromptCall(call')
    BY DEF PromptInv, PromptCall
  <1>0. <<>> \in Seq(Unfailing) /\ Asking(<<>>)
    BY EmptySeq, UnfailingCode
  <1>1. CASE Moves(call, call')
    <2>1. PromptCall(call)
      BY <1>1 DEF Moves, Still, Ran, PromptInv
    <2>2. CASE Ran(call, call')
      BY <2>1, <2>2, PromptRuns
    <2>3. CASE Still(call, call') /\ call'.status \in {call.status, "running", "done"}
      BY <2>1, <2>3 DEF Still, PromptCall
    <2>4. CASE Fresh(call') /\ call'.todo = <<>>
      BY <1>0, <2>4 DEF Fresh, PromptCall, Calm
    <2> QED BY <1>1, <2>2, <2>3, <2>4 DEF Moves
  <1>2. CASE call' = Idle
    BY <1>0, <1>2, IdleIs DEF Fresh, PromptCall, Calm
  <1>3. ASSUME NEW tool \in Tools, Begins(call', tool) PROVE FALSE
    BY <1>3, PromptAssumption DEF Begins
  <1>4. ASSUME NEW prompt \in Prompts, Begins(call', prompt) PROVE PromptCall(call')
    <2> DEFINE code == Check \o prompt.code
    <2>1. PICK n \in 0..Len(code) :
             /\ SubSeq(code, 1, n) \in Seq(AboutSubject)
             /\ SubSeq(code, n + 1, Len(code)) \in Seq(Unfailing)
      BY PromptAssumption
    <2>2. code \in Seq(AllCode)
      BY CodeAssumption DEF Offered
    <2> HIDE DEF code
    <2>3. code = SubSeq(code, 1, n) \o Rest(code, n)
      BY <2>2, Split
    <2>4. Asking(code)
      BY <2>1, <2>3 DEF Asking, Rest
    <2> QED BY <1>4, <2>4 DEF Begins, Fresh, PromptCall, Calm, code
  <1> QED BY <1>1, <1>2, <1>3, <1>4, StepIs

\* A prompt that fails has sent nothing, or last asked for an object some
\* prompt is about: behind those requests every error is dropped, or ends a
\* body whose rescue drops it.
THEOREM PromptTheorem == Spec => []PromptsAreBestEffort
  <1>1. Init => PromptInv
    <2>1. Asking(<<>>)
      BY EmptySeq, UnfailingCode
    <2> QED BY <2>1, IdleIs DEF Init, PromptInv, PromptCall, Fresh, Calm
  <1>2. PromptInv => PromptsAreBestEffort
    BY DEF PromptInv, PromptCall, Calm, PromptsAreBestEffort
  <1> QED BY InitBase, StepBase, PromptStep, <1>1, <1>2, PTL DEF Spec

-----------------------------------------------------------------------------
(* 7. disable_destructive.                                                  *)

\* A change to an object that may have been there.
Overwrite(request) == Replaces(request[1], request[2])

\* Before a create, after it, or without one.
CreateAhead(todo) ==
    \E pre \in Seq(Gentle), kind \in CreatedKinds, i \in AllCode :
        \E post \in Seq(OwnOnly(kind)) :
            /\ Creates(i, kind) /\ Rescues(post) = {}
            /\ todo = pre \o (<<i>> \o post)
BeforeCreate(c) ==
    /\ \A request \in c.changed : ~ Overwrite(request)
    /\ c.todo \in Seq(Gentle) \/ CreateAhead(c.todo)
AfterCreate(c) ==
    \E kind \in CreatedKinds :
        /\ c.todo \in Seq(OwnOnly(kind)) /\ <<"create", kind>> \in c.changed
        /\ \A request \in c.changed : Overwrite(request) => request[2] = kind

\* The forced applies of pods_run.
ApplyingCall(c) ==
    /\ c.name \in TakesOver /\ c.todo \in Seq(Applying)
    /\ \A request \in c.changed : Overwrite(request) => request[1] = "apply"

GentleCall(c) == BeforeCreate(c) \/ AfterCreate(c) \/ ApplyingCall(c)
GentleInv == config.DisableDestructive => GentleCall(call)

\* What the sets for disable_destructive contain.
LEMMA GentleSets ==
    /\ Gentle \subseteq AllCode /\ \A kind : OwnOnly(kind) \subseteq AllCode
    /\ Closed(Gentle) /\ \A i \in Gentle : ~ Overwrites(i)
  <1>1. \A S : Core(S) \subseteq S
    BY DEF Core, ThreeInside, Inside
  <1>2. Gentle \subseteq AllCode
    BY <1>1 DEF Gentle
  <1>3. \A kind : OwnOnly(kind) \subseteq AllCode
    BY <1>1 DEF OwnOnly
  <1>4. Closed(Gentle) /\ \A i \in Gentle : ~ Overwrites(i)
    BY DestructiveAssumption
  <1> QED BY <1>2, <1>3, <1>4

\* After its create a call overwrites only what it created.
LEMMA AfterCreateRuns ==
    ASSUME NEW c, NEW d, AfterCreate(c), Ran(c, d)
    PROVE  AfterCreate(d)
  <1>1. PICK kind \in CreatedKinds :
           /\ c.todo \in Seq(OwnOnly(kind)) /\ <<"create", kind>> \in c.changed
           /\ \A request \in c.changed : Overwrite(request) => request[2] = kind
    BY DEF AfterCreate
  <1>2. /\ Closed(OwnOnly(kind)) /\ \A i \in OwnOnly(kind) : Overwrites(i) => i.kind = kind
    BY DestructiveAssumption
  <1>3. d.todo \in Seq(OwnOnly(kind)) /\ c.todo[1] \in OwnOnly(kind)
    BY <1>1, <1>2, RanInside
  <1>4. /\ <<"create", kind>> \in d.changed
        /\ \A request \in d.changed : Overwrite(request) => request[2] = kind
    BY <1>1, <1>2, <1>3 DEF Ran, Overwrites, Overwrite
  <1> QED BY <1>3, <1>4 DEF AfterCreate

\* Applying code only applies.
LEMMA ApplyingRuns ==
    ASSUME NEW c, NEW d, ApplyingCall(c), Ran(c, d)
    PROVE  ApplyingCall(d)
  <1>1. Closed(Applying) /\ \A i \in Applying : Overwrites(i) => i.verb = "apply"
    BY DestructiveAssumption
  <1>2. d.todo \in Seq(Applying) /\ c.todo[1] \in Applying
    BY <1>1, RanInside DEF ApplyingCall
  <1>3. \A request \in d.changed : Overwrite(request) => request[1] = "apply"
    BY <1>1, <1>2 DEF Ran, ApplyingCall, Overwrites, Overwrite
  <1>4. d.name \in TakesOver
    BY DEF Ran, ApplyingCall
  <1> QED BY <1>2, <1>3, <1>4 DEF ApplyingCall

\* The create itself: it succeeds, or its error ends the call.
LEMMA CreateRuns ==
    ASSUME NEW c, NEW d, Ran(c, d), NEW kind \in CreatedKinds, NEW i \in AllCode,
           NEW post \in Seq(OwnOnly(kind)), Creates(i, kind), Rescues(post) = {},
           c.todo = <<i>> \o post,
           \A request \in c.changed : ~ Overwrite(request)
    PROVE  GentleCall(d)
  <1>1. post \in Seq(AllCode) /\ <<>> \in Seq(Gentle)
    BY GentleSets, SeqMonotonic, EmptySeq
  <1>2. c.todo[1] = i /\ Tail(c.todo) = post
    BY <1>1, Cons
  <1>3. Rescues(c.todo) = {}
    <2>1. i.op # "catch" /\ <<i>> \in Seq(AllCode)
      BY DEF Creates, Changes, IsRequest, Requests
    <2>2. Rescues(<<i>>) = {}
      BY <2>1, Single
    <2> DEFINE a == <<i>>
    <2>3. a \in Seq(AllCode) /\ Rescues(a) = {} /\ c.todo = a \o post
      BY <2>1, <2>2
    <2> HIDE DEF a
    <2> QED BY <1>1, <2>3, RescuesOfConcat
  <1>4. CASE Errs(c, d)
    <2>1. d.todo = <<>>
      BY <1>3, <1>4 DEF Errs
    <2>2. \A request \in d.changed : ~ Overwrite(request)
      BY <1>2 DEF Ran, Creates, Overwrite, Replaces
    <2> QED BY <1>1, <2>1, <2>2 DEF GentleCall, BeforeCreate
  <1>5. CASE Proceeds(c, d)
    <2>1. d.todo = post
      BY <1>2, <1>5 DEF Proceeds, Onward, Creates, Changes, IsRequest, Requests
    <2>2. <<"create", kind>> \in d.changed
      BY <1>2, <1>5 DEF Proceeds, Creates
    <2>3. \A request \in d.changed : ~ Overwrite(request)
      BY <1>2 DEF Ran, Creates, Overwrite, Replaces
    <2> QED BY <2>1, <2>2, <2>3 DEF GentleCall, AfterCreate
  <1> QED BY <1>4, <1>5 DEF Ran

\* Before it a call overwrites nothing, and a create that fails ends it.
LEMMA BeforeCreateRuns ==
    ASSUME NEW c, NEW d, BeforeCreate(c), Ran(c, d)
    PROVE  GentleCall(d)
  <1>0. /\ <<>> \in Seq(Gentle)
        /\ \A request \in c.changed : ~ Overwrite(request)
    BY EmptySeq DEF BeforeCreate
  <1>1. c.todo[1] \in Gentle => \A request \in d.changed : ~ Overwrite(request)
    BY <1>0, GentleSets DEF Ran, Overwrites, Overwrite
  <1>2. CASE c.todo \in Seq(Gentle)
    <2>1. d.todo \in Seq(Gentle) /\ c.todo[1] \in Gentle
      BY <1>2, RanInside, GentleSets
    <2> QED BY <1>1, <2>1 DEF GentleCall, BeforeCreate
  <1>3. ASSUME NEW pre \in Seq(Gentle), NEW kind \in CreatedKinds, NEW i \in AllCode,
               NEW post \in Seq(OwnOnly(kind)), Creates(i, kind), Rescues(post) = {},
               c.todo = pre \o (<<i>> \o post)
        PROVE  GentleCall(d)
    <2> DEFINE end == <<i>> \o post
    <2>1. post \in Seq(AllCode) /\ end \in Seq(AllCode)
      BY GentleSets, SeqMonotonic, Cons
    <2>2. CASE pre = <<>>
      <3>1. c.todo = <<i>> \o post
        <4> HIDE DEF end
        <4>1. c.todo = end
          BY <1>3, <2>1, <2>2, ConcatEmptySeq DEF end
        <4> QED BY <4>1 DEF end
      <3> QED BY <1>0, <1>3, <3>1, CreateRuns
    <2>3. CASE pre # <<>>
      <3>1. Rescues(end) = {}
        <4> DEFINE a == <<i>>
        <4>1. a \in Seq(AllCode) /\ Rescues(a) = {} /\ end = a \o post
          BY <1>3, Single DEF Creates, Changes, IsRequest, Requests
        <4> HIDE DEF a, end
        <4> QED BY <1>3, <2>1, <4>1, RescuesOfConcat
      <3>2. \A y \in Seq(Gentle) : CreateAhead(y \o end)
        BY <1>3 DEF CreateAhead
      <3>3. Closed(Gentle) /\ Gentle \subseteq AllCode /\ c.todo = pre \o end
        BY <1>3, GentleSets
      <3> HIDE DEF end
      <3>4. /\ c.todo[1] = pre[1] /\ pre[1] \in Gentle /\ Parted(pre, end, c, d)
            /\ Onward(pre) \subseteq Seq(Gentle) /\ Caught(pre) \subseteq Seq(Gentle)
        <4>1. pre \in Seq(Gentle) /\ pre # <<>>
          BY <2>3
        <4> HIDE <1>3
        <4> QED BY <2>1, <3>3, <4>1, PartRuns
      <3>5. \A request \in d.changed : ~ Overwrite(request)
        BY <1>1, <3>4
      <3>6. CASE d.todo \in Then(Onward(pre), end) \cup Then(Caught(pre), end)
        <4>1. PICK y \in Seq(Gentle) : d.todo = y \o end
          BY <3>4, <3>6 DEF Then
        <4> QED BY <3>2, <3>5, <4>1 DEF GentleCall, BeforeCreate
      <3>7. CASE d.todo \in {<<>>, Escape(end)} \cup Caught(end)
        <4>1. d.todo = <<>>
          BY <3>1, <3>7 DEF Escape, Caught
        <4> QED BY <1>0, <3>5, <4>1 DEF GentleCall, BeforeCreate
      <3> QED BY <3>4, <3>6, <3>7 DEF Parted
    <2> QED BY <2>2, <2>3
  <1> QED BY <1>2, <1>3 DEF BeforeCreate, CreateAhead

\* A call of a tool that is not destructive begins before its create.
LEMMA GentleBegins ==
    ASSUME NEW item \in Offered, item \in Prompts \/ ~ item.destructive,
           NEW d, Begins(d, item)
    PROVE  GentleCall(d)
  <1> DEFINE code == Check \o item.code
  <1>1. /\ code \in Seq(AllCode) /\ d.todo = code
        /\ \A request \in d.changed : ~ Overwrite(request)
    BY CodeAssumption DEF Begins, Fresh
  <1>2. \/ code \in Seq(Gentle)
        \/ item.name \in TakesOver /\ code \in Seq(Applying)
        \/ \E n \in DOMAIN code, kind \in CreatedKinds : CreatesFirst(code, n, kind)
    BY DestructiveAssumption
  <1> HIDE DEF code
  <1>3. CASE code \in Seq(Gentle)
    BY <1>1, <1>3 DEF GentleCall, BeforeCreate
  <1>4. ASSUME NEW n \in DOMAIN code, NEW kind \in CreatedKinds,
               CreatesFirst(code, n, kind)
        PROVE  GentleCall(d)
    <2>1. n \in 1..Len(code)
      BY <1>1, LenProperties
    <2>2. code[n] \in AllCode /\ code = SubSeq(code, 1, n - 1) \o (<<code[n]>> \o Rest(code, n))
      <3>1. code \in Seq(AllCode)
        BY <1>1
      <3> QED BY <2>1, <3>1, SplitAt
    <2>3. /\ SubSeq(code, 1, n - 1) \in Seq(Gentle) /\ Creates(code[n], kind)
          /\ Rest(code, n) \in Seq(OwnOnly(kind)) /\ Rescues(Rest(code, n)) = {}
      BY <1>4 DEF CreatesFirst, Rest
    <2>4. CreateAhead(code)
      BY <2>2, <2>3 DEF CreateAhead
    <2> QED BY <1>1, <2>4 DEF GentleCall, BeforeCreate
  <1>5. CASE item.name \in TakesOver /\ code \in Seq(Applying)
    BY <1>1, <1>5 DEF GentleCall, ApplyingCall, Begins
  <1> QED BY <1>2, <1>3, <1>4, <1>5

\* GentleInv is kept by every step.
LEMMA GentleStep == Base /\ GentleInv /\ [Next]_vars => GentleInv'
  <1> SUFFICES ASSUME Base, GentleInv, [Next]_vars, config.DisableDestructive'
               PROVE  GentleCall(call')
    BY DEF GentleInv, GentleCall, BeforeCreate, AfterCreate, ApplyingCall
  <1>0. \A c : Fresh(c) /\ c.todo = <<>> => GentleCall(c)
    BY EmptySeq DEF Fresh, GentleCall, BeforeCreate
  <1>1. CASE config' = config /\ Moves(call, call')
    <2>1. GentleCall(call)
      BY <1>1 DEF GentleInv
    <2>2. CASE Ran(call, call')
      BY <2>1, <2>2, BeforeCreateRuns, AfterCreateRuns, ApplyingRuns DEF GentleCall
    <2>3. CASE Still(call, call')
      BY <2>1, <2>3 DEF Still, GentleCall, BeforeCreate, AfterCreate, ApplyingCall
    <2>4. CASE Fresh(call') /\ call'.todo = <<>>
      BY <1>0, <2>4
    <2> QED BY <1>1, <2>2, <2>3, <2>4 DEF Moves
  <1>2. CASE call' = Idle
    BY <1>0, <1>2, IdleIs
  <1>3. ASSUME NEW tool \in Tools, config' = config,
               Surface!IsToolApplicable(config, AnyProvider, tool), Begins(call', tool)
        PROVE  GentleCall(call')
    <2>1. ~ tool.destructive
      BY <1>3 DEF Surface!IsToolApplicable
    <2> QED BY <1>3, <2>1, GentleBegins DEF Offered
  <1>4. ASSUME NEW prompt \in Prompts, Begins(call', prompt)
        PROVE  GentleCall(call')
    BY <1>4, GentleBegins DEF Offered
  <1> QED BY <1>1, <1>2, <1>3, <1>4, StepIs

\* Under disable_destructive (IsToolApplicable in pkg/mcp), an exposed tool
\* deletes or changes only what is of a kind it created in the same call, where
\* the create comes first and its error ends the call; pods_run may besides take
\* over objects by its forced applies, and deletes nothing.
THEOREM DestructiveTheorem == Spec => []DestructiveDisabledDeletesNothing
  <1>1. Init => GentleInv
    BY IdleIs, EmptySeq DEF Init, GentleInv, GentleCall, BeforeCreate, Fresh
  <1>2. GentleInv => DestructiveDisabledDeletesNothing
    BY DEF GentleInv, GentleCall, BeforeCreate, AfterCreate, ApplyingCall,
           Overwrite, DestructiveDisabledDeletesNothing
  <1> QED BY InitBase, StepBase, GentleStep, <1>1, <1>2, PTL DEF Spec

-----------------------------------------------------------------------------
(* 8. Temporary objects.                                                    *)

TidyCode(todo) == todo \in Seq(AllCode) /\ Tidy(todo)

\* Tidy code, position by position.
LEMMA TidyIs ==
    ASSUME NEW todo \in Seq(AllCode)
    PROVE  TidyCode(todo) <=>
               \A j \in 1..Len(todo) : todo[j].op = "temporary" => Covered(todo, j)
  <1>1. DOMAIN todo = 1..Len(todo) /\ \A j \in 1..Len(todo) : todo[j] \in AllCode
    BY LenProperties, ElementOfSeq
  <1> QED BY <1>1 DEF TidyCode, Tidy

\* Tidy code followed by tidy code is tidy.
LEMMA TidyConcat ==
    ASSUME NEW s, NEW t, TidyCode(s), TidyCode(t)
    PROVE  TidyCode(s \o t)
  <1> DEFINE st == s \o t
  <1>0. s \in Seq(AllCode) /\ t \in Seq(AllCode)
    BY DEF TidyCode
  <1>1. /\ st \in Seq(AllCode) /\ Len(s) \in Nat /\ Len(t) \in Nat
        /\ Len(st) = Len(s) + Len(t)
        /\ \A j \in 1..(Len(s) + Len(t)) :
              st[j] = IF j <= Len(s) THEN s[j] ELSE t[j - Len(s)]
    BY <1>0, ConcatProperties, LenProperties
  <1>2. /\ \A j \in 1..Len(s) : s[j].op = "temporary" => Covered(s, j)
        /\ \A j \in 1..Len(t) : t[j].op = "temporary" => Covered(t, j)
    BY <1>0, TidyIs
  <1> HIDE DEF st
  <1>3. ASSUME NEW j \in 1..Len(st), st[j].op = "temporary" PROVE Covered(st, j)
    <2>1. CASE j <= Len(s)
      <3>1. j \in 1..Len(s) /\ st[j] = s[j]
        BY <1>1, <2>1
      <3>2. Covered(s, j)
        BY <1>2, <1>3, <3>1
      <3>3. j + 2 <= Len(s)
        BY <3>2 DEF Covered
      <3>4. st[j + 1] = s[j + 1] /\ st[j + 2] = s[j + 2] /\ j + 2 <= Len(st)
        <4>1. /\ j + 1 \in 1..(Len(s) + Len(t)) /\ j + 1 <= Len(s)
              /\ j + 2 \in 1..(Len(s) + Len(t))
          BY <1>1, <3>1, <3>3
        <4> QED BY <1>1, <3>3, <4>1
      <3> QED BY <3>1, <3>2, <3>4 DEF Covered
    <2>2. CASE ~ (j <= Len(s))
      <3> DEFINE i == j - Len(s)
      <3>1. i \in 1..Len(t) /\ st[j] = t[i] /\ j = Len(s) + i
        BY <1>1, <2>2
      <3> HIDE DEF i
      <3>2. Covered(t, i)
        BY <1>2, <1>3, <3>1
      <3>3. i + 2 <= Len(t)
        BY <3>2 DEF Covered
      <3>4. st[j + 1] = t[i + 1] /\ st[j + 2] = t[i + 2] /\ j + 2 <= Len(st)
        <4>1. /\ j + 1 \in 1..(Len(s) + Len(t)) /\ ~ (j + 1 <= Len(s))
              /\ j + 1 - Len(s) = i + 1
              /\ j + 2 \in 1..(Len(s) + Len(t)) /\ ~ (j + 2 <= Len(s))
              /\ j + 2 - Len(s) = i + 2
          BY <1>1, <3>1, <3>3
        <4> QED BY <1>1, <3>1, <3>3, <4>1
      <3> QED BY <3>1, <3>2, <3>4 DEF Covered
    <2> QED BY <2>1, <2>2
  <1>4. TidyCode(st)
    BY <1>1, <1>3, TidyIs
  <1> QED BY <1>4 DEF st

\* The rest of tidy code is tidy.
LEMMA TidySuffix ==
    ASSUME NEW s, TidyCode(s), NEW n \in 0..Len(s)
    PROVE  TidyCode(Rest(s, n))
  <1> DEFINE r == Rest(s, n)
  <1>1. /\ s \in Seq(AllCode) /\ r \in Seq(AllCode) /\ Len(r) = Len(s) - n
        /\ Len(s) \in Nat /\ \A j \in 1..(Len(s) - n) : r[j] = s[n + j]
    BY Suffixes, LenProperties DEF TidyCode
  <1>2. \A j \in 1..Len(s) : s[j].op = "temporary" => Covered(s, j)
    BY <1>1, TidyIs
  <1> HIDE DEF r
  <1>3. ASSUME NEW j \in 1..Len(r), r[j].op = "temporary" PROVE Covered(r, j)
    <2>1. r[j] = s[n + j] /\ n + j \in 1..Len(s)
      BY <1>1
    <2>2. Covered(s, n + j)
      BY <1>2, <1>3, <2>1
    <2>3. n + j + 2 <= Len(s)
      BY <2>2 DEF Covered
    <2>4. r[j + 1] = s[n + j + 1] /\ r[j + 2] = s[n + j + 2] /\ j + 2 <= Len(r)
      <3>1. /\ j + 1 \in 1..(Len(s) - n) /\ n + (j + 1) = n + j + 1
            /\ j + 2 \in 1..(Len(s) - n) /\ n + (j + 2) = n + j + 2
        BY <1>1, <2>3
      <3>2. j + 2 <= Len(r)
        BY <1>1, <2>3
      <3> QED BY <1>1, <3>1, <3>2
    <2> QED BY <2>1, <2>2, <2>4 DEF Covered
  <1>4. TidyCode(r)
    BY <1>1, <1>3, TidyIs
  <1> QED BY <1>4 DEF r

\* Code without temporary objects, and code behind a single instruction.
LEMMA TidyPlain ==
    /\ TidyCode(<<>>)
    /\ \A s \in Seq(Plain) : s \in Seq(AllCode) /\ TidyCode(s)
    /\ \A i \in AllCode : \A t :
          i.op # "temporary" /\ TidyCode(t) =>
             TidyCode(<<i>> \o t) /\ t \in Seq(AllCode) /\ <<i>> \o t \in Seq(AllCode)
  <1>1. Plain \subseteq AllCode /\ \A i \in Plain : i.op # "temporary"
    BY TemporaryAssumption
  <1>2. ASSUME NEW s \in Seq(Plain) PROVE s \in Seq(AllCode) /\ TidyCode(s)
    <2>1. s \in Seq(AllCode) /\ \A j \in 1..Len(s) : s[j] \in Plain
      BY <1>1, SeqMonotonic, ElementOfSeq
    <2> QED BY <1>1, <2>1, TidyIs
  <1>3. TidyCode(<<>>)
    BY <1>2, EmptySeq
  <1>4. ASSUME NEW i \in AllCode, NEW t, i.op # "temporary", TidyCode(t)
        PROVE  TidyCode(<<i>> \o t) /\ t \in Seq(AllCode) /\ <<i>> \o t \in Seq(AllCode)
    <2> DEFINE a == <<i>>
    <2>1. a \in Seq(AllCode) /\ Len(a) = 1 /\ a[1] = i
      OBVIOUS
    <2> HIDE DEF a
    <2>2. TidyCode(a)
      <3>1. \A j \in 1..Len(a) : j = 1
        BY <2>1
      <3> QED BY <1>4, <2>1, <3>1, TidyIs
    <2>3. TidyCode(a \o t)
      BY <1>4, <2>2, TidyConcat
    <2> QED BY <1>4, <2>3 DEF TidyCode, a
  <1> QED BY <1>2, <1>3, <1>4

\* Tidy code leads to tidy code.
LEMMA TidyOnward ==
    ASSUME NEW todo, TidyCode(todo), todo # <<>>
    PROVE  /\ \A x \in Onward(todo) : TidyCode(x)
           /\ \A x \in Caught(todo) : TidyCode(x)
           /\ TidyCode(Tail(todo)) /\ todo[1] \in AllCode
  <1>0. todo \in Seq(AllCode)
    BY DEF TidyCode
  <1>1. /\ todo[1] \in AllCode /\ Tail(todo) = Rest(todo, 1)
        /\ Len(todo) \in Nat /\ Len(todo) >= 1
    BY <1>0, TailRest
  <1>2. TidyCode(Tail(todo))
    <2>1. 1 \in 0..Len(todo)
      BY <1>1
    <2> QED BY <1>1, <2>1, TidySuffix
  <1>3. \A i \in AllCode : \A code \in i.body \cup i.rescue : TidyCode(code)
    BY CodeAssumption, TemporaryAssumption DEF Closed, IsInside, TidyCode
  <1>4. Rescues(todo) # {} =>
           /\ TidyCode(Rest(todo, Innermost(todo)))
           /\ \A code \in todo[Innermost(todo)].rescue : TidyCode(code)
    <2> SUFFICES ASSUME Rescues(todo) # {}
                 PROVE  /\ TidyCode(Rest(todo, Innermost(todo)))
                        /\ \A code \in todo[Innermost(todo)].rescue : TidyCode(code)
      OBVIOUS
    <2>1. Innermost(todo) \in 1..Len(todo) /\ Innermost(todo) \in 0..Len(todo)
      BY <1>0, <1>1, InnermostIsFirst
    <2>2. todo[Innermost(todo)] \in AllCode
      BY <1>0, <2>1, ElementOfSeq
    <2> QED BY <1>3, <2>1, <2>2, TidySuffix
  <1>5. TidyCode(Escape(todo))
    BY <1>4, TidyPlain DEF Escape
  <1>6. \A x \in Caught(todo) : TidyCode(x)
    BY <1>4, TidyConcat DEF Caught
  <1>7. ASSUME NEW x \in Onward(todo) PROVE TidyCode(x)
    <2>1. CASE todo[1].op = "either"
      <3>1. PICK code \in todo[1].body : x = code \o Tail(todo)
        BY <1>7, <2>1 DEF Onward
      <3> QED BY <1>1, <1>2, <1>3, <3>1, TidyConcat
    <2>2. CASE todo[1].op = "attempt"
      <3> DEFINE k == CatchOf(todo[1])
                 t == Tail(todo)
      <3>1. PICK code \in todo[1].body : x = code \o <<k>> \o t
        BY <1>7, <2>2 DEF Onward
      <3>2. k \in AllCode /\ k.op # "temporary"
        BY <1>1, <2>2, CodeAssumption DEF Closed, IsInside, CatchOf, Instr
      <3>3. TidyCode(code) /\ TidyCode(t)
        BY <1>1, <1>2, <1>3
      <3> HIDE DEF k, t
      <3>4. <<k>> \in Seq(AllCode)
        BY <3>2
      <3>5. TidyCode(<<k>>)
        <4>1. <<k>> \o <<>> = <<k>>
          BY <3>4, ConcatEmptySeq
        <4>2. TidyCode(<<k>> \o <<>>)
          BY <3>2, TidyPlain
        <4> QED BY <4>1, <4>2
      <3>6. TidyCode(code \o <<k>>)
        BY <3>3, <3>5, TidyConcat
      <3>7. TidyCode((code \o <<k>>) \o t)
        BY <3>3, <3>6, TidyConcat
      <3> QED BY <3>1, <3>7
    <2>3. CASE todo[1].op = "return"
      BY <1>5, <1>7, <2>3 DEF Onward
    <2>4. CASE todo[1].op \notin {"either", "attempt", "return"}
      BY <1>2, <1>7, <2>4 DEF Onward
    <2> QED BY <2>1, <2>2, <2>3, <2>4
  <1> QED BY <1>1, <1>2, <1>6, <1>7

\* The removal comes next; it comes after the body, and after its errors;
\* the body has not begun.
Ending(todo, kind) ==
    \E u \in AllCode, rest \in Seq(AllCode) :
        IsCleanup(u, kind) /\ TidyCode(rest) /\ todo = <<u>> \o rest
Guarded(todo, kind) ==
    \E pre \in Seq(Plain), g \in AllCode, end \in Seq(AllCode) :
        /\ g.op = "catch" /\ Guards(g, kind) /\ Ending(end, kind)
        /\ todo = pre \o (<<g>> \o end)
Guarding(todo, kind) ==
    \E a \in AllCode, end \in Seq(AllCode) :
        /\ a.op = "attempt" /\ a.body \subseteq Seq(Plain) /\ Guards(a, kind)
        /\ Ending(end, kind) /\ todo = <<a>> \o end

Owes(c, kind) ==
    /\ c.owed = {kind} /\ Permitted(kind)
    /\ Ending(c.todo, kind) \/ Guarded(c.todo, kind) \/ Guarding(c.todo, kind)
TidyCall(c) ==
    \/ c.owed = {} /\ TidyCode(c.todo)
    \/ \E kind \in c.owed : Owes(c, kind)

\* A call that owes nothing runs on: it still does not, or has just created an
\* object and the body that guards it is next.
LEMMA TidyRuns ==
    ASSUME NEW c, NEW d, Ran(c, d), c.owed = {}, TidyCode(c.todo)
    PROVE  TidyCall(d)
  <1> DEFINE todo == c.todo
             h == todo[1]
  <1>1. /\ todo # <<>> /\ \A x \in Onward(todo) : TidyCode(x)
        /\ \A x \in Caught(todo) : TidyCode(x)
        /\ TidyCode(Tail(todo)) /\ h \in AllCode /\ todo \in Seq(AllCode)
    BY TidyOnward DEF Ran, TidyCode
  <1>2. TidyCode(d.todo)
    BY <1>1, TidyPlain DEF Ran, Proceeds, Errs
  <1>3. CASE d.owed = {}
    BY <1>2, <1>3 DEF TidyCall
  <1>4. CASE d.owed # {}
    <2>1. /\ h.op = "temporary" /\ Permitted(h.kind) /\ d.owed = {h.kind} /\ Proceeds(c, d)
      BY <1>4 DEF Ran, Errs
    <2>2. d.todo = Tail(todo)
      BY <2>1 DEF Proceeds, Onward
    <2>3. Covered(todo, 1)
      <3>1. 1 \in 1..Len(todo)
        BY <1>1, TailRest
      <3> QED BY <1>1, <2>1, <3>1, TidyIs
    <2>4. 3 <= Len(todo) /\ Len(todo) \in Nat
      BY <1>1, <2>3, LenProperties DEF Covered
    <2> DEFINE t == Tail(todo)
               r == Tail(t)
               k == h.kind
    <2>5. /\ t \in Seq(AllCode) /\ Len(t) = Len(todo) - 1
          /\ t[1] = todo[1 + 1] /\ t[2] = todo[1 + 2] /\ TidyCode(t)
      <3>1. 1 \in 1..(Len(todo) - 1) /\ 2 \in 1..(Len(todo) - 1)
        BY <2>4
      <3>2. todo \in Seq(AllCode) /\ todo # <<>>
        BY <1>1
      <3> QED BY <1>1, <3>1, <3>2, Uncons
    <2>6. /\ t[1].op = "attempt" /\ t[1].body \subseteq Seq(Plain)
          /\ Guards(t[1], k) /\ IsCleanup(t[2], k)
      BY <2>3, <2>5 DEF Covered
    <2> HIDE DEF t, k
    <2>7. /\ t # <<>> /\ t[1] \in AllCode /\ r \in Seq(AllCode) /\ t = <<t[1]>> \o r
          /\ Len(r) = Len(t) - 1 /\ r[1] = t[2] /\ TidyCode(r)
      <3>1. t # <<>> /\ 1 \in 1..(Len(t) - 1)
        BY <2>4, <2>5, EmptySeq
      <3> QED BY <2>5, <3>1, Uncons, TidyOnward
    <2> HIDE DEF r
    <2>8. /\ r[1] \in AllCode /\ Tail(r) \in Seq(AllCode) /\ r = <<r[1]>> \o Tail(r)
          /\ TidyCode(Tail(r))
      <3>1. r # <<>>
        BY <2>4, <2>5, <2>7, EmptySeq
      <3> QED BY <2>7, <3>1, Uncons, TidyOnward
    <2>9. Ending(r, k)
      BY <2>6, <2>7, <2>8 DEF Ending
    <2>10. Guarding(t, k)
      BY <2>6, <2>7, <2>9 DEF Guarding
    <2>11. Owes(d, k) /\ k \in d.owed
      BY <2>1, <2>2, <2>10 DEF Owes, t, k
    <2> QED BY <2>11 DEF TidyCall
  <1> QED BY <1>3, <1>4

\* Code whose next instruction is the removal, also after a rescue that tidies.
LEMMA EndingCode ==
    ASSUME NEW kind, NEW todo, Ending(todo, kind)
    PROVE  /\ todo \in Seq(AllCode) /\ TidyCode(todo) /\ todo # <<>>
           /\ IsCleanup(todo[1], kind) /\ TidyCode(Tail(todo))
           /\ \A code \in Seq(AllCode) : Tidies(code, kind) => Ending(code \o todo, kind)
  <1>1. PICK u \in AllCode, rest \in Seq(AllCode) :
           IsCleanup(u, kind) /\ TidyCode(rest) /\ todo = <<u>> \o rest
    BY DEF Ending
  <1>2. /\ todo \in Seq(AllCode) /\ todo # <<>> /\ todo[1] = u /\ Tail(todo) = rest
    BY <1>1, Cons
  <1>3. TidyCode(todo)
    BY <1>1, TidyPlain DEF IsCleanup
  <1>4. ASSUME NEW code \in Seq(AllCode), Tidies(code, kind)
        PROVE  Ending(code \o todo, kind)
    <2>1. code # <<>> /\ IsCleanup(code[1], kind) /\ Tail(code) \in Seq(Plain)
      BY <1>4 DEF Tidies
    <2>2. code[1] \in AllCode /\ Tail(code) \in Seq(AllCode) /\ code = <<code[1]>> \o Tail(code)
      BY <2>1, Uncons
    <2> DEFINE a == <<code[1]>>
               t == Tail(code)
    <2>3. a \in Seq(AllCode) /\ t \in Seq(AllCode) /\ code = a \o t /\ TidyCode(t)
      <3>1. TidyCode(t)
        BY <2>1, TidyPlain
      <3> QED BY <2>2, <3>1
    <2> HIDE DEF a, t
    <2>4. (a \o t) \o todo = a \o (t \o todo)
      BY <1>2, <2>3, Regroup
    <2>5. TidyCode(t \o todo) /\ t \o todo \in Seq(AllCode)
      BY <1>3, <2>3, TidyConcat DEF TidyCode
    <2>6. code \o todo = <<code[1]>> \o (t \o todo)
      BY <2>3, <2>4 DEF a
    <2> QED BY <2>1, <2>2, <2>5, <2>6 DEF Ending
  <1> QED BY <1>1, <1>2, <1>3, <1>4

\* The removal is made whatever the rules are.
LEMMA EndingRuns ==
    ASSUME CleanupsNeedNoAnswer, client \in Settings,
           NEW c, NEW d, Ran(c, d), NEW kind, c.owed = {kind}, Permitted(kind),
           Ending(c.todo, kind)
    PROVE  TidyCall(d)
  <1> DEFINE h == c.todo[1]
  <1>1. IsCleanup(h, kind) /\ TidyCode(Tail(c.todo))
    BY EndingCode
  <1>2. h \in AllCode /\ h.op = "cleanup" /\ h.verb = "delete" /\ h.kind = kind
    BY <1>1 DEF IsCleanup
  <1>3. ~ Needs(h)
    BY <1>2 DEF CleanupsNeedNoAnswer, Needs
  <1>4. d.owed = {}
    BY <1>2, <1>3 DEF Ran
  <1>5. d.todo = Tail(c.todo)
    <2>1. ~ CanFail(h)
      BY <1>2 DEF CanFail, IsBestEffort
    <2> QED BY <1>2, <2>1 DEF Ran, Errs, Proceeds, Onward
  <1> QED BY <1>1, <1>4, <1>5 DEF TidyCall

\* Inside the body: a step stays in it, or comes to the removal.
LEMMA GuardedRuns ==
    ASSUME NEW c, NEW d, Ran(c, d), NEW kind, c.owed = {kind}, Permitted(kind),
           Guarded(c.todo, kind)
    PROVE  Owes(d, kind)
  <1>1. PICK pre \in Seq(Plain), g \in AllCode, end \in Seq(AllCode) :
           /\ g.op = "catch" /\ Guards(g, kind) /\ Ending(end, kind)
           /\ c.todo = pre \o (<<g>> \o end)
    BY DEF Guarded
  <1> DEFINE post == <<g>> \o end
  <1>2. /\ post \in Seq(AllCode) /\ post # <<>> /\ post[1] = g /\ Tail(post) = end
        /\ Rescues(post) # {} /\ Escape(post) = end /\ Caught(post) = Then(g.rescue, end)
    BY <1>1, Cons, CatchFirst
  <1>3. \A y \in Seq(Plain) : Guarded(y \o post, kind)
    BY <1>1 DEF Guarded
  <1>4. c.todo = pre \o post
    BY <1>1
  <1> HIDE DEF post
  <1>5. CASE pre = <<>>
    <2>1. c.todo = post
      BY <1>2, <1>4, <1>5, ConcatEmptySeq
    <2>2. d.todo = end /\ d.owed = c.owed
      BY <1>1, <1>2, <2>1 DEF Ran, Proceeds, Errs, Onward, CanFail, IsRequest, Requests
    <2> QED BY <1>1, <2>2 DEF Owes
  <1>6. CASE pre # <<>>
    <2>1. /\ c.todo[1] = pre[1] /\ pre[1] \in Plain /\ Parted(pre, post, c, d)
          /\ Onward(pre) \subseteq Seq(Plain) /\ Caught(pre) \subseteq Seq(Plain)
      <3>1. Closed(Plain) /\ Plain \subseteq AllCode /\ pre \in Seq(Plain) /\ pre # <<>>
        BY <1>6, TemporaryAssumption
      <3>2. post \in Seq(AllCode)
        BY <1>2
      <3> QED BY <1>4, <3>1, <3>2, PartRuns
    <2>2. d.owed = c.owed
      <3>1. pre[1].op \notin {"temporary", "cleanup"}
        BY <2>1, TemporaryAssumption
      <3> QED BY <2>1, <3>1 DEF Ran
    <2>3. CASE d.todo \in Then(Onward(pre), post) \cup Then(Caught(pre), post)
      BY <1>3, <2>1, <2>2, <2>3 DEF Then, Owes
    <2>4. CASE d.todo = Escape(post)
      BY <1>1, <1>2, <2>2, <2>4 DEF Owes
    <2>5. CASE d.todo \in Caught(post)
      <3>1. PICK code \in g.rescue : d.todo = code \o end
        BY <1>2, <2>5 DEF Then
      <3>2. code \in Seq(AllCode) /\ Tidies(code, kind)
        BY <1>1, CodeAssumption DEF Closed, IsInside, Guards
      <3>3. Ending(d.todo, kind)
        BY <1>1, <3>1, <3>2, EndingCode
      <3> QED BY <2>2, <3>3 DEF Owes
    <2> QED BY <1>2, <2>1, <2>3, <2>4, <2>5 DEF Parted
  <1> QED BY <1>5, <1>6

\* Before the body: a step enters it, with its catch behind it.
LEMMA GuardingRuns ==
    ASSUME NEW c, NEW d, Ran(c, d), NEW kind, c.owed = {kind}, Permitted(kind),
           Guarding(c.todo, kind)
    PROVE  Owes(d, kind)
  <1>1. PICK a \in AllCode, end \in Seq(AllCode) :
           /\ a.op = "attempt" /\ a.body \subseteq Seq(Plain) /\ Guards(a, kind)
           /\ Ending(end, kind) /\ c.todo = <<a>> \o end
    BY DEF Guarding
  <1>2. c.todo[1] = a /\ Tail(c.todo) = end
    BY <1>1, Cons
  <1>3. Proceeds(c, d) /\ d.owed = c.owed
    BY <1>1, <1>2 DEF Ran, Errs, CanFail, IsRequest, Requests
  <1> DEFINE g == CatchOf(a)
  <1>4. PICK code \in a.body : d.todo = code \o <<g>> \o end
    BY <1>1, <1>2, <1>3 DEF Proceeds, Onward
  <1>5. g \in AllCode /\ g.op = "catch" /\ g.rescue = a.rescue
    BY <1>1, CodeAssumption DEF Closed, IsInside, CatchOf, Instr
  <1>6. Guards(g, kind) /\ code \in Seq(Plain) /\ code \in Seq(AllCode)
    BY <1>1, <1>5, TidyPlain DEF Guards
  <1> HIDE DEF g
  <1>7. d.todo = code \o (<<g>> \o end)
    <2> DEFINE b == <<g>>
    <2>1. b \in Seq(AllCode) /\ code \in Seq(AllCode) /\ d.todo = (code \o b) \o end
      BY <1>4, <1>5, <1>6
    <2> HIDE DEF b
    <2>2. (code \o b) \o end = code \o (b \o end)
      BY <2>1, Regroup
    <2> QED BY <2>1, <2>2 DEF b
  <1>8. Guarded(d.todo, kind)
    BY <1>1, <1>5, <1>6, <1>7 DEF Guarded
  <1> QED BY <1>3, <1>8 DEF Owes

\* TidyCall is kept by every step if removals need no answer.
LEMMA TidyStep ==
    CleanupsNeedNoAnswer /\ Base /\ TidyCall(call) /\ [Next]_vars => TidyCall(call)'
  <1> SUFFICES ASSUME CleanupsNeedNoAnswer, Base, TidyCall(call), [Next]_vars
               PROVE  TidyCall(call)'
    OBVIOUS
  <1>0. client' = client /\ client \in Settings
    BY StepIs DEF Base
  <1>1. TidyCall(call') => TidyCall(call)'
    BY <1>0 DEF TidyCall, Owes, Permitted
  <1>2. \A c : Fresh(c) /\ c.todo = <<>> => TidyCall(c)
    BY TidyPlain DEF Fresh, TidyCall
  <1>3. CASE Moves(call, call')
    <2>1. CASE Ran(call, call')
      <3>1. CASE call.owed = {} /\ TidyCode(call.todo)
        BY <1>1, <2>1, <3>1, TidyRuns
      <3>2. ASSUME NEW kind \in call.owed, Owes(call, kind) PROVE TidyCall(call')
        <4>1. call.owed = {kind} /\ Permitted(kind)
          BY <3>2 DEF Owes
        <4>2. CASE Ending(call.todo, kind)
          BY <1>0, <2>1, <4>1, <4>2, EndingRuns
        <4>3. CASE Guarded(call.todo, kind) \/ Guarding(call.todo, kind)
          <5>1. Owes(call', kind)
            BY <2>1, <4>1, <4>3, GuardedRuns, GuardingRuns
          <5> QED BY <5>1 DEF TidyCall, Owes
        <4> QED BY <3>2, <4>2, <4>3 DEF Owes
      <3> QED BY <1>1, <3>1, <3>2 DEF TidyCall
    <2>2. CASE Still(call, call')
      BY <1>1, <2>2 DEF Still, TidyCall, Owes
    <2>3. CASE Fresh(call') /\ call'.todo = <<>>
      BY <1>1, <1>2, <2>3
    <2> QED BY <1>3, <2>1, <2>2, <2>3 DEF Moves
  <1>4. CASE call' = Idle
    BY <1>1, <1>2, <1>4, IdleIs
  <1>5. ASSUME NEW item \in Offered, Begins(call', item) PROVE TidyCall(call')
    BY <1>5, CodeAssumption, TemporaryAssumption DEF Begins, Fresh, TidyCall, TidyCode
  <1> QED BY <1>1, <1>3, <1>4, <1>5, StepIs DEF Offered

\* A debug pod, once created, is deleted or its deletion attempted before the
\* call is over, after an error, a refusal, a return or a cancellation, unless
\* a rule asks for consent to the deletion (see MCToolCallsCleanup).
THEOREM TemporaryTheorem ==
    ASSUME CleanupsNeedNoAnswer
    PROVE  Spec => []TemporaryObjectsRemoved
  <1>1. Init => TidyCall(call)
    BY IdleIs, TidyPlain DEF Init, TidyCall, Fresh
  <1>2. TidyCall(call) /\ [Next]_vars /\ Base => TidyCall(call)'
    BY TidyStep
  <1>3. Base /\ TidyCall(call) => TemporaryObjectsRemoved
    <2> SUFFICES ASSUME Base, TidyCall(call), Over PROVE call.owed = {}
      BY DEF TemporaryObjectsRemoved
    <2>1. call.todo = <<>>
      BY DEF Base, Over
    <2>2. \A s, t : s \in Seq(AllCode) /\ t \in Seq(AllCode) /\ t # <<>> => s \o t # <<>>
      BY ConcatEqualIffEmpty
    <2>3. ASSUME NEW kind, Owes(call, kind) PROVE FALSE
      <3>1. ~ Ending(<<>>, kind)
        BY EndingCode
      <3>2. ~ Guarding(<<>>, kind)
        BY Cons DEF Guarding
      <3>3. ~ Guarded(<<>>, kind)
        BY <2>2, Cons, TidyPlain DEF Guarded
      <3> QED BY <2>1, <2>3, <3>1, <3>2, <3>3 DEF Owes
    <2> QED BY <2>3 DEF TidyCall
  <1> QED BY InitBase, StepBase, <1>1, <1>2, <1>3, PTL DEF Spec
=============================================================================
