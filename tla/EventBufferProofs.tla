------------------------- MODULE EventBufferProofs -------------------------
(* Proofs about EventBuffer, for any events, receivers and filters.          *)
EXTENDS EventBuffer, SequenceTheorems, FiniteSetTheorems, TLAPS

-----------------------------------------------------------------------------
(* Sequences that hold an event at most once.                                *)

Items(s, I) == {s[i] : i \in I}

Once(s) == \A i, j \in DOMAIN s : s[i] = s[j] => i = j

(* The empty sequence.                                                       *)
LEMMA OnceEmpty == Once(<<>>) /\ Range(<<>>) = {}
  BY DEF Once, Range

(* Two sequences put one after the other, as recv() does with the skipped    *)
(* events and the backlog.                                                   *)
LEMMA OnceConcat ==
  ASSUME NEW S, NEW s \in Seq(S), NEW t \in Seq(S)
  PROVE  /\ s \o t \in Seq(S)
         /\ Range(s \o t) = Range(s) \cup Range(t)
         /\ Once(s) /\ Once(t) /\ Range(s) \cap Range(t) = {} => Once(s \o t)
<1>1. s \o t \in Seq(S) /\ Range(s \o t) = Range(s) \cup Range(t)
  BY RangeConcatenation
<1>2. ASSUME Once(s), Once(t), Range(s) \cap Range(t) = {} PROVE Once(s \o t)
  <2>1. /\ DOMAIN (s \o t) = 1..(Len(s) + Len(t))
        /\ DOMAIN s = 1..Len(s) /\ DOMAIN t = 1..Len(t)
        /\ Len(s) \in Nat /\ Len(t) \in Nat
    OBVIOUS
  <2>2. \A i \in 1..(Len(s) + Len(t)) :
           (s \o t)[i] = IF i <= Len(s) THEN s[i] ELSE t[i - Len(s)]
    BY ConcatProperties
  <2>3. \A i \in DOMAIN s, j \in DOMAIN t : s[i] # t[j]
    BY <1>2 DEF Range
  <2> QED BY <1>2, <2>1, <2>2, <2>3 DEF Once
<1> QED BY <1>1, <1>2

(* An event added at the end.                                                *)
LEMMA OnceAppend ==
  ASSUME NEW S, NEW s \in Seq(S), NEW e \in S
  PROVE  /\ Append(s, e) \in Seq(S)
         /\ Range(Append(s, e)) = Range(s) \cup {e}
         /\ Once(s) /\ e \notin Range(s) => Once(Append(s, e))
<1> DEFINE t == <<e>>
<1>1. t \in Seq(S) /\ Append(s, e) = s \o t
  BY AppendIsConcat
<1>2. Once(t)
  BY DEF Once
<1>3. Range(t) = {e}
  BY DEF Range
<1> HIDE DEF t
<1> QED BY <1>1, <1>2, <1>3, OnceConcat

(* A section of a sequence.                                                  *)
LEMMA OnceSubSeq ==
  ASSUME NEW S, NEW s \in Seq(S), NEW a \in Nat \ {0}, NEW b \in Nat, b <= Len(s)
  PROVE  /\ SubSeq(s, a, b) \in Seq(S)
         /\ Range(SubSeq(s, a, b)) = Items(s, a..b)
         /\ Once(s) => Once(SubSeq(s, a, b))
<1>1. /\ SubSeq(s, a, b) \in Seq(S)
      /\ Len(SubSeq(s, a, b)) = IF a <= b THEN b - a + 1 ELSE 0
      /\ \A i \in 1..(b - a + 1) : SubSeq(s, a, b)[i] = s[a + i - 1]
  <2>1. \A i \in a..b : s[i] \in S
    OBVIOUS
  <2> QED BY <2>1, SubSeqProperties
<1> DEFINE t == SubSeq(s, a, b)
<1>2. DOMAIN t = 1..Len(t) /\ (a <= b => Len(t) = b - a + 1) /\ (b < a => Len(t) = 0)
  BY <1>1
<1>3. \A i \in DOMAIN t : a + i - 1 \in a..b /\ t[i] = s[a + i - 1]
  BY <1>1, <1>2
<1>4. \A i \in a..b : (i - a) + 1 \in DOMAIN t /\ t[(i - a) + 1] = s[i]
  <2> SUFFICES ASSUME NEW i \in a..b PROVE (i - a) + 1 \in DOMAIN t /\ t[(i - a) + 1] = s[i]
    OBVIOUS
  <2>1. (i - a) + 1 \in 1..(b - a + 1) /\ a + ((i - a) + 1) - 1 = i /\ a <= b
    OBVIOUS
  <2> QED BY <1>1, <1>2, <2>1
<1>5. a..b \subseteq DOMAIN s
  OBVIOUS
<1> HIDE DEF t
<1>6. Range(t) = Items(s, a..b)
  <2> DEFINE at(i) == a + i - 1
             from(i) == (i - a) + 1
  <2>1. \A i \in DOMAIN t : at(i) \in a..b /\ t[i] = s[at(i)]
    BY <1>3
  <2>2. \A i \in a..b : from(i) \in DOMAIN t /\ t[from(i)] = s[i]
    BY <1>4
  <2> HIDE DEF at, from
  <2> QED BY <2>1, <2>2, Zenon DEF Range, Items
<1>7. ASSUME Once(s) PROVE Once(t)
  <2> SUFFICES ASSUME NEW i \in DOMAIN t, NEW j \in DOMAIN t, t[i] = t[j] PROVE i = j
    BY DEF Once
  <2>1. a + i - 1 = a + j - 1
    BY <1>3, <1>5, <1>7 DEF Once
  <2>2. i \in Nat /\ j \in Nat
    BY <1>2
  <2> QED BY <2>1, <2>2
<1> QED BY <1>1, <1>6, <1>7 DEF t

(* The events at two sets of places.                                         *)
LEMMA ItemsUnion ==
  ASSUME NEW s, NEW I, NEW J
  PROVE  Items(s, I) \cup Items(s, J) = Items(s, I \cup J)
  BY DEF Items

(* A sequence holds the events at all its places.                            *)
LEMMA RangeIsItems ==
  ASSUME NEW S, NEW s \in Seq(S) PROVE Range(s) = Items(s, 1..Len(s))
  BY DEF Range, Items

(* Stretches of a sequence that do not overlap share nothing.                *)
LEMMA StretchesApart ==
  ASSUME NEW S, NEW s \in Seq(S), Once(s),
         NEW I, I \subseteq 1..Len(s), NEW J, J \subseteq 1..Len(s), I \cap J = {}
  PROVE  Items(s, I) \cap Items(s, J) = {}
  BY DEF Once, Items

(* What is left of a sequence without its item i: up to item k, and beyond.  *)
UpTo(s, i, k)   == SubSeq(s, 1, i - 1) \o SubSeq(s, i + 1, k)
Beyond(s, i, k) == SubSeq(s, IF i > k THEN i + 1 ELSE k + 1, Len(s))

(* Cutting the event at i out of a sequence splits it into three parts that  *)
(* share no event.                                                           *)
LEMMA CutOut ==
  ASSUME NEW S, NEW s \in Seq(S), Once(s), NEW k \in 0..Len(s), NEW i \in 1..Len(s)
  PROVE  /\ UpTo(s, i, k) \in Seq(S) /\ Once(UpTo(s, i, k))
         /\ Beyond(s, i, k) \in Seq(S) /\ Once(Beyond(s, i, k))
         /\ Range(UpTo(s, i, k)) \cup {s[i]} \cup Range(Beyond(s, i, k)) = Range(s)
         /\ Range(UpTo(s, i, k)) \cap {s[i]} = {}
         /\ Range(UpTo(s, i, k)) \cap Range(Beyond(s, i, k)) = {}
         /\ {s[i]} \cap Range(Beyond(s, i, k)) = {}
<1> DEFINE c == IF i > k THEN i + 1 ELSE k + 1
           l == UpTo(s, i, k)
           m == Beyond(s, i, k)
<1>0. m = SubSeq(s, c, Len(s))
  BY DEF Beyond
<1>1. /\ Len(s) \in Nat /\ i \in Nat /\ i - 1 \in Nat /\ i + 1 \in Nat \ {0} /\ k \in Nat
      /\ c \in Nat \ {0} /\ i - 1 <= Len(s) /\ k <= Len(s)
  OBVIOUS
<1> DEFINE A == 1..(i - 1)
           B == (i + 1)..k
           C == c..Len(s)
           a == SubSeq(s, 1, i - 1)
           b == SubSeq(s, i + 1, k)
<1>2. /\ A \cup B \cup {i} \cup C = 1..Len(s)
      /\ A \subseteq 1..Len(s) /\ B \subseteq 1..Len(s) /\ {i} \subseteq 1..Len(s)
      /\ C \subseteq 1..Len(s) /\ A \cup B \subseteq 1..Len(s)
      /\ A \cap B = {} /\ (A \cup B) \cap {i} = {} /\ (A \cup B) \cap C = {} /\ {i} \cap C = {}
  BY <1>1
<1>3. a \in Seq(S) /\ Once(a) /\ Range(a) = Items(s, A)
  <2>1. 1 \in Nat \ {0}
    OBVIOUS
  <2> QED BY <1>1, <2>1, OnceSubSeq
<1>4. b \in Seq(S) /\ Once(b) /\ Range(b) = Items(s, B)
  BY <1>1, OnceSubSeq
<1>5. m \in Seq(S) /\ Once(m) /\ Range(m) = Items(s, C)
  BY <1>0, <1>1, OnceSubSeq
<1>6. Range(s) = Items(s, 1..Len(s)) /\ l = a \o b
  BY RangeIsItems DEF UpTo
<1> HIDE DEF A, B, C, a, b, l, m
<1>7. Range(a) \cap Range(b) = {}
  BY <1>2, <1>3, <1>4, StretchesApart
<1>8. l \in Seq(S) /\ Once(l) /\ Range(l) = Items(s, A \cup B)
  <2>1. a \o b \in Seq(S) /\ Once(a \o b) /\ Range(a \o b) = Range(a) \cup Range(b)
    BY <1>3, <1>4, <1>7, OnceConcat
  <2>2. Range(a) \cup Range(b) = Items(s, A \cup B)
    <3>1. Items(s, A) \cup Items(s, B) = Items(s, A \cup B)
      BY DEF Items
    <3> QED BY <1>3, <1>4, <3>1
  <2>3. l = a \o b
    BY <1>6
  <2> QED BY <2>1, <2>2, <2>3
<1>9. {s[i]} = Items(s, {i})
  BY DEF Items
<1>10. Range(l) \cap {s[i]} = {}
  BY <1>2, <1>8, <1>9, StretchesApart
<1>11. Range(l) \cap Range(m) = {}
  BY <1>2, <1>5, <1>8, StretchesApart
<1>12. {s[i]} \cap Range(m) = {}
  BY <1>2, <1>5, <1>9, StretchesApart
<1>13. Range(l) \cup {s[i]} \cup Range(m) = Range(s)
  <2>1. Items(s, A \cup B) \cup Items(s, {i}) = Items(s, A \cup B \cup {i})
    BY DEF Items
  <2>2. Items(s, A \cup B \cup {i}) \cup Items(s, C) = Items(s, A \cup B \cup {i} \cup C)
    BY DEF Items
  <2> QED BY <1>2, <1>5, <1>6, <1>8, <1>9, <2>1, <2>2
<1> QED BY <1>5, <1>8, <1>10, <1>11, <1>12, <1>13 DEF l, m

(* A sequence cut after item n.                                              *)
LEMMA CutAfter ==
  ASSUME NEW S, NEW s \in Seq(S), Once(s), NEW n \in 0..Len(s)
  PROVE  /\ SubSeq(s, 1, n) \in Seq(S) /\ Once(SubSeq(s, 1, n))
         /\ SubSeq(s, n + 1, Len(s)) \in Seq(S) /\ Once(SubSeq(s, n + 1, Len(s)))
         /\ Range(SubSeq(s, 1, n)) \cup Range(SubSeq(s, n + 1, Len(s))) = Range(s)
         /\ Range(SubSeq(s, 1, n)) \cap Range(SubSeq(s, n + 1, Len(s))) = {}
<1> DEFINE l == SubSeq(s, 1, n)
           m == SubSeq(s, n + 1, Len(s))
<1>1. Len(s) \in Nat /\ n \in Nat /\ n <= Len(s) /\ n + 1 \in Nat \ {0}
  OBVIOUS
<1> DEFINE A == 1..n
           B == (n + 1)..Len(s)
<1>2. /\ A \cup B = 1..Len(s) /\ A \cap B = {}
      /\ A \subseteq 1..Len(s) /\ B \subseteq 1..Len(s)
  BY <1>1
<1>3. l \in Seq(S) /\ Once(l) /\ Range(l) = Items(s, A)
  BY <1>1, OnceSubSeq
<1>4. m \in Seq(S) /\ Once(m) /\ Range(m) = Items(s, B)
  BY <1>1, OnceSubSeq
<1>5. Range(s) = Items(s, 1..Len(s))
  BY RangeIsItems
<1> HIDE DEF A, B, l, m
<1>6. Range(l) \cap Range(m) = {}
  BY <1>2, <1>3, <1>4, StretchesApart
<1>7. Items(s, A) \cup Items(s, B) = Items(s, A \cup B)
  BY ItemsUnion
<1> QED BY <1>2, <1>3, <1>4, <1>5, <1>6, <1>7 DEF l, m

(* Concatenation and stretches.                                              *)
LEMMA StretchOfConcat ==
  ASSUME NEW S, NEW a \in Seq(S), NEW n \in Seq(S), NEW i \in 1..Len(n)
  PROVE  /\ SubSeq(a \o n, 1, Len(a) + i - 1) = a \o SubSeq(n, 1, i - 1)
         /\ SubSeq(a \o n, Len(a) + i + 1, Len(a \o n)) = SubSeq(n, i + 1, Len(n))
<1> DEFINE p == a \o n
           x == SubSeq(n, 1, i - 1)
           w == SubSeq(n, i + 1, Len(n))
           u == SubSeq(p, 1, Len(a) + i - 1)
           v == SubSeq(p, Len(a) + i + 1, Len(p))
<1>1. /\ Len(a) \in Nat /\ Len(n) \in Nat /\ i \in Nat \ {0} /\ i <= Len(n)
      /\ i - 1 \in Nat /\ Len(a) + i - 1 \in Nat
  OBVIOUS
<1>2. p \in Seq(S) /\ Len(p) = Len(a) + Len(n)
      /\ \A j \in 1..(Len(a) + Len(n)) : p[j] = IF j <= Len(a) THEN a[j] ELSE n[j - Len(a)]
  BY ConcatProperties
<1> HIDE DEF p
<1>3. x \in Seq(S) /\ Len(x) = i - 1 /\ \A j \in 1..(i - 1) : x[j] = n[j]
  BY <1>1
<1>4. u \in Seq(S) /\ Len(u) = Len(a) + i - 1 /\ \A j \in 1..(Len(a) + i - 1) : u[j] = p[j]
  BY <1>1, <1>2
<1>5. w \in Seq(S) /\ Len(w) = Len(n) - i /\ \A j \in 1..(Len(n) - i) : w[j] = n[i + j]
  BY <1>1
<1>6. v \in Seq(S) /\ Len(v) = Len(n) - i
      /\ \A j \in 1..(Len(n) - i) : v[j] = p[Len(a) + i + j]
  BY <1>1, <1>2
<1> HIDE DEF x, w, u, v
<1>7. a \o x \in Seq(S) /\ Len(a \o x) = Len(a) + Len(x)
      /\ \A j \in 1..(Len(a) + Len(x)) : (a \o x)[j] = IF j <= Len(a) THEN a[j] ELSE x[j - Len(a)]
  BY <1>3, ConcatProperties
<1>8. u = a \o x
  <2>1. Len(u) = Len(a \o x)
    BY <1>1, <1>3, <1>4, <1>7
  <2>2. ASSUME NEW j \in 1..Len(u) PROVE u[j] = (a \o x)[j]
    <3>1. j \in Nat \ {0} /\ j <= Len(a) + i - 1 /\ u[j] = p[j]
      BY <1>1, <1>4
    <3>2. j \in 1..(Len(a) + Len(n)) /\ j \in 1..(Len(a) + Len(x))
      BY <1>1, <1>3, <3>1
    <3>3. CASE j <= Len(a)
      BY <1>2, <1>7, <3>1, <3>2, <3>3
    <3>4. CASE ~(j <= Len(a))
      <4>1. j - Len(a) \in 1..(i - 1)
        BY <1>1, <3>1, <3>4
      <4>2. x[j - Len(a)] = n[j - Len(a)]
        BY <1>3, <4>1
      <4> QED BY <1>2, <1>7, <3>1, <3>2, <3>4, <4>2
    <3> QED BY <3>3, <3>4
  <2> QED BY <1>4, <1>7, <2>1, <2>2, SeqEqual
<1>9. v = w
  <2>1. ASSUME NEW j \in 1..Len(v) PROVE v[j] = w[j]
    <3>1. j \in 1..(Len(n) - i)
      BY <1>6
    <3> DEFINE h == Len(a) + i + j
    <3>2. h \in 1..(Len(a) + Len(n)) /\ ~(h <= Len(a)) /\ h - Len(a) = i + j
      BY <1>1, <3>1
    <3>3. v[j] = p[h] /\ w[j] = n[i + j]
      BY <1>5, <1>6, <3>1
    <3> HIDE DEF h
    <3> QED BY <1>2, <3>2, <3>3
  <2> QED BY <1>5, <1>6, <2>1, SeqEqual
<1> QED BY <1>8, <1>9 DEF p, x, w, u, v

(* Cutting an event out of the newer part of a backlog cuts it out of the    *)
(* whole.                                                                    *)
LEMMA UpToBeyond ==
  ASSUME NEW S, NEW a \in Seq(S), NEW n \in Seq(S), NEW i \in 1..Len(n), NEW k \in 0..Len(n)
  PROVE  (a \o UpTo(n, i, k)) \o Beyond(n, i, k)
            = SubSeq(a \o n, 1, Len(a) + i - 1) \o SubSeq(a \o n, Len(a) + i + 1, Len(a \o n))
<1> DEFINE x == SubSeq(n, 1, i - 1)
           y == SubSeq(n, i + 1, k)
           z == Beyond(n, i, k)
           w == SubSeq(n, i + 1, Len(n))
<1>1. Len(n) \in Nat /\ i \in Nat \ {0} /\ i <= Len(n) /\ k \in Nat /\ k <= Len(n)
  OBVIOUS
<1>2. x \in Seq(S) /\ y \in Seq(S) /\ w \in Seq(S)
  BY <1>1
<1>3. z \in Seq(S)
  BY <1>1 DEF Beyond
<1>4. y \o z = w
  <2>1. CASE i > k
    <3>1. y = <<>> /\ z = w
      BY <1>1, <2>1, SubSeqEmpty DEF Beyond
    <3> QED BY <1>2, <3>1, ConcatEmptySeq
  <2>2. CASE ~(i > k)
    <3>1. z = SubSeq(n, k + 1, Len(n))
      BY <1>1, <2>2 DEF Beyond
    <3>2. i + 1 \in 1..Len(n) + 1 /\ k \in (i + 1) - 1..Len(n) /\ Len(n) \in k..Len(n)
      BY <1>1, <2>2
    <3> QED BY <3>1, <3>2, ConcatAdjacentSubSeq
  <2> QED BY <2>1, <2>2
<1>5. UpTo(n, i, k) = x \o y
  BY DEF UpTo
<1> HIDE DEF x, y, z, w
<1>6. (a \o (x \o y)) \o z = (a \o x) \o (y \o z)
  <2>1. x \in Seq(S) /\ y \in Seq(S) /\ z \in Seq(S)
    BY <1>2, <1>3
  <2>2. \A s, t, u \in Seq(S) : (s \o t) \o u = s \o (t \o u)
    OBVIOUS
  <2>3. a \o x \in Seq(S)
    BY <2>1
  <2>4. a \o (x \o y) = (a \o x) \o y
    BY <2>1, <2>2
  <2>5. ((a \o x) \o y) \o z = (a \o x) \o (y \o z)
    BY <2>1, <2>2, <2>3
  <2> QED BY <2>4, <2>5
<1>7. (a \o UpTo(n, i, k)) \o z = (a \o x) \o w
  BY <1>4, <1>5, <1>6
<1> QED BY <1>7, StretchOfConcat DEF x, z, w

(* The two sections of a sequence joined again.                              *)
LEMMA CutAndJoined ==
  ASSUME NEW S, NEW n \in Seq(S), NEW k \in 0..Len(n)
  PROVE  SubSeq(n, 1, k) \o SubSeq(n, k + 1, Len(n)) = n
<1>1. 1 \in 1..Len(n) + 1 /\ k \in 1 - 1..Len(n) /\ Len(n) \in k..Len(n)
  OBVIOUS
<1>2. SubSeq(n, 1, k) \o SubSeq(n, k + 1, Len(n)) = SubSeq(n, 1, Len(n))
  BY <1>1, ConcatAdjacentSubSeq
<1> QED BY <1>2, SubSeqFull

-----------------------------------------------------------------------------
(* The inductive invariant: each place holds an event at most once, no two   *)
(* places hold the same event, and together they hold the events that were   *)
(* put.                                                                      *)

DataType ==
    /\ queue \in Seq(Event) /\ backlog \in Seq(Event)
    /\ skipped \in [Receiver -> Seq(Event)] /\ got \in [Receiver -> Seq(Event)]
    /\ put \subseteq Event

EachOnce ==
    /\ Once(queue) /\ Once(backlog)
    /\ \A r \in Receiver : Once(skipped[r]) /\ Once(got[r])

Unread  == Range(queue) \cup Range(backlog)
Held(r)  == Range(skipped[r])
Taken(r) == Range(got[r])

Apart ==
    /\ Range(queue) \cap Range(backlog) = {}
    /\ \A r \in Receiver : Held(r) \cap Unread = {} /\ Taken(r) \cap Unread = {}
    /\ \A r, q \in Receiver :
          /\ Held(r) \cap Taken(q) = {}
          /\ r # q => Held(r) \cap Held(q) = {} /\ Taken(r) \cap Taken(q) = {}

AllKept ==
    \A e \in Event : e \in put <=> e \in Unread \/ \E r \in Receiver : e \in Held(r) \cup Taken(r)

BInv == DataType /\ EachOnce /\ Apart /\ AllKept

(* What a run of r does to the sets: it takes in the events it has read, and *)
(* returns those it holds, less the one it returns to its caller.            *)
LEMMA MovesKeep ==
  ASSUME BInv, NEW r \in Receiver, NEW L, NEW X, NEW M,
         L \cup X \cup M = Unread, L \cap X = {}, L \cap M = {}, X \cap M = {},
         Range(queue)' = M, Range(backlog)' = Held(r) \cup L,
         Taken(r)' = Taken(r) \cup X, Held(r)' = {},
         \A q \in Receiver \ {r} : Held(q)' = Held(q) /\ Taken(q)' = Taken(q),
         put' = put
  PROVE  Apart' /\ AllKept'
<1>1. Unread' = Held(r) \cup L \cup M
  BY DEF Unread
<1>2. Range(queue)' \cap Range(backlog)' = {}
  BY DEF BInv, Apart
<1>3. ASSUME NEW q \in Receiver PROVE Held(q)' \cap Unread' = {} /\ Taken(q)' \cap Unread' = {}
  <2>1. CASE q = r
    BY <1>1, <2>1 DEF BInv, Apart
  <2>2. CASE q # r
    BY <1>1, <2>2 DEF BInv, Apart
  <2> QED BY <2>1, <2>2
<1>4. ASSUME NEW p \in Receiver, NEW q \in Receiver
      PROVE  /\ Held(p)' \cap Taken(q)' = {}
             /\ p # q => Held(p)' \cap Held(q)' = {} /\ Taken(p)' \cap Taken(q)' = {}
  <2>1. Taken(p)' \subseteq Taken(p) \cup X /\ Held(p)' \subseteq Held(p)
    OBVIOUS
  <2>2. Taken(q)' \subseteq Taken(q) \cup X /\ Held(q)' \subseteq Held(q)
    OBVIOUS
  <2>3. X \subseteq Unread /\ (p # r => Taken(p)' = Taken(p)) /\ (q # r => Taken(q)' = Taken(q))
    OBVIOUS
  <2> QED BY <2>1, <2>2, <2>3 DEF BInv, Apart
<1>5. Apart'
  BY <1>2, <1>3, <1>4 DEF Apart
<1>6. ASSUME NEW e \in Event
      PROVE  e \in put' <=> e \in Unread' \/ \E q \in Receiver : e \in Held(q)' \cup Taken(q)'
  <2>1. e \in put <=> e \in Unread \/ \E q \in Receiver : e \in Held(q) \cup Taken(q)
    BY DEF BInv, AllKept
  <2>2. e \in put => e \in Unread' \/ \E q \in Receiver : e \in Held(q)' \cup Taken(q)'
    BY <1>1, <2>1
  <2>3. e \in Unread' \/ (\E q \in Receiver : e \in Held(q)' \cup Taken(q)') => e \in put
    BY <1>1, <2>1
  <2> QED BY <2>2, <2>3
<1> QED BY <1>5, <1>6 DEF AllKept

(* A run of r reads each event that is unread, once.                         *)
LEMMA ReadsUnread ==
  ASSUME BInv, NEW r \in Receiver, Runs(r)
  PROVE  /\ First(r) \in Seq(Event) /\ Rest(r) \in Seq(Event)
         /\ First(r) \o backlog \in Seq(Event) /\ next_event(r) \in Seq(Event)
         /\ Len(First(r) \o backlog) <= Len(next_event(r))
         /\ Once(next_event(r)) /\ Range(next_event(r)) = Unread
<1>1. queue \in Seq(Event) /\ backlog \in Seq(Event) /\ Once(queue) /\ Once(backlog)
      /\ Range(queue) \cap Range(backlog) = {}
  BY DEF BInv, DataType, EachOnce, Apart
<1> DEFINE f == First(r)
           t == Rest(r)
<1>2. /\ f \in Seq(Event) /\ t \in Seq(Event) /\ Once(f) /\ Once(t)
      /\ Range(f) \cap Range(t) = {} /\ Range(f) \cup Range(t) = Range(queue)
  <2>1. CASE pc[r] = "woken"
    <3>1. queue # <<>> /\ f = SubSeq(queue, 1, 1) /\ t = SubSeq(queue, 2, Len(queue))
      BY <1>1, <2>1, TailIsSubSeq DEF Runs, First, Rest
    <3>2. Len(queue) \in Nat /\ 1 <= Len(queue)
      BY <1>1, <3>1
    <3> HIDE DEF f, t
    <3>3. f \in Seq(Event) /\ Once(f) /\ Range(f) = Items(queue, 1..1)
      <4>1. 1 \in Nat \ {0}
        OBVIOUS
      <4> QED BY <1>1, <3>1, <3>2, <4>1, OnceSubSeq
    <3>4. t \in Seq(Event) /\ Once(t) /\ Range(t) = Items(queue, 2..Len(queue))
      BY <1>1, <3>1, <3>2, OnceSubSeq
    <3>5. Range(f) \cap Range(t) = {}
      <4>1. (1..1) \cap (2..Len(queue)) = {} /\ 1..1 \subseteq 1..Len(queue)
            /\ 2..Len(queue) \subseteq 1..Len(queue)
        BY <3>2
      <4> QED BY <1>1, <3>3, <3>4, <4>1, StretchesApart
    <3>6. Range(f) \cup Range(t) = Range(queue)
      <4>1. Range(queue) = Items(queue, 1..Len(queue))
        BY <1>1, RangeIsItems
      <4>2. 1..Len(queue) = (1..1) \cup (2..Len(queue))
        BY <3>2
      <4>3. Items(queue, 1..1) \cup Items(queue, 2..Len(queue))
               = Items(queue, (1..1) \cup (2..Len(queue)))
        BY ItemsUnion
      <4> QED BY <3>3, <3>4, <4>1, <4>2, <4>3
    <3> QED BY <3>3, <3>4, <3>5, <3>6
  <2>2. CASE pc[r] # "woken"
    BY <1>1, <2>2, OnceEmpty DEF First, Rest
  <2> QED BY <2>1, <2>2
<1> HIDE DEF f, t
<1>3. f \o backlog \in Seq(Event) /\ Once(f \o backlog)
      /\ Range(f \o backlog) = Range(f) \cup Range(backlog)
  BY <1>1, <1>2, OnceConcat
<1>4. Range(f \o backlog) \cap Range(t) = {}
  BY <1>1, <1>2, <1>3
<1> DEFINE g == f \o backlog
<1>5. g \in Seq(Event) /\ Once(g) /\ Range(g) \cap Range(t) = {}
  BY <1>3, <1>4
<1> HIDE DEF g
<1>6. g \o t \in Seq(Event) /\ Once(g \o t) /\ Range(g \o t) = Range(g) \cup Range(t)
  BY <1>2, <1>5, OnceConcat
<1>7. Len(g \o t) = Len(g) + Len(t) /\ Len(t) \in Nat /\ Len(g) \in Nat
  BY <1>2, <1>5
<1>8. next_event(r) = g \o t /\ g = First(r) \o backlog
  BY DEF next_event, f, g, t
<1>9. Range(g \o t) = Unread
  BY <1>2, <1>3, <1>6 DEF g, Unread
<1>10. First(r) \in Seq(Event) /\ Rest(r) \in Seq(Event)
  BY <1>2 DEF f, t
<1> QED BY <1>5, <1>6, <1>7, <1>8, <1>9, <1>10

-----------------------------------------------------------------------------
(* The steps.                                                                *)

(* A call that ends puts what it holds in front of the backlog.              *)
LEMMA RestoreStep ==
  ASSUME BInv, NEW r \in Receiver, NEW l \in Seq(Event), Once(l), Range(l) \subseteq Unread,
         restore(l, r)
  PROVE  /\ backlog' \in Seq(Event) /\ Once(backlog')
         /\ Range(backlog)' = Held(r) \cup Range(l)
<1>1. skipped[r] \in Seq(Event) /\ Once(skipped[r]) /\ Range(skipped[r]) \cap Unread = {}
  BY DEF BInv, DataType, EachOnce, Apart, Held
<1>2. backlog' = skipped[r] \o l
  BY DEF restore
<1>3. Range(skipped[r]) \cap Range(l) = {}
  BY <1>1
<1>4. /\ skipped[r] \o l \in Seq(Event) /\ Once(skipped[r] \o l)
      /\ Range(skipped[r] \o l) = Range(skipped[r]) \cup Range(l)
  BY <1>1, <1>3, OnceConcat
<1> QED BY <1>2, <1>4 DEF Held

(* A receiver that gives its skipped events up holds none; the others' are   *)
(* untouched.                                                                *)
LEMMA HeldCleared ==
  ASSUME BInv, NEW r \in Receiver, skipped' = [skipped EXCEPT ![r] = <<>>]
  PROVE  /\ skipped' \in [Receiver -> Seq(Event)]
         /\ \A q \in Receiver : Once(skipped'[q])
         /\ Held(r)' = {} /\ \A q \in Receiver \ {r} : Held(q)' = Held(q)
<1>1. skipped \in [Receiver -> Seq(Event)] /\ \A q \in Receiver : Once(skipped[q])
  BY DEF BInv, DataType, EachOnce
<1>2. \A q \in Receiver : skipped'[q] = IF q = r THEN <<>> ELSE skipped[q]
  BY <1>1
<1>3. skipped' \in [Receiver -> Seq(Event)]
  BY <1>1
<1>4. \A q \in Receiver : Once(skipped'[q])
  BY <1>1, <1>2, OnceEmpty
<1>5. Held(r)' = {}
  BY <1>2, OnceEmpty DEF Held
<1>6. \A q \in Receiver \ {r} : Held(q)' = Held(q)
  BY <1>2 DEF Held
<1> QED BY <1>3, <1>4, <1>5, <1>6

(* recv() returns: the events it skipped go back to the backlog.             *)
LEMMA ReturnStep ==
  ASSUME BInv, NEW r \in Receiver, Return(r)
  PROVE  BInv'
<1>1. Runs(r)
  BY DEF Return
<1> DEFINE s == next_event(r)
           k == Len(First(r) \o backlog)
<1>2. PICK i \in DOMAIN s :
         /\ got' = [got EXCEPT ![r] = Append(@, s[i])]
         /\ restore(SubSeq(s, 1, i - 1) \o SubSeq(s, i + 1, k), r)
         /\ queue' = SubSeq(s, IF i > k THEN i + 1 ELSE k + 1, Len(s))
  BY DEF Return, LeftInBacklog, LeftInQueue
<1>3. skipped' = [skipped EXCEPT ![r] = <<>>] /\ put' = put
  BY DEF Return, finish
<1>4. /\ s \in Seq(Event) /\ Once(s) /\ Range(s) = Unread
      /\ First(r) \o backlog \in Seq(Event) /\ k <= Len(s)
  BY <1>1, ReadsUnread
<1>5. k \in 0..Len(s) /\ i \in 1..Len(s)
  BY <1>4
<1> DEFINE l == UpTo(s, i, k)
           m == Beyond(s, i, k)
<1>6. /\ got' = [got EXCEPT ![r] = Append(@, s[i])] /\ restore(l, r) /\ queue' = m
  BY <1>2 DEF UpTo, Beyond
<1> HIDE DEF s, k
<1>7. /\ l \in Seq(Event) /\ Once(l) /\ m \in Seq(Event) /\ Once(m)
      /\ Range(l) \cup {s[i]} \cup Range(m) = Range(s)
      /\ Range(l) \cap {s[i]} = {} /\ Range(l) \cap Range(m) = {} /\ {s[i]} \cap Range(m) = {}
  BY <1>4, <1>5, CutOut
<1> DEFINE x == s[i]
<1>8. x \in Event /\ x \in Unread
  BY <1>4, <1>5, <1>7
<1> HIDE DEF l, m
<1>9. /\ backlog' \in Seq(Event) /\ Once(backlog') /\ Range(backlog)' = Held(r) \cup Range(l)
  BY <1>4, <1>6, <1>7, RestoreStep
<1>10. got \in [Receiver -> Seq(Event)] /\ \A q \in Receiver : Once(got[q])
  BY DEF BInv, DataType, EachOnce
<1>11. x \notin Range(got[r])
  BY <1>8 DEF BInv, Apart, Taken
<1>12. \A q \in Receiver : got'[q] = IF q = r THEN Append(got[r], x) ELSE got[q]
  BY <1>6, <1>10
<1>13. /\ Append(got[r], x) \in Seq(Event) /\ Once(Append(got[r], x))
       /\ Range(Append(got[r], x)) = Range(got[r]) \cup {x}
  BY <1>8, <1>10, <1>11, OnceAppend
<1>14. got' \in [Receiver -> Seq(Event)]
  BY <1>6, <1>8, <1>10
<1>15. \A q \in Receiver : Once(got'[q])
  BY <1>10, <1>12, <1>13
<1>16. Taken(r)' = Taken(r) \cup {x}
  BY <1>12, <1>13 DEF Taken
<1>17. \A q \in Receiver \ {r} : Taken(q)' = Taken(q)
  BY <1>12 DEF Taken
<1>18. DataType' /\ EachOnce'
  BY <1>3, <1>6, <1>7, <1>9, <1>14, <1>15, HeldCleared DEF BInv, DataType, EachOnce
<1>19. Apart' /\ AllKept'
  <2>1. Range(l) \cup {x} \cup Range(m) = Unread
    BY <1>4, <1>7
  <2>2. Range(queue)' = Range(m)
    BY <1>6
  <2>3. Held(r)' = {} /\ \A q \in Receiver \ {r} : Held(q)' = Held(q)
    BY <1>3, HeldCleared
  <2> HIDE DEF x
  <2>4. Range(l) \cap {x} = {} /\ Range(l) \cap Range(m) = {} /\ {x} \cap Range(m) = {}
    BY <1>7 DEF x
  <2> QED BY <1>3, <1>9, <1>16, <1>17, <2>1, <2>2, <2>3, <2>4, MovesKeep
<1> QED BY <1>18, <1>19 DEF BInv

(* recv() raises at its deadline, checked between two reads of the queue.    *)
LEMMA ExpireStep ==
  ASSUME BInv, NEW r \in Receiver, Expire(r)
  PROVE  BInv'
<1>1. Runs(r)
  BY DEF Expire
<1> DEFINE s == next_event(r)
           k == Len(First(r) \o backlog)
<1>2. PICK n \in k..Len(s) :
         /\ restore(SubSeq(s, 1, n), r)
         /\ queue' = SubSeq(s, IF n > k THEN n + 1 ELSE k + 1, Len(s))
  BY DEF Expire, LeftInQueue
<1>3. skipped' = [skipped EXCEPT ![r] = <<>>] /\ put' = put /\ got' = got
  BY DEF Expire, finish
<1>4. /\ s \in Seq(Event) /\ Once(s) /\ Range(s) = Unread
      /\ First(r) \o backlog \in Seq(Event) /\ k <= Len(s)
  BY <1>1, ReadsUnread
<1>5. k \in Nat /\ Len(s) \in Nat
  BY <1>4
<1> DEFINE l == SubSeq(s, 1, n)
           m == SubSeq(s, n + 1, Len(s))
<1>6. restore(l, r) /\ queue' = m /\ n \in 0..Len(s)
  <2>1. n \in 0..Len(s) /\ (IF n > k THEN n + 1 ELSE k + 1) = n + 1
    BY <1>5
  <2> QED BY <1>2, <2>1
<1> HIDE DEF s, k
<1>7. /\ l \in Seq(Event) /\ Once(l) /\ m \in Seq(Event) /\ Once(m)
      /\ Range(l) \cup Range(m) = Range(s) /\ Range(l) \cap Range(m) = {}
  BY <1>4, <1>6, CutAfter
<1> HIDE DEF l, m
<1>8. /\ backlog' \in Seq(Event) /\ Once(backlog') /\ Range(backlog)' = Held(r) \cup Range(l)
  BY <1>4, <1>6, <1>7, RestoreStep
<1>9. DataType' /\ EachOnce'
  BY <1>3, <1>6, <1>7, <1>8, HeldCleared DEF BInv, DataType, EachOnce
<1>10. Apart' /\ AllKept'
  <2>1. Range(l) \cup {} \cup Range(m) = Unread
    BY <1>4, <1>7
  <2>2. Range(queue)' = Range(m)
    BY <1>6
  <2>3. Held(r)' = {} /\ \A q \in Receiver \ {r} : Held(q)' = Held(q)
    BY <1>3, HeldCleared
  <2>4. \A q \in Receiver : Taken(q)' = Taken(q)
    BY <1>3 DEF Taken
  <2>5. Taken(r)' = Taken(r) \cup {}
    BY <2>4
  <2>6. Range(l) \cap {} = {} /\ Range(l) \cap Range(m) = {} /\ {} \cap Range(m) = {}
    BY <1>7
  <2> QED BY <1>3, <1>8, <2>1, <2>2, <2>3, <2>4, <2>5, <2>6, MovesKeep
<1> QED BY <1>9, <1>10 DEF BInv

(* wait_for cancels a recv() that sleeps on the queue.                       *)
LEMMA TimeoutStep ==
  ASSUME BInv, NEW r \in Receiver, Timeout(r)
  PROVE  BInv'
<1>1. /\ restore(backlog, r) /\ skipped' = [skipped EXCEPT ![r] = <<>>]
      /\ put' = put /\ got' = got /\ queue' = queue
  BY DEF Timeout
<1>2. /\ backlog \in Seq(Event) /\ Once(backlog) /\ queue \in Seq(Event) /\ Once(queue)
      /\ Range(backlog) \cap Range(queue) = {} /\ Range(backlog) \subseteq Unread
  BY DEF BInv, DataType, EachOnce, Apart, Unread
<1>3. /\ backlog' \in Seq(Event) /\ Once(backlog')
      /\ Range(backlog)' = Held(r) \cup Range(backlog)
  BY <1>1, <1>2, RestoreStep
<1>4. DataType' /\ EachOnce'
  BY <1>1, <1>3, HeldCleared DEF BInv, DataType, EachOnce
<1>5. Apart' /\ AllKept'
  <2>1. Range(backlog) \cup {} \cup Range(queue) = Unread
    BY DEF Unread
  <2>2. Range(queue)' = Range(queue)
    BY <1>1
  <2>3. Held(r)' = {} /\ \A q \in Receiver \ {r} : Held(q)' = Held(q)
    BY <1>1, HeldCleared
  <2>4. \A q \in Receiver : Taken(q)' = Taken(q)
    BY <1>1 DEF Taken
  <2>5. Taken(r)' = Taken(r) \cup {}
    BY <2>4
  <2>6. Range(backlog) \cap {} = {} /\ {} \cap Range(queue) = {}
    OBVIOUS
  <2> QED BY <1>1, <1>2, <1>3, <2>1, <2>2, <2>3, <2>4, <2>5, <2>6, MovesKeep
<1> QED BY <1>4, <1>5 DEF BInv

(* recv() takes what the queue holds and sleeps.                             *)
LEMMA WaitStep ==
  ASSUME BInv, NEW r \in Receiver, Wait(r)
  PROVE  BInv'
<1>1. CASE ~Runs(r)
  <2>1. UNCHANGED <<queue, backlog, skipped, got, put>>
    BY <1>1 DEF Wait
  <2>2. UNCHANGED <<Range(queue), Range(backlog)>> /\ UNCHANGED Unread
    BY <2>1 DEF Unread
  <2>3. \A q \in Receiver : Held(q)' = Held(q) /\ Taken(q)' = Taken(q)
    BY <2>1 DEF Held, Taken
  <2> QED BY <2>1, <2>2, <2>3 DEF BInv, DataType, EachOnce, Apart, AllKept
<1>2. CASE Runs(r)
  <2> DEFINE s == next_event(r)
  <2>1. /\ skipped' = [skipped EXCEPT ![r] = @ \o s] /\ backlog' = <<>> /\ queue' = <<>>
        /\ got' = got /\ put' = put
    BY <1>2 DEF Wait
  <2>2. s \in Seq(Event) /\ Once(s) /\ Range(s) = Unread
    BY <1>2, ReadsUnread
  <2> HIDE DEF s
  <2>3. /\ skipped \in [Receiver -> Seq(Event)] /\ \A q \in Receiver : Once(skipped[q])
        /\ Range(skipped[r]) \cap Unread = {}
    BY DEF BInv, DataType, EachOnce, Apart, Held
  <2>4. /\ skipped[r] \o s \in Seq(Event) /\ Once(skipped[r] \o s)
        /\ Range(skipped[r] \o s) = Range(skipped[r]) \cup Range(s)
    BY <2>2, <2>3, OnceConcat
  <2>5. \A q \in Receiver : skipped'[q] = IF q = r THEN skipped[r] \o s ELSE skipped[q]
    BY <2>1, <2>3
  <2>6. skipped' \in [Receiver -> Seq(Event)] /\ \A q \in Receiver : Once(skipped'[q])
    <3>1. skipped' \in [Receiver -> Seq(Event)]
      BY <2>1, <2>3, <2>4
    <3> QED BY <2>3, <2>4, <2>5, <3>1
  <2>7. Held(r)' = Held(r) \cup Unread /\ \A q \in Receiver \ {r} : Held(q)' = Held(q)
    BY <2>2, <2>4, <2>5 DEF Held
  <2>8. Range(queue)' = {} /\ Range(backlog)' = {} /\ Unread' = {}
    BY <2>1, OnceEmpty DEF Unread
  <2>9. \A q \in Receiver : Taken(q)' = Taken(q)
    BY <2>1 DEF Taken
  <2>10. DataType' /\ EachOnce'
    BY <2>1, <2>6, OnceEmpty DEF BInv, DataType, EachOnce
  <2>11. Apart'
    BY <2>7, <2>8, <2>9 DEF BInv, Apart
  <2>12. AllKept'
    BY <2>1, <2>7, <2>8, <2>9 DEF BInv, AllKept
  <2> QED BY <2>10, <2>11, <2>12 DEF BInv
<1> QED BY <1>1, <1>2

(* The loop puts an event that was never put before.                         *)
LEMMA PutStep ==
  ASSUME BInv, NEW e \in Event, put_nowait(e)
  PROVE  BInv'
<1>1. /\ e \notin put /\ put' = put \cup {e} /\ queue' = Append(queue, e)
      /\ UNCHANGED <<backlog, skipped, got>>
  BY DEF put_nowait
<1>2. e \notin Unread /\ \A q \in Receiver : e \notin Held(q) /\ e \notin Taken(q)
  BY <1>1 DEF BInv, AllKept
<1>3. queue \in Seq(Event) /\ Once(queue) /\ e \notin Range(queue)
  BY <1>2 DEF BInv, DataType, EachOnce, Unread
<1>4. queue' \in Seq(Event) /\ Once(queue') /\ Range(queue)' = Range(queue) \cup {e}
  BY <1>1, <1>3, OnceAppend
<1>5. Range(backlog)' = Range(backlog) /\ Unread' = Unread \cup {e}
  BY <1>1, <1>4 DEF Unread
<1>6. \A q \in Receiver : Held(q)' = Held(q) /\ Taken(q)' = Taken(q)
  BY <1>1 DEF Held, Taken
<1>7. DataType' /\ EachOnce'
  BY <1>1, <1>4 DEF BInv, DataType, EachOnce
<1>8. Apart'
  BY <1>2, <1>4, <1>5, <1>6 DEF BInv, Apart, Unread
<1>9. AllKept'
  BY <1>1, <1>5, <1>6 DEF BInv, AllKept
<1> QED BY <1>7, <1>8, <1>9 DEF BInv

(* Steps that move no event.                                                 *)
LEMMA QuietStep ==
  ASSUME BInv, UNCHANGED <<queue, backlog, skipped, got, put>>
  PROVE  BInv'
<1>1. UNCHANGED <<Range(queue), Range(backlog)>> /\ UNCHANGED Unread
  BY DEF Unread
<1>2. \A q \in Receiver : Held(q)' = Held(q) /\ Taken(q)' = Taken(q)
  BY DEF Held, Taken
<1> QED BY <1>1, <1>2 DEF BInv, DataType, EachOnce, Apart, AllKept

-----------------------------------------------------------------------------
(* NothingLost follows from the sets.                                        *)

(* The places of an event, written out.                                      *)
LEMMA InPlaces ==
  ASSUME NEW e, NEW p
  PROVE  p \in Places(e) <=>
            \/ \E i \in DOMAIN queue : queue[i] = e /\ p = <<"queue", i>>
            \/ \E i \in DOMAIN backlog : backlog[i] = e /\ p = <<"backlog", i>>
            \/ \E r \in Receiver : \E i \in DOMAIN skipped[r] :
                  skipped[r][i] = e /\ p = <<"skipped", r, i>>
            \/ \E r \in Receiver : \E i \in DOMAIN got[r] :
                  got[r][i] = e /\ p = <<"got", r, i>>
<1> DEFINE Q == {<<"queue", i>> : i \in {j \in DOMAIN queue : queue[j] = e}}
           B == {<<"backlog", i>> : i \in {j \in DOMAIN backlog : backlog[j] = e}}
           K(r) == {<<"skipped", r, i>> : i \in {j \in DOMAIN skipped[r] : skipped[r][j] = e}}
           G(r) == {<<"got", r, i>> : i \in {j \in DOMAIN got[r] : got[r][j] = e}}
<1>1. p \in Q <=> \E i \in DOMAIN queue : queue[i] = e /\ p = <<"queue", i>>
  BY Zenon
<1>2. p \in B <=> \E i \in DOMAIN backlog : backlog[i] = e /\ p = <<"backlog", i>>
  BY Zenon
<1>3. ASSUME NEW r
      PROVE  p \in K(r) <=>
                \E i \in DOMAIN skipped[r] : skipped[r][i] = e /\ p = <<"skipped", r, i>>
  BY Zenon
<1>4. ASSUME NEW r
      PROVE  p \in G(r) <=> \E i \in DOMAIN got[r] : got[r][i] = e /\ p = <<"got", r, i>>
  BY Zenon
<1> DEFINE U == UNION {K(r) \cup G(r) : r \in Receiver}
<1>5. Places(e) = Q \cup B \cup U
  BY DEF Places
<1> HIDE DEF Q, B, K, G
<1>6. p \in U <=> \E r \in Receiver : p \in K(r) \cup G(r)
  OBVIOUS
<1> HIDE DEF U
<1>7. p \in Places(e) <=> p \in Q \/ p \in B \/ p \in U
  BY <1>5
<1> QED BY <1>1, <1>2, <1>3, <1>4, <1>6, <1>7

(* An event that was put is in one place.                                    *)
LEMMA OnePlace ==
  ASSUME BInv, NEW e \in Event, e \in put
  PROVE  \E p : Places(e) = {p}
<1>1. /\ Once(queue) /\ Once(backlog) /\ \A r \in Receiver : Once(skipped[r]) /\ Once(got[r])
  BY DEF BInv, EachOnce
<1>2. /\ ~(e \in Range(queue) /\ e \in Range(backlog))
      /\ \A r \in Receiver :
            /\ ~(e \in Held(r) /\ e \in Range(queue)) /\ ~(e \in Held(r) /\ e \in Range(backlog))
            /\ ~(e \in Taken(r) /\ e \in Range(queue)) /\ ~(e \in Taken(r) /\ e \in Range(backlog))
      /\ \A r, q \in Receiver :
            /\ ~(e \in Held(r) /\ e \in Taken(q))
            /\ r # q => ~(e \in Held(r) /\ e \in Held(q)) /\ ~(e \in Taken(r) /\ e \in Taken(q))
  BY DEF BInv, Apart, Unread
<1>3. \/ e \in Range(queue) \/ e \in Range(backlog)
      \/ \E r \in Receiver : e \in Held(r) \/ e \in Taken(r)
  BY DEF BInv, AllKept, Unread
<1>4. /\ e \in Range(queue) <=> \E i \in DOMAIN queue : queue[i] = e
      /\ e \in Range(backlog) <=> \E i \in DOMAIN backlog : backlog[i] = e
      /\ \A r \in Receiver :
            /\ e \in Held(r) <=> \E i \in DOMAIN skipped[r] : skipped[r][i] = e
            /\ e \in Taken(r) <=> \E i \in DOMAIN got[r] : got[r][i] = e
  BY DEF Held, Taken, Range
<1>5. ASSUME e \in Range(queue) PROVE \E p : Places(e) = {p}
  <2>1. PICK i \in DOMAIN queue : queue[i] = e
    BY <1>4, <1>5
  <2>2. \A j \in DOMAIN queue : queue[j] = e => j = i
    BY <1>1, <2>1 DEF Once
  <2>3. /\ \A j \in DOMAIN backlog : backlog[j] # e
        /\ \A q \in Receiver : \A j \in DOMAIN skipped[q] : skipped[q][j] # e
        /\ \A q \in Receiver : \A j \in DOMAIN got[q] : got[q][j] # e
    BY <1>2, <1>4, <1>5
  <2> DEFINE here == <<"queue", i>>
  <2>4. here \in Places(e)
    BY <2>1, InPlaces, Zenon
  <2>5. ASSUME NEW p \in Places(e) PROVE p = here
    BY <2>2, <2>3, <2>5, InPlaces
  <2> HIDE DEF here
  <2> QED BY <2>4, <2>5
<1>6. ASSUME e \in Range(backlog) PROVE \E p : Places(e) = {p}
  <2>1. PICK i \in DOMAIN backlog : backlog[i] = e
    BY <1>4, <1>6
  <2>2. \A j \in DOMAIN backlog : backlog[j] = e => j = i
    BY <1>1, <2>1 DEF Once
  <2>3. /\ \A j \in DOMAIN queue : queue[j] # e
        /\ \A q \in Receiver : \A j \in DOMAIN skipped[q] : skipped[q][j] # e
        /\ \A q \in Receiver : \A j \in DOMAIN got[q] : got[q][j] # e
    BY <1>2, <1>4, <1>6
  <2> DEFINE here == <<"backlog", i>>
  <2>4. here \in Places(e)
    BY <2>1, InPlaces, Zenon
  <2>5. ASSUME NEW p \in Places(e) PROVE p = here
    BY <2>2, <2>3, <2>5, InPlaces
  <2> HIDE DEF here
  <2> QED BY <2>4, <2>5
<1>7. ASSUME NEW r \in Receiver, e \in Held(r) PROVE \E p : Places(e) = {p}
  <2>1. PICK i \in DOMAIN skipped[r] : skipped[r][i] = e
    BY <1>4, <1>7
  <2>2. \A j \in DOMAIN skipped[r] : skipped[r][j] = e => j = i
    BY <1>1, <2>1 DEF Once
  <2>3. /\ \A j \in DOMAIN queue : queue[j] # e
        /\ \A j \in DOMAIN backlog : backlog[j] # e
        /\ \A q \in Receiver \ {r} : \A j \in DOMAIN skipped[q] : skipped[q][j] # e
        /\ \A q \in Receiver : \A j \in DOMAIN got[q] : got[q][j] # e
    BY <1>2, <1>4, <1>7
  <2> DEFINE here == <<"skipped", r, i>>
  <2>4. here \in Places(e)
    BY <2>1, InPlaces, Zenon
  <2>5. ASSUME NEW p \in Places(e) PROVE p = here
    BY <2>2, <2>3, <2>5, InPlaces
  <2> HIDE DEF here
  <2> QED BY <2>4, <2>5
<1>8. ASSUME NEW r \in Receiver, e \in Taken(r) PROVE \E p : Places(e) = {p}
  <2>1. PICK i \in DOMAIN got[r] : got[r][i] = e
    BY <1>4, <1>8
  <2>2. \A j \in DOMAIN got[r] : got[r][j] = e => j = i
    BY <1>1, <2>1 DEF Once
  <2>3. /\ \A j \in DOMAIN queue : queue[j] # e
        /\ \A j \in DOMAIN backlog : backlog[j] # e
        /\ \A q \in Receiver : \A j \in DOMAIN skipped[q] : skipped[q][j] # e
        /\ \A q \in Receiver \ {r} : \A j \in DOMAIN got[q] : got[q][j] # e
    BY <1>2, <1>4, <1>8
  <2> DEFINE here == <<"got", r, i>>
  <2>4. here \in Places(e)
    BY <2>1, InPlaces, Zenon
  <2>5. ASSUME NEW p \in Places(e) PROVE p = here
    BY <2>2, <2>3, <2>5, InPlaces
  <2> HIDE DEF here
  <2> QED BY <2>4, <2>5
<1> QED BY <1>3, <1>5, <1>6, <1>7, <1>8

(* An event that was not put is nowhere.                                     *)
LEMMA NoPlace ==
  ASSUME BInv, NEW e \in Event, e \notin put
  PROVE  Places(e) = {}
<1>1. /\ e \notin Range(queue) /\ e \notin Range(backlog)
      /\ \A r \in Receiver : e \notin Held(r) /\ e \notin Taken(r)
  BY DEF BInv, AllKept, Unread
<1>2. /\ \A i \in DOMAIN queue : queue[i] # e
      /\ \A i \in DOMAIN backlog : backlog[i] # e
      /\ \A r \in Receiver :
            /\ \A i \in DOMAIN skipped[r] : skipped[r][i] # e
            /\ \A i \in DOMAIN got[r] : got[r][i] # e
  BY <1>1 DEF Held, Taken, Range
<1>3. \A p : p \notin Places(e)
  BY <1>2, InPlaces
<1> QED BY <1>3

(* The invariant is stronger than the property.                              *)
LEMMA NothingLostFollows == BInv => NothingLost
<1> SUFFICES ASSUME BInv, NEW e \in Event
             PROVE  Cardinality(Places(e)) = IF e \in put THEN 1 ELSE 0
  BY DEF NothingLost
<1>1. CASE e \in put
  <2>1. PICK p : Places(e) = {p}
    BY <1>1, OnePlace
  <2> QED BY <1>1, <2>1, FS_Singleton
<1>2. CASE e \notin put
  BY <1>2, NoPlace, FS_EmptySet
<1> QED BY <1>1, <1>2

-----------------------------------------------------------------------------
(* Nothing was put when the client is created.                               *)
LEMMA BufferInit == Init => BInv
<1> SUFFICES ASSUME Init PROVE BInv
  OBVIOUS
<1>1. DataType
  BY DEF Init, DataType
<1>2. EachOnce
  BY OnceEmpty DEF Init, EachOnce
<1>3. Unread = {} /\ \A r \in Receiver : Held(r) = {} /\ Taken(r) = {}
  BY OnceEmpty DEF Init, Unread, Held, Taken
<1>4. Range(queue) = {}
  BY OnceEmpty DEF Init
<1>5. Apart /\ AllKept
  BY <1>3, <1>4 DEF Init, Apart, AllKept
<1> QED BY <1>1, <1>2, <1>5 DEF BInv

(* Every step keeps the invariant, one action at a time.                     *)
LEMMA BufferStep == BInv /\ [Next]_vars => BInv'
<1> SUFFICES ASSUME BInv, [Next]_vars PROVE BInv'
  OBVIOUS
<1>1. CASE UNCHANGED vars
  BY <1>1, QuietStep DEF vars
<1>2. ASSUME NEW r \in Receiver, NEW f \in Filter, Call(r, f) PROVE BInv'
  BY <1>2, QuietStep DEF Call
<1>3. CASE Next
  BY <1>2, <1>3, PutStep, ReturnStep, WaitStep, ExpireStep, TimeoutStep DEF Next, Run
<1> QED BY <1>1, <1>3

(* BInv is an invariant of the queue, the backlog and the recv() calls       *)
(* (client.py).                                                              *)
THEOREM BInvAlways == Spec => []BInv
  BY BufferInit, BufferStep, PTL DEF Spec

(* Whatever the receivers accept, however they interleave and whichever      *)
(* time out, each event that was put is in one place, once: no recv() call   *)
(* loses an event it put aside, and none is returned twice.                  *)
THEOREM NothingIsLost == Spec => []NothingLost
  BY BInvAlways, NothingLostFollows, PTL

-----------------------------------------------------------------------------
(* Types, for which a run must be known to read events.                      *)

ControlType ==
    /\ getters \in Seq(Receiver)
    /\ pc \in [Receiver -> {"idle", "called", "asleep", "woken"}]
    /\ want \in [Receiver -> Filter \cup {{}}]

(* The type invariant says what holds the events and where the receivers     *)
(* are.                                                                      *)
LEMMA TypeParts == BufferTypeOK <=> DataType /\ ControlType
  BY DEF BufferTypeOK, DataType, ControlType

(* _wakeup_next takes one waiter off the list at most.                       *)
LEMMA Wakes ==
  ASSUME NEW waiters \in Seq(Receiver),
         NEW pcs \in [Receiver -> {"idle", "called", "asleep", "woken"}],
         wakeup_next(waiters, pcs)
  PROVE  /\ getters' \in Seq(Receiver)
         /\ pc' \in [Receiver -> {"idle", "called", "asleep", "woken"}]
<1>1. CASE waiters = <<>>
  BY <1>1 DEF wakeup_next
<1>2. CASE waiters # <<>>
  <2>1. Tail(waiters) \in Seq(Receiver) /\ Head(waiters) \in Receiver
    BY <1>2
  <2> QED BY <1>2, <2>1 DEF wakeup_next
<1> QED BY <1>1, <1>2

(* A cancelled waiter leaves the list of getters.                            *)
LEMMA Removes ==
  ASSUME NEW waiters \in Seq(Receiver), NEW r \in Receiver
  PROVE  remove(waiters, r) \in Seq(Receiver)
<1> DEFINE at == {i \in DOMAIN waiters : waiters[i] = r}
           i  == CHOOSE j \in at : TRUE
<1>1. CASE at = {}
  BY <1>1 DEF remove
<1>2. CASE at # {}
  <2>1. i \in 1..Len(waiters) /\ Len(waiters) \in Nat
    BY <1>2
  <2>2. remove(waiters, r) = SubSeq(waiters, 1, i - 1) \o SubSeq(waiters, i + 1, Len(waiters))
    BY <1>2 DEF remove
  <2> HIDE DEF i
  <2>3. SubSeq(waiters, 1, i - 1) \in Seq(Receiver)
        /\ SubSeq(waiters, i + 1, Len(waiters)) \in Seq(Receiver)
    BY <2>1
  <2> QED BY <2>2, <2>3
<1> QED BY <1>1, <1>2

(* Every step keeps the types of the receivers and of the getters.           *)
LEMMA ControlStep ==
  ASSUME ControlType, [Next]_vars
  PROVE  ControlType'
<1> DEFINE PC == [Receiver -> {"idle", "called", "asleep", "woken"}]
           Want == [Receiver -> Filter \cup {{}}]
<1>1. getters \in Seq(Receiver) /\ pc \in PC /\ want \in Want
  BY DEF ControlType
<1>2. CASE UNCHANGED vars
  BY <1>1, <1>2 DEF vars, ControlType
<1>3. ASSUME NEW e \in Event, put_nowait(e) PROVE ControlType'
  <2>1. getters' \in Seq(Receiver) /\ pc' \in PC
    BY <1>1, <1>3, Wakes DEF put_nowait
  <2> QED BY <1>1, <1>3, <2>1 DEF put_nowait, ControlType
<1>4. ASSUME NEW r \in Receiver, finish(r), UNCHANGED getters PROVE ControlType'
  BY <1>1, <1>4 DEF finish, ControlType
<1>5. ASSUME NEW r \in Receiver, Wait(r) PROVE ControlType'
  <2>1. getters' \in Seq(Receiver)
    BY <1>1, <1>5 DEF Wait
  <2>2. pc' \in PC /\ want' \in Want
    BY <1>1, <1>5 DEF Wait
  <2> QED BY <2>1, <2>2 DEF ControlType
<1>6. ASSUME NEW r \in Receiver, Timeout(r) PROVE ControlType'
  <2> DEFINE others == remove(getters, r)
             ended == [pc EXCEPT ![r] = "idle"]
  <2>1. others \in Seq(Receiver) /\ ended \in PC
    BY <1>1, Removes
  <2>2. wakeup_next(others, ended) \/ (getters' = others /\ pc' = ended)
    BY <1>6 DEF Timeout
  <2>3. want' \in Want
    BY <1>1, <1>6 DEF Timeout
  <2> HIDE DEF others, ended
  <2>4. getters' \in Seq(Receiver) /\ pc' \in PC
    BY <2>1, <2>2, Wakes
  <2> QED BY <2>3, <2>4 DEF ControlType
<1>7. ASSUME NEW r \in Receiver, NEW f \in Filter, Call(r, f) PROVE ControlType'
  BY <1>1, <1>7 DEF Call, ControlType
<1>8. CASE Next
  BY <1>3, <1>4, <1>5, <1>6, <1>7, <1>8 DEF Next, Run, Return, Expire
<1> QED BY <1>2, <1>8

(* No receiver has called recv() at first.                                   *)
LEMMA ControlInit == Init => ControlType
  BY DEF Init, ControlType

(* The buffer, the queue and the calls under way are always well typed.      *)
THEOREM BufferTypeAlways == Spec => []BufferTypeOK
<1>1. Spec => []ControlType
  BY ControlInit, ControlStep, PTL DEF Spec
<1>2. BInv /\ ControlType => BufferTypeOK
  BY TypeParts DEF BInv
<1> QED BY <1>1, <1>2, BInvAlways, PTL

-----------------------------------------------------------------------------
(* With one receiver r the buffer implements PendingEvents.                  *)

(* What r holds and what it sleeps on, and that it holds what it skips.      *)
AloneInv(r) ==
    /\ getters = IF pc[r] = "asleep" THEN <<r>> ELSE <<>>
    /\ pc[r] = "idle" <=> want[r] = {}
    /\ pc[r] \in {"idle", "called"} => skipped[r] = <<>>
    /\ pc[r] \in {"asleep", "woken"} => backlog = <<>>
    /\ \A i \in DOMAIN skipped[r] : skipped[r][i] \notin want[r]

Only(r) == Receiver = {r} /\ BInv /\ ControlType /\ AloneInv(r)

Pool(r) == skipped[r] \o backlog \o queue

(* What the invariant says of the only receiver.                             *)
LEMMA OnlyTypes ==
  ASSUME NEW r, Only(r)
  PROVE  /\ r \in Receiver /\ Alone = r
         /\ queue \in Seq(Event) /\ backlog \in Seq(Event) /\ skipped[r] \in Seq(Event)
         /\ got[r] \in Seq(Event) /\ DOMAIN skipped = {r} /\ DOMAIN got = {r}
         /\ pc \in [{r} -> {"idle", "called", "asleep", "woken"}]
         /\ want \in [{r} -> Filter \cup {{}}]
<1>1. Receiver = {r} /\ DataType /\ ControlType
  BY DEF Only, BInv
<1>2. Alone = r
  BY <1>1 DEF Alone
<1> QED BY <1>1, <1>2 DEF DataType, ControlType

(* A run of r reads the pool in its order.                                   *)
LEMMA RunReadsPool ==
  ASSUME NEW r, Only(r), Runs(r)
  PROVE  /\ next_event(r) \in Seq(Event)
         /\ Len(First(r) \o backlog) \in 0..Len(next_event(r))
         /\ skipped[r] \o next_event(r) = Pool(r)
<1>1. queue \in Seq(Event) /\ backlog \in Seq(Event) /\ skipped[r] \in Seq(Event) /\ r \in Receiver
  BY OnlyTypes
<1>2. /\ next_event(r) \in Seq(Event) /\ First(r) \o backlog \in Seq(Event)
      /\ Len(First(r) \o backlog) <= Len(next_event(r))
  BY <1>1, ReadsUnread DEF Only
<1>3. Len(First(r) \o backlog) \in 0..Len(next_event(r))
  BY <1>2
<1>4. next_event(r) = backlog \o queue
  <2>1. CASE pc[r] = "called"
    BY <1>1, <2>1, ConcatEmptySeq DEF next_event, First, Rest
  <2>2. CASE pc[r] = "woken"
    <3>1. backlog = <<>> /\ queue # <<>>
      BY <2>2 DEF Only, AloneInv, Runs
    <3>2. First(r) = SubSeq(queue, 1, 1) /\ Rest(r) = SubSeq(queue, 1 + 1, Len(queue))
      BY <1>1, <2>2, <3>1, TailIsSubSeq DEF First, Rest
    <3>3. 1 \in 0..Len(queue)
      BY <1>1, <3>1
    <3>4. First(r) \o Rest(r) = queue
      BY <1>1, <3>2, <3>3, CutAndJoined
    <3>5. First(r) \in Seq(Event)
      BY <1>1, ReadsUnread DEF Only
    <3> QED BY <1>1, <3>1, <3>4, <3>5, ConcatEmptySeq DEF next_event
  <2> QED BY <2>1, <2>2 DEF Runs
<1>5. skipped[r] \o (backlog \o queue) = (skipped[r] \o backlog) \o queue
  <2>1. \A s, t, u \in Seq(Event) : s \o (t \o u) = (s \o t) \o u
    OBVIOUS
  <2> QED BY <1>1, <2>1
<1> QED BY <1>2, <1>3, <1>4, <1>5 DEF Pool

(* put_nowait delivers an event to the abstract set of pending events.       *)
LEMMA PutRefines ==
  ASSUME NEW r, Only(r), NEW e \in Event, put_nowait(e)
  PROVE  AloneInv(r)' /\ Pending!Deliver(e)
<1>1. /\ e \notin put /\ put' = put \cup {e} /\ queue' = Append(queue, e)
      /\ wakeup_next(getters, pc) /\ UNCHANGED <<backlog, want, skipped, got>>
  BY DEF put_nowait
<1>2. /\ queue \in Seq(Event) /\ backlog \in Seq(Event) /\ skipped[r] \in Seq(Event) /\ Alone = r
      /\ pc \in [{r} -> {"idle", "called", "asleep", "woken"}]
  BY OnlyTypes
<1>3. \A s, t \in Seq(Event) : s \o Append(t, e) = Append(s \o t, e)
  OBVIOUS
<1>4. skipped[r] \o backlog \in Seq(Event)
  BY <1>2
<1>5. Pool(r)' = Append(Pool(r), e)
  BY <1>1, <1>2, <1>3, <1>4 DEF Pool
<1>6. Pending!Deliver(e)
  BY <1>1, <1>2, <1>5 DEF Pending!Deliver, Pool
<1>7. CASE pc[r] = "asleep"
  <2>1. getters = <<r>>
    BY <1>7 DEF Only, AloneInv
  <2>2. getters' = <<>> /\ pc' = [pc EXCEPT ![r] = "woken"]
    BY <1>1, <2>1 DEF wakeup_next
  <2> QED BY <1>1, <1>2, <1>6, <1>7, <2>2 DEF Only, AloneInv
<1>8. CASE pc[r] # "asleep"
  <2>1. getters = <<>>
    BY <1>8 DEF Only, AloneInv
  <2>2. getters' = <<>> /\ pc' = pc
    BY <1>1, <2>1 DEF wakeup_next
  <2> QED BY <1>1, <1>2, <1>6, <1>8, <2>2 DEF Only, AloneInv
<1> QED BY <1>7, <1>8

(* A call begins in the abstract specification too.                          *)
LEMMA CallRefines ==
  ASSUME NEW r, Only(r), NEW f \in Filter, Call(r, f)
  PROVE  AloneInv(r)' /\ Pending!Call(r, f)
<1>1. /\ pc[r] = "idle" /\ want' = [want EXCEPT ![r] = f]
      /\ pc' = [pc EXCEPT ![r] = "called"]
      /\ UNCHANGED <<queue, getters, backlog, skipped, got, put>>
  BY DEF Call
<1>2. /\ Alone = r /\ want \in [{r} -> Filter \cup {{}}]
      /\ pc \in [{r} -> {"idle", "called", "asleep", "woken"}]
  BY OnlyTypes
<1>3. want[r] = {} /\ skipped[r] = <<>> /\ getters = <<>>
  BY <1>1 DEF Only, AloneInv
<1>4. want'[r] = f /\ pc'[r] = "called" /\ f # {}
  BY <1>1, <1>2, BufferConstantsOK
<1>5. AloneInv(r)'
  BY <1>1, <1>3, <1>4 DEF AloneInv
<1>6. Pool(r)' = Pool(r)
  BY <1>1 DEF Pool
<1> QED BY <1>1, <1>2, <1>3, <1>5, <1>6 DEF Pending!Call, Pool

(* A call that is over leaves r idle and holding nothing.                    *)
LEMMA Finished ==
  ASSUME NEW r, Only(r), pc[r] \in {"called", "woken"}, finish(r), UNCHANGED getters
  PROVE  AloneInv(r)' /\ want' = [want EXCEPT ![r] = {}] /\ skipped'[r] = <<>>
<1>1. /\ want \in [{r} -> Filter \cup {{}}] /\ DOMAIN skipped = {r}
      /\ pc \in [{r} -> {"idle", "called", "asleep", "woken"}]
  BY OnlyTypes
<1>2. getters' = <<>>
  BY DEF Only, AloneInv
<1>3. pc'[r] = "idle" /\ want'[r] = {} /\ skipped'[r] = <<>>
  BY <1>1 DEF finish
<1> QED BY <1>2, <1>3 DEF AloneInv, finish

(* recv() returns the oldest pending event it accepts.                       *)
LEMMA ReturnRefines ==
  ASSUME NEW r, Only(r), Return(r)
  PROVE  AloneInv(r)' /\ Pending!Receive(r)
<1>1. Runs(r) /\ finish(r) /\ UNCHANGED <<getters, put>>
  BY DEF Return
<1> DEFINE n == next_event(r)
           k == Len(First(r) \o backlog)
           a == skipped[r]
           p == Pool(r)
<1>2. PICK i \in DOMAIN n :
         /\ SkipsAll(r, i - 1) /\ n[i] \in want[r]
         /\ got' = [got EXCEPT ![r] = Append(@, n[i])]
         /\ restore(SubSeq(n, 1, i - 1) \o SubSeq(n, i + 1, k), r)
         /\ queue' = SubSeq(n, IF i > k THEN i + 1 ELSE k + 1, Len(n))
  BY DEF Return, LeftInBacklog, LeftInQueue
<1>3. n \in Seq(Event) /\ k \in 0..Len(n) /\ a \o n = p
  BY <1>1, RunReadsPool
<1>4. a \in Seq(Event) /\ Alone = r
  BY OnlyTypes
<1>5. AloneInv(r)' /\ want' = [want EXCEPT ![r] = {}] /\ skipped'[r] = <<>>
  BY <1>1, Finished DEF Runs
<1>6. \A j \in 1..(i - 1) : n[j] \notin want[r]
  BY <1>2 DEF SkipsAll
<1>7. \A j \in DOMAIN a : a[j] \notin want[r]
  BY DEF Only, AloneInv
<1>8. backlog' = a \o UpTo(n, i, k) /\ queue' = Beyond(n, i, k)
  BY <1>2 DEF restore, UpTo, Beyond
<1> HIDE DEF n, k, a, p
<1>9. i \in 1..Len(n) /\ Len(n) \in Nat /\ Len(a) \in Nat
  BY <1>3, <1>4
<1> DEFINE j == Len(a) + i
<1>10. /\ p \in Seq(Event) /\ DOMAIN p = 1..(Len(a) + Len(n)) /\ Len(p) = Len(a) + Len(n)
       /\ \A q \in 1..(Len(a) + Len(n)) : p[q] = IF q <= Len(a) THEN a[q] ELSE n[q - Len(a)]
  <2>1. a \o n \in Seq(Event) /\ Len(a \o n) = Len(a) + Len(n)
    <3>1. \A s, t \in Seq(Event) : s \o t \in Seq(Event) /\ Len(s \o t) = Len(s) + Len(t)
      OBVIOUS
    <3> QED BY <1>3, <1>4, <3>1
  <2>2. \A q \in 1..(Len(a) + Len(n)) :
           (a \o n)[q] = IF q <= Len(a) THEN a[q] ELSE n[q - Len(a)]
    BY <1>3, <1>4
  <2>3. p \in Seq(Event) /\ Len(p) = Len(a) + Len(n)
    BY <1>3, <2>1
  <2> QED BY <1>3, <2>2, <2>3
<1>11. j \in DOMAIN p /\ p[j] = n[i]
  <2>1. j \in 1..(Len(a) + Len(n)) /\ ~(j <= Len(a)) /\ j - Len(a) = i
    BY <1>9
  <2> HIDE DEF j
  <2> QED BY <1>10, <2>1
<1>12. \A q \in 1..(j - 1) : p[q] \notin want[r]
  <2> SUFFICES ASSUME NEW q \in 1..(j - 1) PROVE p[q] \notin want[r]
    OBVIOUS
  <2>1. q \in 1..(Len(a) + Len(n))
    BY <1>9
  <2>2. CASE q <= Len(a)
    <3>1. q \in DOMAIN a
      BY <1>4, <2>1, <2>2
    <3> QED BY <1>7, <1>10, <2>1, <2>2, <3>1
  <2>3. CASE ~(q <= Len(a))
    <3>1. q - Len(a) \in 1..(i - 1)
      BY <1>9, <2>1, <2>3
    <3> QED BY <1>6, <1>10, <2>1, <2>3, <3>1
  <2> QED BY <2>2, <2>3
<1>13. UpTo(n, i, k) \in Seq(Event) /\ Beyond(n, i, k) \in Seq(Event)
  <2>1. /\ i - 1 \in Nat /\ i + 1 \in Nat \ {0} /\ i - 1 <= Len(n) /\ k \in Nat /\ k <= Len(n)
    BY <1>3, <1>9
  <2>2. SubSeq(n, 1, i - 1) \in Seq(Event) /\ SubSeq(n, i + 1, k) \in Seq(Event)
    BY <1>3, <2>1
  <2>3. UpTo(n, i, k) \in Seq(Event)
    BY <2>2 DEF UpTo
  <2>4. Beyond(n, i, k) \in Seq(Event)
    BY <1>3, <1>9, <2>1 DEF Beyond
  <2> QED BY <2>3, <2>4
<1>14. Pool(r)' = SubSeq(p, 1, j - 1) \o SubSeq(p, j + 1, Len(p))
  <2>1. a \o UpTo(n, i, k) \in Seq(Event)
    BY <1>4, <1>13
  <2>2. <<>> \o (a \o UpTo(n, i, k)) = a \o UpTo(n, i, k)
    BY <2>1, ConcatEmptySeq
  <2>3. Pool(r)' = (a \o UpTo(n, i, k)) \o Beyond(n, i, k)
    BY <1>5, <1>8, <2>2 DEF Pool
  <2>4. (a \o UpTo(n, i, k)) \o Beyond(n, i, k)
           = SubSeq(a \o n, 1, Len(a) + i - 1) \o SubSeq(a \o n, Len(a) + i + 1, Len(a \o n))
    BY <1>3, <1>4, <1>9, UpToBeyond
  <2>5. Len(a) + i - 1 = j - 1 /\ Len(a) + i + 1 = j + 1
    BY <1>9
  <2> HIDE DEF j
  <2>6. Pool(r)' = SubSeq(a \o n, 1, j - 1) \o SubSeq(a \o n, j + 1, Len(a \o n))
    BY <2>3, <2>4, <2>5
  <2> QED BY <1>3, <2>6
<1>15. got' = [got EXCEPT ![r] = Append(@, p[j])]
  BY <1>2, <1>11 DEF n
<1> HIDE DEF j
<1>16. \E q \in DOMAIN p :
          /\ p[q] \in want[r]
          /\ \A h \in 1..(q - 1) : p[h] \notin want[r]
          /\ got' = [got EXCEPT ![r] = Append(@, p[q])]
          /\ Pool(r)' = SubSeq(p, 1, q - 1) \o SubSeq(p, q + 1, Len(p))
          /\ want' = [want EXCEPT ![r] = {}]
          /\ UNCHANGED put
  <2>1. p[j] \in want[r]
    BY <1>2, <1>11 DEF n
  <2> QED BY <1>1, <1>5, <1>11, <1>12, <1>14, <1>15, <2>1
<1>17. Pending!Receive(r)
  BY <1>4, <1>16 DEF Pending!Receive, Pool, p
<1> QED BY <1>5, <1>17

(* Sleeping changes nothing abstract: what recv() put aside is pending       *)
(* still.                                                                    *)
LEMMA WaitRefines ==
  ASSUME NEW r, Only(r), Wait(r)
  PROVE  AloneInv(r)' /\ UNCHANGED Pending!vars
<1>1. /\ pc[r] \in {"called", "woken"} /\ getters' = Append(getters, r)
      /\ pc' = [pc EXCEPT ![r] = "asleep"] /\ UNCHANGED <<want, got, put>>
  BY DEF Wait
<1>2. /\ Alone = r /\ skipped[r] \in Seq(Event) /\ DOMAIN skipped = {r}
      /\ pc \in [{r} -> {"idle", "called", "asleep", "woken"}]
  BY OnlyTypes
<1>3. getters' = <<r>> /\ pc'[r] = "asleep" /\ want'[r] = want[r] /\ want[r] # {}
  <2>1. getters = <<>> /\ want[r] # {}
    BY <1>1 DEF Only, AloneInv
  <2> QED BY <1>1, <1>2, <2>1
<1>4. CASE Runs(r)
  <2> DEFINE n == next_event(r)
             a == skipped[r]
  <2>1. /\ \A i \in 1..Len(n) : n[i] \notin want[r]
        /\ skipped' = [skipped EXCEPT ![r] = a \o n] /\ backlog' = <<>> /\ queue' = <<>>
    BY <1>4 DEF Wait, SkipsAll
  <2>2. n \in Seq(Event) /\ a \o n = Pool(r)
    BY <1>4, RunReadsPool
  <2>3. skipped'[r] = a \o n
    BY <1>2, <2>1
  <2>4. a \in Seq(Event) /\ \A i \in DOMAIN a : a[i] \notin want[r]
    BY <1>2 DEF Only, AloneInv
  <2> HIDE DEF n, a
  <2>5. a \o n \in Seq(Event) /\ DOMAIN (a \o n) = 1..(Len(a) + Len(n))
        /\ Len(a) \in Nat /\ Len(n) \in Nat
    <3>1. a \o n \in Seq(Event) /\ Len(a \o n) = Len(a) + Len(n)
      <4>1. \A s, t \in Seq(Event) : s \o t \in Seq(Event) /\ Len(s \o t) = Len(s) + Len(t)
        OBVIOUS
      <4> QED BY <2>2, <2>4, <4>1
    <3>2. Len(a) \in Nat /\ Len(n) \in Nat
      BY <2>2, <2>4
    <3> QED BY <3>1, <3>2
  <2>6. ASSUME NEW q \in DOMAIN (a \o n) PROVE (a \o n)[q] \notin want[r]
    <3>1. (a \o n)[q] = IF q <= Len(a) THEN a[q] ELSE n[q - Len(a)]
      BY <2>2, <2>4, <2>5, ConcatProperties
    <3>2. CASE q <= Len(a)
      <4>1. q \in DOMAIN a
        BY <2>4, <2>5, <3>2
      <4> QED BY <2>4, <3>1, <3>2, <4>1
    <3>3. CASE ~(q <= Len(a))
      <4>1. q - Len(a) \in 1..Len(n)
        BY <2>5, <3>3
      <4> QED BY <2>1, <3>1, <3>3, <4>1
    <3> QED BY <3>2, <3>3
  <2>7. AloneInv(r)'
    BY <1>3, <2>1, <2>3, <2>6 DEF AloneInv
  <2>8. ((a \o n) \o <<>>) \o <<>> = a \o n
    BY <2>5, ConcatEmptySeq
  <2>9. Pool(r)' = Pool(r)
    BY <2>1, <2>2, <2>3, <2>8 DEF Pool
  <2> QED BY <1>1, <1>2, <2>7, <2>9 DEF Pending!vars, Pool
<1>5. CASE ~Runs(r)
  <2>1. UNCHANGED <<skipped, backlog, queue>> /\ pc[r] = "woken"
    BY <1>1, <1>5 DEF Wait, Runs
  <2>2. backlog = <<>>
    BY <2>1 DEF Only, AloneInv
  <2>3. AloneInv(r)'
    BY <1>3, <2>1, <2>2 DEF Only, AloneInv
  <2> QED BY <1>1, <1>2, <2>1, <2>3 DEF Pending!vars
<1> QED BY <1>4, <1>5

(* A deadline between two reads is an abstract call given up.                *)
LEMMA ExpireRefines ==
  ASSUME NEW r, Only(r), Expire(r)
  PROVE  AloneInv(r)' /\ Pending!GiveUp(r)
<1>1. Timeouts /\ Runs(r) /\ finish(r) /\ UNCHANGED <<getters, got, put>>
  BY DEF Expire
<1> DEFINE n == next_event(r)
           k == Len(First(r) \o backlog)
           a == skipped[r]
<1>2. PICK i \in k..Len(n) :
         /\ restore(SubSeq(n, 1, i), r)
         /\ queue' = SubSeq(n, IF i > k THEN i + 1 ELSE k + 1, Len(n))
  BY DEF Expire, LeftInQueue
<1>3. n \in Seq(Event) /\ k \in 0..Len(n) /\ a \o n = Pool(r)
  BY <1>1, RunReadsPool
<1>4. a \in Seq(Event) /\ Alone = r
  BY OnlyTypes
<1>5. /\ AloneInv(r)' /\ want' = [want EXCEPT ![r] = {}] /\ skipped'[r] = <<>>
  BY <1>1, Finished DEF Runs
<1>6. want[r] # {}
  BY <1>1 DEF Only, AloneInv, Runs
<1>7. backlog' = a \o SubSeq(n, 1, i)
  BY <1>2 DEF restore
<1> HIDE DEF n, k, a
<1>8. i \in 0..Len(n) /\ Len(n) \in Nat /\ queue' = SubSeq(n, i + 1, Len(n))
  <2>1. i \in 0..Len(n) /\ Len(n) \in Nat /\ (IF i > k THEN i + 1 ELSE k + 1) = i + 1
    BY <1>3
  <2> QED BY <1>2, <2>1 DEF n
<1> DEFINE u == SubSeq(n, 1, i)
           v == SubSeq(n, i + 1, Len(n))
<1>9. u \in Seq(Event) /\ v \in Seq(Event)
  BY <1>3, <1>8
<1>10. u \o v = n
  BY <1>3, <1>8, CutAndJoined
<1>11. backlog' = a \o u /\ queue' = v
  BY <1>7, <1>8
<1> HIDE DEF u, v
<1>12. (<<>> \o (a \o u)) \o v = a \o n
  <2>1. \A s, t, w \in Seq(Event) : (s \o t) \o w = s \o (t \o w)
    OBVIOUS
  <2>2. \A s \in Seq(Event) : <<>> \o s = s
    BY ConcatEmptySeq
  <2>3. a \o u \in Seq(Event)
    BY <1>4, <1>9
  <2>4. <<>> \o (a \o u) = a \o u
    BY <2>2, <2>3
  <2>5. (a \o u) \o v = a \o (u \o v)
    BY <1>4, <1>9, <2>1
  <2>6. a \o (u \o v) = a \o n
    BY <1>10
  <2> QED BY <2>4, <2>5, <2>6, Zenon
<1>13. Pool(r)' = Pool(r)
  BY <1>3, <1>5, <1>11, <1>12 DEF Pool
<1> QED BY <1>1, <1>4, <1>5, <1>6, <1>13 DEF Pending!GiveUp, Pool

(* The only receiver leaves no getter behind.                                *)
LEMMA RemovedAll ==
  ASSUME NEW r PROVE remove(<<>>, r) = <<>> /\ remove(<<r>>, r) = <<>>
<1>1. remove(<<>>, r) = <<>>
  BY DEF remove
<1>2. remove(<<r>>, r) = <<>>
  <2> DEFINE at == {i \in DOMAIN <<r>> : <<r>>[i] = r}
             i  == CHOOSE j \in at : TRUE
  <2>1. at = {1}
    OBVIOUS
  <2>2. i = 1
    BY <2>1
  <2>3. remove(<<r>>, r) = SubSeq(<<r>>, 1, i - 1) \o SubSeq(<<r>>, i + 1, Len(<<r>>))
    BY <2>1 DEF remove
  <2> HIDE DEF i
  <2>4. i - 1 = 0 /\ i + 1 = 2 /\ Len(<<r>>) = 1
    BY <2>2
  <2>5. SubSeq(<<r>>, 1, 0) = <<>> /\ SubSeq(<<r>>, 2, 1) = <<>>
    BY SubSeqEmpty
  <2> QED BY <2>3, <2>4, <2>5
<1> QED BY <1>1, <1>2

(* A cancelled sleep is an abstract call given up.                           *)
LEMMA TimeoutRefines ==
  ASSUME NEW r, Only(r), Timeout(r)
  PROVE  AloneInv(r)' /\ Pending!GiveUp(r)
<1>1. /\ Timeouts /\ pc[r] \in {"asleep", "woken"} /\ restore(backlog, r)
      /\ want' = [want EXCEPT ![r] = {}] /\ skipped' = [skipped EXCEPT ![r] = <<>>]
      /\ UNCHANGED <<queue, got, put>>
  BY DEF Timeout
<1>2. /\ Alone = r /\ skipped[r] \in Seq(Event) /\ DOMAIN skipped = {r}
      /\ backlog \in Seq(Event) /\ want \in [{r} -> Filter \cup {{}}]
      /\ pc \in [{r} -> {"idle", "called", "asleep", "woken"}]
  BY OnlyTypes
<1>3. want[r] # {}
  BY <1>1 DEF Only, AloneInv
<1>4. want'[r] = {} /\ skipped'[r] = <<>> /\ backlog' = skipped[r] \o backlog
  BY <1>1, <1>2 DEF restore
<1>5. remove(getters, r) = <<>>
  BY RemovedAll DEF Only, AloneInv
<1>6. getters' = <<>> /\ pc' = [pc EXCEPT ![r] = "idle"]
  BY <1>5 DEF Timeout, wakeup_next
<1>7. pc'[r] = "idle"
  BY <1>2, <1>6
<1>8. AloneInv(r)'
  BY <1>4, <1>6, <1>7 DEF AloneInv
<1>9. Pool(r)' = Pool(r)
  <2>1. <<>> \o (skipped[r] \o backlog) = skipped[r] \o backlog
    BY <1>2, ConcatEmptySeq
  <2> QED BY <1>1, <1>4, <2>1 DEF Pool
<1> QED BY <1>1, <1>2, <1>3, <1>8, <1>9 DEF Pending!GiveUp, Pool

(* The initial states correspond.                                            *)
LEMMA AloneInit ==
  ASSUME NEW r, Receiver = {r}
  PROVE  Init => AloneInv(r) /\ Pending!Init
<1> SUFFICES ASSUME Init PROVE AloneInv(r) /\ Pending!Init
  OBVIOUS
<1>1. AloneInv(r)
  BY DEF Init, AloneInv
<1>2. Alone = r
  BY DEF Alone
<1>3. skipped[Alone] \o backlog \o queue = <<>>
  BY <1>2 DEF Init
<1>4. Pending!Init
  BY <1>3 DEF Init, Pending!Init
<1> QED BY <1>1, <1>4

(* Every step of the buffer is an abstract step or changes nothing abstract. *)
LEMMA AloneStep ==
  ASSUME NEW r, Only(r), [Next]_vars
  PROVE  AloneInv(r)' /\ [Pending!Next]_(Pending!vars)
<1>1. Receiver = {r}
  BY DEF Only
<1>2. CASE UNCHANGED vars
  <2>1. UNCHANGED <<queue, getters, backlog, pc, want, skipped, got, put>>
    BY <1>2 DEF vars
  <2> QED BY <2>1 DEF Only, AloneInv, Pending!vars
<1>3. CASE \E e \in Event : put_nowait(e)
  BY <1>3, PutRefines DEF Pending!Next
<1>4. CASE Return(r)
  BY <1>1, <1>4, ReturnRefines DEF Pending!Next
<1>5. CASE Wait(r)
  BY <1>5, WaitRefines
<1>6. CASE Expire(r)
  BY <1>1, <1>6, ExpireRefines DEF Pending!Next
<1>7. CASE Timeout(r)
  BY <1>1, <1>7, TimeoutRefines DEF Pending!Next
<1>8. CASE \E f \in Filter : Call(r, f)
  BY <1>1, <1>8, CallRefines DEF Pending!Next
<1> QED BY <1>1, <1>2, <1>3, <1>4, <1>5, <1>6, <1>7, <1>8 DEF Next, Run

(* Of ImplementsPending all but the fairness: with one receiver, for any     *)
(* events and filters, every step of the buffer is a step of PendingEvents   *)
(* or changes nothing there.  A call takes the first pending event it        *)
(* accepts, wherever it lies, and leaves the others in their order, and one  *)
(* that times out consumes nothing.                                          *)
THEOREM AloneImplementsPending ==
  ASSUME NEW r, Receiver = {r}
  PROVE  Spec => Pending!Spec
<1> DEFINE Inv == BInv /\ ControlType /\ AloneInv(r)
<1>1. Init => Inv /\ Pending!Init
  BY AloneInit, BufferInit, ControlInit
<1>2. Inv /\ [Next]_vars => Inv' /\ [Pending!Next]_(Pending!vars)
  <2> SUFFICES ASSUME Inv, [Next]_vars PROVE Inv' /\ [Pending!Next]_(Pending!vars)
    OBVIOUS
  <2>1. Only(r)
    BY DEF Only
  <2> QED BY <2>1, AloneStep, BufferStep, ControlStep
<1> HIDE DEF Inv
<1> QED BY <1>1, <1>2, PTL DEF Spec, Pending!Spec
=============================================================================
