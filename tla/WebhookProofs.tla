--------------------------- MODULE WebhookProofs ---------------------------
(***************************************************************************)
(* Proofs about extract_events(), for payloads of any size and shape, and  *)
(* about what a 200 covers of them.                                        *)
(***************************************************************************)
EXTENDS Webhook, IngestProofs, WellFoundedInduction

-----------------------------------------------------------------------------
(* Induction, over a set instead of a predicate *)

\* A set of numbers that is not empty has a least one.
LEMMA LeastNumber ==
  ASSUME NEW S, S \subseteq Nat, S # {}
  PROVE  \E n \in S : \A k \in S : n <= k
<1>1. PICK n \in S : \A k \in S : <<k, n>> \notin OpToRel(<, Nat)
  BY WFMin, NatLessThanWellFounded
<1>2. \A k \in S : k \in Nat /\ n \in Nat /\ ~(k < n)
  BY <1>1 DEF OpToRel
<1> QED
  BY <1>2

\* Induction over the natural numbers.
LEMMA NumbersInductive ==
  ASSUME NEW S, 0 \in S, \A n \in Nat : n \in S => n + 1 \in S
  PROVE  \A n \in Nat : n \in S
<1> SUFFICES ASSUME NEW m \in Nat, m \notin S PROVE FALSE
  OBVIOUS
<1>1. PICK n \in Nat \ S : \A k \in Nat \ S : n <= k
  BY LeastNumber
<1>2. n # 0
  BY <1>1
<1>3. n - 1 \in Nat /\ ~(n <= n - 1) /\ n - 1 + 1 = n
  BY <1>1, <1>2
<1>4. n - 1 \in S
  BY <1>1, <1>3
<1> QED
  BY <1>1, <1>3, <1>4

\* Induction over sequences.
LEMMA SequencesInductive ==
  ASSUME NEW X, NEW S, << >> \in S,
         \A s \in Seq(X), x \in X : s \in S => Append(s, x) \in S
  PROVE  \A s \in Seq(X) : s \in S
<1> DEFINE P == {n \in Nat : \A s \in Seq(X) : Len(s) = n => s \in S}
<1>1. 0 \in P
  OBVIOUS
<1>2. ASSUME NEW n \in Nat, n \in P PROVE n + 1 \in P
  <2> SUFFICES ASSUME NEW s \in Seq(X), Len(s) = n + 1 PROVE s \in S
    OBVIOUS
  <2>1. PICK t : t = [i \in 1..n |-> s[i]]
    OBVIOUS
  <2>2. t \in Seq(X) /\ Len(t) = n /\ s[n + 1] \in X
    BY <2>1
  <2>3. Append(t, s[n + 1]) = s
    BY <2>1, <2>2
  <2> QED
    BY <1>2, <2>2, <2>3
<1> HIDE DEF P
<1>3. \A n \in Nat : n \in P
  BY <1>1, <1>2, NumbersInductive
<1> QED
  BY <1>3 DEF P

-----------------------------------------------------------------------------
(* FlattenSeq, which adds up what the elements of a list yield *)

\* f is the recursive function within FlattenSeq, for the first n parts of s.
Flattens(f, s, n) ==
  f = [i \in 1..n |-> IF i = 1 THEN s[i] ELSE f[i - 1] \o s[i]]

\* There is such a function, and FlattenSeq is its last value.
LEMMA FlattenDefined ==
  ASSUME NEW X, NEW s \in Seq(Seq(X)), Len(s) # 0
  PROVE  \E f : Flattens(f, s, Len(s)) /\ FlattenSeq(s) = f[Len(s)]
<1> DEFINE P == {n \in Nat : \E f : Flattens(f, s, n)}
<1>1. 0 \in P
  <2>1. Flattens([i \in 1..0 |-> 0], s, 0)
    BY DEF Flattens
  <2> QED
    BY <2>1
<1>2. ASSUME NEW n \in Nat, n \in P PROVE n + 1 \in P
  <2>1. PICK f : Flattens(f, s, n)
    BY <1>2
  <2>2. PICK g : g = [i \in 1..(n + 1) |-> IF i <= n THEN f[i]
                        ELSE IF i = 1 THEN s[i] ELSE f[n] \o s[i]]
    OBVIOUS
  <2>3. ASSUME NEW i \in 1..(n + 1)
        PROVE  g[i] = IF i = 1 THEN s[i] ELSE g[i - 1] \o s[i]
    <3>1. CASE i <= n
      <4>1. i \in 1..n /\ (i # 1 => i - 1 \in 1..n)
        BY <3>1
      <4>2. f[i] = IF i = 1 THEN s[i] ELSE f[i - 1] \o s[i]
        BY <2>1, <4>1 DEF Flattens
      <4>3. \A j \in 1..n : g[j] = f[j]
        BY <2>2
      <4> QED
        BY <4>1, <4>2, <4>3
    <3>2. CASE i = n + 1
      BY <2>2, <3>2
    <3> QED
      BY <3>1, <3>2
  <2>4. g = [i \in 1..(n + 1) |-> g[i]]
    BY <2>2
  <2>5. Flattens(g, s, n + 1)
    BY <2>3, <2>4 DEF Flattens
  <2> QED
    BY <2>5
<1>3. \E f : Flattens(f, s, Len(s))
  <2>1. Len(s) \in P
    <3> HIDE DEF P
    <3> QED
      BY <1>1, <1>2, NumbersInductive
  <2> QED
    BY <2>1
<1>4. PICK f : f = CHOOSE g : Flattens(g, s, Len(s))
  OBVIOUS
<1>5. Flattens(f, s, Len(s))
  BY <1>3, <1>4
<1>6. FlattenSeq(s) = f[Len(s)]
  BY <1>4 DEF FlattenSeq, Flattens
<1> QED
  BY <1>5, <1>6

LEMMA FlattenStep ==
  ASSUME NEW s, NEW n \in Nat, NEW f, Flattens(f, s, n), NEW i \in 1..n
  PROVE  f[i] = IF i = 1 THEN s[i] ELSE f[i - 1] \o s[i]
BY DEF Flattens

\* The first n parts are the same.
BeginAlike(s, t, n) == \A i \in 1..n : s[i] = t[i]

\* On the way, its values are those of the list's beginnings.
LEMMA FlattenAgrees ==
  ASSUME NEW s, NEW t, NEW m \in Nat, NEW n \in Nat, m <= n,
         BeginAlike(s, t, m),
         NEW f, Flattens(f, s, m), NEW g, Flattens(g, t, n)
  PROVE  BeginAlike(f, g, m)
<1> DEFINE P == {i \in Nat : i \in 1..m => f[i] = g[i]}
<1>1. 0 \in P
  OBVIOUS
<1>2. ASSUME NEW i \in Nat, i \in P PROVE i + 1 \in P
  <2> SUFFICES ASSUME i + 1 \in 1..m PROVE f[i + 1] = g[i + 1]
    OBVIOUS
  <2>1. i + 1 \in 1..n /\ i + 1 - 1 = i /\ (i + 1 # 1 => i \in 1..m)
    OBVIOUS
  <2>2. f[i + 1] = IF i + 1 = 1 THEN s[i + 1] ELSE f[i] \o s[i + 1]
    BY <2>1, FlattenStep
  <2>3. g[i + 1] = IF i + 1 = 1 THEN t[i + 1] ELSE g[i] \o t[i + 1]
    BY <2>1, FlattenStep
  <2>4. i + 1 # 1 => f[i] = g[i]
    BY <1>2, <2>1
  <2>5. s[i + 1] = t[i + 1]
    BY DEF BeginAlike
  <2> QED
    BY <2>2, <2>3, <2>4, <2>5
<1> HIDE DEF P
<1>3. \A i \in Nat : i \in P
  BY <1>1, <1>2, NumbersInductive
<1> QED
  BY <1>3 DEF P, BeginAlike

LEMMA FlattenEmpty == FlattenSeq(<< >>) = << >>
BY DEF FlattenSeq

\* One more part adds its elements at the end.
LEMMA FlattenAppend ==
  ASSUME NEW X, NEW s \in Seq(Seq(X)), NEW x \in Seq(X)
  PROVE  FlattenSeq(Append(s, x)) = FlattenSeq(s) \o x
<1>1. PICK t : t = Append(s, x)
  OBVIOUS
<1>2. /\ t \in Seq(Seq(X)) /\ Len(t) = Len(s) + 1 /\ Len(s) \in Nat
      /\ t[Len(s) + 1] = x /\ \A i \in 1..Len(s) : s[i] = t[i]
  BY <1>1
<1>3. PICK g : Flattens(g, t, Len(t)) /\ FlattenSeq(t) = g[Len(t)]
  BY <1>2, FlattenDefined
<1>4. g[Len(t)] = IF Len(t) = 1 THEN x ELSE g[Len(s)] \o x
  <2>1. Len(t) \in Nat /\ Len(t) \in 1..Len(t) /\ Len(t) - 1 = Len(s) /\ t[Len(t)] = x
    BY <1>2
  <2> QED
    BY <1>3, <2>1, FlattenStep
<1>5. CASE Len(s) = 0
  <2>1. s = << >> /\ << >> \o x = x
    BY <1>5
  <2> QED
    BY <1>1, <1>2, <1>3, <1>4, <1>5, <2>1, FlattenEmpty
<1>6. CASE Len(s) # 0
  <2>1. PICK f : Flattens(f, s, Len(s)) /\ FlattenSeq(s) = f[Len(s)]
    BY <1>6, FlattenDefined
  <2>2. f[Len(s)] = g[Len(s)]
    <3>1. Len(s) \in Nat /\ Len(t) \in Nat /\ Len(s) <= Len(t) /\ Len(s) \in 1..Len(s)
      BY <1>2, <1>6
    <3>2. BeginAlike(s, t, Len(s))
      BY <1>2 DEF BeginAlike
    <3>3. BeginAlike(f, g, Len(s))
      BY <1>3, <2>1, <3>1, <3>2, FlattenAgrees
    <3> QED
      BY <3>1, <3>3 DEF BeginAlike
  <2> QED
    BY <1>1, <1>2, <1>3, <1>4, <1>6, <2>1, <2>2
<1> QED
  BY <1>5, <1>6

\* Its type, and what is in it.
LEMMA FlattenType ==
  ASSUME NEW X
  PROVE  \A s \in Seq(Seq(X)) : FlattenSeq(s) \in Seq(X)
<1> DEFINE P == {s \in Seq(Seq(X)) : FlattenSeq(s) \in Seq(X)}
<1>1. << >> \in P
  <2>1. << >> \in Seq(Seq(X)) /\ << >> \in Seq(X)
    OBVIOUS
  <2>2. FlattenSeq(<< >>) \in Seq(X)
    BY <2>1, FlattenEmpty
  <2> QED
    BY <2>1, <2>2
<1>2. ASSUME NEW s \in Seq(Seq(X)), NEW x \in Seq(X), s \in P PROVE Append(s, x) \in P
  <2>1. Append(s, x) \in Seq(Seq(X))
    OBVIOUS
  <2>2. FlattenSeq(s) \o x \in Seq(X)
    BY <1>2
  <2>3. FlattenSeq(Append(s, x)) \in Seq(X)
    BY <2>2, FlattenAppend
  <2> QED
    BY <2>1, <2>3
<1> HIDE DEF P
<1>3. \A s \in Seq(Seq(X)) : s \in P
  BY <1>1, <1>2, SequencesInductive
<1> QED
  BY <1>3 DEF P

LEMMA FlattenHolds ==
  ASSUME NEW X
  PROVE  \A s \in Seq(Seq(X)) :
           Range(FlattenSeq(s)) = UNION {Range(s[i]) : i \in 1..Len(s)}
<1> DEFINE P == {s \in Seq(Seq(X)) :
                   Range(FlattenSeq(s)) = UNION {Range(s[i]) : i \in 1..Len(s)}}
<1>1. << >> \in P
  BY FlattenEmpty DEF Range
<1>2. ASSUME NEW s \in Seq(Seq(X)), NEW x \in Seq(X), s \in P PROVE Append(s, x) \in P
  <2>1. PICK t : t = Append(s, x)
    OBVIOUS
  <2>2. /\ t \in Seq(Seq(X)) /\ Len(t) = Len(s) + 1 /\ Len(s) \in Nat
        /\ t[Len(s) + 1] = x /\ \A i \in 1..Len(s) : t[i] = s[i]
    BY <2>1
  <2>3. FlattenSeq(t) = FlattenSeq(s) \o x /\ FlattenSeq(s) \in Seq(X)
    BY <2>1, FlattenAppend, FlattenType
  <2>4. Range(FlattenSeq(t)) = Range(FlattenSeq(s)) \union Range(x)
    BY <2>3, RangeConcatenation
  <2>5. UNION {Range(t[i]) : i \in 1..Len(t)}
          = (UNION {Range(s[i]) : i \in 1..Len(s)}) \union Range(x)
    <3>1. 1..Len(t) = 1..Len(s) \union {Len(s) + 1}
      BY <2>2
    <3>2. \A i \in 1..Len(s) : Range(t[i]) = Range(s[i])
      BY <2>2
    <3>3. PICK A, B : A = {Range(t[i]) : i \in 1..Len(t)} /\ B = {Range(s[i]) : i \in 1..Len(s)}
      OBVIOUS
    <3>4. A = B \union {Range(x)}
      BY <2>2, <3>1, <3>2, <3>3
    <3>5. UNION A = (UNION B) \union Range(x)
      BY <3>4
    <3> QED
      BY <3>3, <3>5
  <2>6. Range(FlattenSeq(s)) = UNION {Range(s[i]) : i \in 1..Len(s)}
    BY <1>2
  <2>7. Range(FlattenSeq(t)) = UNION {Range(t[i]) : i \in 1..Len(t)}
    BY <2>4, <2>5, <2>6
  <2> QED
    BY <2>1, <2>2, <2>7
<1> HIDE DEF P
<1>3. \A s \in Seq(Seq(X)) : s \in P
  BY <1>1, <1>2, SequencesInductive
<1> QED
  BY <1>3 DEF P

\* Two lists one after the other yield what they yield, one after the other.
LEMMA FlattenConcat ==
  ASSUME NEW X, NEW s \in Seq(Seq(X))
  PROVE  \A t \in Seq(Seq(X)) : FlattenSeq(s \o t) = FlattenSeq(s) \o FlattenSeq(t)
<1> DEFINE P == {t \in Seq(Seq(X)) :
                   FlattenSeq(s \o t) = FlattenSeq(s) \o FlattenSeq(t)}
<1>1. << >> \in P
  <2>1. FlattenSeq(s) \in Seq(X)
    BY FlattenType
  <2>2. s \o << >> = s /\ FlattenSeq(s) \o << >> = FlattenSeq(s)
    BY <2>1
  <2>3. FlattenSeq(s \o << >>) = FlattenSeq(s) \o FlattenSeq(<< >>)
    BY <2>2, FlattenEmpty
  <2>4. << >> \in Seq(Seq(X))
    OBVIOUS
  <2> QED
    BY <2>3, <2>4
<1>2. ASSUME NEW t \in Seq(Seq(X)), NEW x \in Seq(X), t \in P PROVE Append(t, x) \in P
  <2>1. s \o t \in Seq(Seq(X)) /\ s \o Append(t, x) = Append(s \o t, x)
    OBVIOUS
  <2>2. FlattenSeq(s) \in Seq(X) /\ FlattenSeq(t) \in Seq(X)
    BY FlattenType
  <2>3. FlattenSeq(s \o Append(t, x)) = (FlattenSeq(s) \o FlattenSeq(t)) \o x
    BY <1>2, <2>1, FlattenAppend
  <2>4. FlattenSeq(Append(t, x)) = FlattenSeq(t) \o x
    BY FlattenAppend
  <2>5. (FlattenSeq(s) \o FlattenSeq(t)) \o x = FlattenSeq(s) \o (FlattenSeq(t) \o x)
    BY <2>2, ConcatAssociative
  <2>6. FlattenSeq(s \o Append(t, x)) = FlattenSeq(s) \o FlattenSeq(Append(t, x))
    BY <2>3, <2>4, <2>5
  <2>7. Append(t, x) \in Seq(Seq(X))
    OBVIOUS
  <2> QED
    BY <2>6, <2>7
<1> HIDE DEF P
<1>3. \A t \in Seq(Seq(X)) : t \in P
  BY <1>1, <1>2, SequencesInductive
<1> QED
  BY <1>3 DEF P

-----------------------------------------------------------------------------
(* What the loops of extract_events() collect *)

IsSeq(x) == x \in Seq(Range(x))

\* A loop over a list collects what the elements yield, all of it and nothing
\* else.
LEMMA CollectedHolds ==
  ASSUME NEW n \in Nat, NEW y, y = [i \in 1..n |-> y[i]], \A i \in 1..n : IsSeq(y[i])
  PROVE  /\ IsSeq(Collected(y))
         /\ Range(Collected(y)) = UNION {Range(y[i]) : i \in 1..n}
<1>1. PICK X : X = UNION {Range(y[i]) : i \in 1..n}
  OBVIOUS
<1>2. ASSUME NEW i \in 1..n PROVE y[i] \in Seq(X)
  <2>1. PICK R : R = Range(y[i])
    OBVIOUS
  <2>2. y[i] \in Seq(R) /\ R \subseteq X
    BY <1>1, <2>1 DEF IsSeq
  <2> QED
    BY <2>2
<1>3. y \in [1..n -> Seq(X)]
  BY <1>2
<1>4. y \in Seq(Seq(X)) /\ Len(y) = n
  BY <1>3
<1>5. Collected(y) \in Seq(X)
  BY <1>4, FlattenType DEF Collected
<1>6. Range(Collected(y)) = X
  BY <1>1, <1>4, FlattenHolds DEF Collected
<1> QED
  BY <1>1, <1>5, <1>6 DEF IsSeq

\* The elements of a list in an object are what Elements says.
LEMMA ListUnder ==
  ASSUME NEW v \in Json \union {Null}, NEW key
  PROVE  /\ AsList(At(AsDict(v), key)) \in Seq(Json)
         /\ Range(AsList(At(AsDict(v), key))) = Elements(v, key)
<1>1. ~Is(Null, "list") /\ ~Is(Null, "obj")
  BY DEF Is, Null
<1>2. << >> \in Seq(Json) /\ Range(<< >>) = {}
  BY DEF Range
<1>3. CASE Is(v, "obj") /\ key \in DOMAIN v.obj
  <2>1. v.obj[key] \in Json /\ At(AsDict(v), key) = v.obj[key]
    BY <1>1, <1>3, JsonAssumption DEF At, AsDict
  <2>2. Is(v.obj[key], "list") => v.obj[key].list \in Seq(Json)
    BY <2>1, JsonAssumption
  <2> QED
    BY <1>2, <1>3, <2>1, <2>2 DEF AsList, Elements
<1>4. CASE ~(Is(v, "obj") /\ key \in DOMAIN v.obj)
  <2>1. At(AsDict(v), key) = Null
    BY <1>4 DEF At, AsDict
  <2> QED
    BY <1>1, <1>2, <1>4, <2>1 DEF AsList, Elements
<1> QED
  BY <1>3, <1>4

\* The value under a key is a value, or reads like a null.
LEMMA ValueUnder ==
  ASSUME NEW v \in Json, NEW key
  PROVE  At(AsDict(v), key) \in Json \/ At(AsDict(v), key) = Null
BY JsonAssumption DEF At, AsDict

\* One message or status yields one event, with its id, or nothing.
LEMMA ItemYields ==
  ASSUME NEW item, NEW to, NEW id, id = At(AsDict(item), "id")
  PROVE  /\ IsSeq(FromMessage(item, to)) /\ IsSeq(FromStatus(item, to))
         /\ ~Truthy(id) => FromMessage(item, to) = << >> /\ FromStatus(item, to) = << >>
         /\ Truthy(id) => /\ {e.message_id : e \in Range(FromMessage(item, to))} = {id}
                          /\ {e.message_id : e \in Range(FromStatus(item, to))} = {id}
<1>1. Range(<< >>) = {} /\ IsSeq(<< >>)
  BY DEF Range, IsSeq
<1>2. \A e : Range(<<e>>) = {e} /\ IsSeq(<<e>>)
  BY DEF Range, IsSeq
<1>3. CASE ~Truthy(id)
  BY <1>1, <1>3 DEF FromMessage, FromStatus
<1>4. CASE Truthy(id)
  <2>1. PICK e : FromMessage(item, to) = <<e>> /\ e.message_id = id
    BY <1>4 DEF FromMessage
  <2>2. PICK f : FromStatus(item, to) = <<f>> /\ f.message_id = id
    BY <1>4 DEF FromStatus
  <2> QED
    BY <1>2, <1>4, <2>1, <2>2
<1> QED
  BY <1>3, <1>4

\* The ids of the events, and those of the messages and statuses that count.
NamedBy(events) == {e.message_id : e \in Range(events)}
IdsAt(items) == {id \in {At(AsDict(item), "id") : item \in items} : Truthy(id)}

LEMMA ItemNames ==
  ASSUME NEW item, NEW to
  PROVE  /\ NamedBy(FromMessage(item, to)) = IdsAt({item})
         /\ NamedBy(FromStatus(item, to)) = IdsAt({item})
<1>1. PICK id : id = At(AsDict(item), "id")
  OBVIOUS
<1>2. NamedBy(<< >>) = {}
  BY DEF NamedBy, Range
<1>3. CASE ~Truthy(id)
  <2>1. FromMessage(item, to) = << >> /\ FromStatus(item, to) = << >>
    BY <1>1, <1>3, ItemYields
  <2>2. IdsAt({item}) = {}
    BY <1>1, <1>3 DEF IdsAt
  <2> QED
    BY <1>2, <2>1, <2>2
<1>4. CASE Truthy(id)
  <2>1. NamedBy(FromMessage(item, to)) = {id} /\ NamedBy(FromStatus(item, to)) = {id}
    BY <1>1, <1>4, ItemYields DEF NamedBy
  <2>2. IdsAt({item}) = {id}
    BY <1>1, <1>4 DEF IdsAt
  <2> QED
    BY <2>1, <2>2
<1> QED
  BY <1>3, <1>4

\* A loop names what its elements name.
LEMMA CollectedNames ==
  ASSUME NEW n \in Nat, NEW y, y = [i \in 1..n |-> y[i]], \A i \in 1..n : IsSeq(y[i])
  PROVE  NamedBy(Collected(y)) = UNION {NamedBy(y[i]) : i \in 1..n}
<1>1. Range(Collected(y)) = UNION {Range(y[i]) : i \in 1..n}
  BY CollectedHolds
<1>2. \A id : id \in NamedBy(Collected(y)) <=>
        \E i \in 1..n : \E e \in Range(y[i]) : id = e.message_id
  BY <1>1 DEF NamedBy
<1>3. \A id : id \in UNION {NamedBy(y[i]) : i \in 1..n} <=>
        \E i \in 1..n : \E e \in Range(y[i]) : id = e.message_id
  BY DEF NamedBy
<1> QED
  BY <1>2, <1>3

\* One change: its value's messages and statuses.
LEMMA ChangeNames ==
  ASSUME NEW change \in Json, NEW v, v = At(AsDict(change), "value")
  PROVE  /\ IsSeq(FromChange(change))
         /\ NamedBy(FromChange(change))
              = IdsAt(Elements(v, "messages") \union Elements(v, "statuses"))
<1>1. v \in Json \union {Null}
  BY ValueUnder
<1>2. PICK to : to = At(AsDict(At(AsDict(v), "metadata")), "display_phone_number")
  OBVIOUS
<1>3. PICK messages, statuses : /\ messages = AsList(At(AsDict(v), "messages"))
                                /\ statuses = AsList(At(AsDict(v), "statuses"))
  OBVIOUS
<1>4. /\ messages \in Seq(Json) /\ Range(messages) = Elements(v, "messages")
      /\ statuses \in Seq(Json) /\ Range(statuses) = Elements(v, "statuses")
  BY <1>1, <1>3, ListUnder
<1>5. PICK y, z : /\ y = [i \in DOMAIN messages |-> FromMessage(messages[i], to)]
                  /\ z = [i \in DOMAIN statuses |-> FromStatus(statuses[i], to)]
  OBVIOUS
<1>6. FromChange(change) = Collected(y) \o Collected(z)
  BY <1>2, <1>3, <1>5 DEF FromChange
<1>7. PICK m, n : m = Len(messages) /\ n = Len(statuses)
  OBVIOUS
<1>8. /\ m \in Nat /\ y = [i \in 1..m |-> y[i]]
      /\ n \in Nat /\ z = [i \in 1..n |-> z[i]]
      /\ \A i \in 1..m : y[i] = FromMessage(messages[i], to)
      /\ \A i \in 1..n : z[i] = FromStatus(statuses[i], to)
  BY <1>4, <1>5, <1>7
<1>9. (\A i \in 1..m : IsSeq(y[i])) /\ (\A i \in 1..n : IsSeq(z[i]))
  BY <1>8, ItemYields
<1>10. IsSeq(Collected(y)) /\ IsSeq(Collected(z))
  BY <1>8, <1>9, CollectedHolds
<1>11. PICK R, S : R = Range(Collected(y)) /\ S = Range(Collected(z))
  OBVIOUS
<1>12. Range(FromChange(change)) = R \union S /\ IsSeq(FromChange(change))
  <2>1. Collected(y) \in Seq(R \union S) /\ Collected(z) \in Seq(R \union S)
    BY <1>10, <1>11 DEF IsSeq
  <2>2. Range(FromChange(change)) = R \union S
    BY <1>6, <1>11, <2>1, RangeConcatenation
  <2> QED
    BY <1>6, <2>1, <2>2 DEF IsSeq
<1>13. NamedBy(Collected(y)) = IdsAt(Elements(v, "messages"))
  <2>1. NamedBy(Collected(y)) = UNION {NamedBy(y[i]) : i \in 1..m}
    BY <1>8, <1>9, CollectedNames
  <2>2. \A i \in 1..m : NamedBy(y[i]) = IdsAt({messages[i]})
    BY <1>8, ItemNames
  <2>3. Elements(v, "messages") = {messages[i] : i \in 1..m}
    BY <1>4, <1>7 DEF Range
  <2> QED
    BY <2>1, <2>2, <2>3 DEF IdsAt
<1>14. NamedBy(Collected(z)) = IdsAt(Elements(v, "statuses"))
  <2>1. NamedBy(Collected(z)) = UNION {NamedBy(z[i]) : i \in 1..n}
    BY <1>8, <1>9, CollectedNames
  <2>2. \A i \in 1..n : NamedBy(z[i]) = IdsAt({statuses[i]})
    BY <1>8, ItemNames
  <2>3. Elements(v, "statuses") = {statuses[i] : i \in 1..n}
    BY <1>4, <1>7 DEF Range
  <2> QED
    BY <2>1, <2>2, <2>3 DEF IdsAt
<1>15. NamedBy(FromChange(change)) = NamedBy(Collected(y)) \union NamedBy(Collected(z))
  BY <1>11, <1>12 DEF NamedBy
<1>16. \A A, B : IdsAt(A \union B) = IdsAt(A) \union IdsAt(B)
  BY DEF IdsAt
<1> QED
  BY <1>12, <1>13, <1>14, <1>15, <1>16

\* The messages and statuses of a change, and of a payload.
ItemsIn(change) ==
  LET v == At(AsDict(change), "value")
  IN  Elements(v, "messages") \union Elements(v, "statuses")
ItemsUnder(changes) == UNION {ItemsIn(change) : change \in changes}
ChangesIn(payload) == UNION {Elements(entry, "changes") : entry \in Elements(payload, "entry")}

LEMMA ElementsAreValues ==
  ASSUME NEW v \in Json, NEW key
  PROVE  Elements(v, key) \subseteq Json
<1>1. PICK s : s = AsList(At(AsDict(v), key))
  OBVIOUS
<1>2. s \in Seq(Json) /\ Range(s) = Elements(v, key)
  BY <1>1, ListUnder
<1>3. Range(s) \subseteq Json
  BY <1>2 DEF Range
<1> QED
  BY <1>2, <1>3

\* One entry: its changes.
LEMMA EntryNames ==
  ASSUME NEW entry \in Json
  PROVE  /\ IsSeq(FromEntry(entry))
         /\ NamedBy(FromEntry(entry)) = IdsAt(ItemsUnder(Elements(entry, "changes")))
<1>1. PICK changes : changes = AsList(At(AsDict(entry), "changes"))
  OBVIOUS
<1>2. changes \in Seq(Json) /\ Range(changes) = Elements(entry, "changes")
  BY <1>1, ListUnder
<1>3. PICK n : n = Len(changes)
  OBVIOUS
<1>4. PICK y : y = [i \in DOMAIN changes |-> FromChange(changes[i])]
  OBVIOUS
<1>5. /\ n \in Nat /\ y = [i \in 1..n |-> y[i]]
      /\ \A i \in 1..n : y[i] = FromChange(changes[i]) /\ changes[i] \in Json
      /\ Elements(entry, "changes") = {changes[i] : i \in 1..n}
  BY <1>2, <1>3, <1>4 DEF Range
<1>6. FromEntry(entry) = Collected(y)
  BY <1>1, <1>4 DEF FromEntry
<1>7. \A i \in 1..n : IsSeq(y[i]) /\ NamedBy(y[i]) = IdsAt(ItemsIn(changes[i]))
  <2> SUFFICES ASSUME NEW i \in 1..n
               PROVE  IsSeq(y[i]) /\ NamedBy(y[i]) = IdsAt(ItemsIn(changes[i]))
    OBVIOUS
  <2>1. PICK v : v = At(AsDict(changes[i]), "value")
    OBVIOUS
  <2>2. ItemsIn(changes[i]) = Elements(v, "messages") \union Elements(v, "statuses")
    BY <2>1 DEF ItemsIn
  <2> QED
    BY <1>5, <2>1, <2>2, ChangeNames
<1>8. IsSeq(Collected(y)) /\ NamedBy(Collected(y)) = UNION {NamedBy(y[i]) : i \in 1..n}
  BY <1>5, <1>7, CollectedHolds, CollectedNames
<1>9. \A id : id \in NamedBy(Collected(y)) <=>
        \E i \in 1..n : \E item \in ItemsIn(changes[i]) : id = At(AsDict(item), "id") /\ Truthy(id)
  BY <1>7, <1>8 DEF IdsAt
<1>10. \A id : id \in IdsAt(ItemsUnder(Elements(entry, "changes"))) <=>
        \E i \in 1..n : \E item \in ItemsIn(changes[i]) : id = At(AsDict(item), "id") /\ Truthy(id)
  BY <1>5 DEF IdsAt, ItemsUnder
<1> QED
  BY <1>6, <1>8, <1>9, <1>10

\* A payload: its entries.
LEMMA PayloadNames ==
  ASSUME NEW p \in Json
  PROVE  /\ IsSeq(ExtractEvents(p))
         /\ NamedBy(ExtractEvents(p)) = IdsAt(ItemsUnder(ChangesIn(p)))
<1>1. PICK entries : entries = AsList(At(AsDict(p), "entry"))
  OBVIOUS
<1>2. entries \in Seq(Json) /\ Range(entries) = Elements(p, "entry")
  BY <1>1, ListUnder
<1>3. PICK n : n = Len(entries)
  OBVIOUS
<1>4. PICK y : y = [i \in DOMAIN entries |-> FromEntry(entries[i])]
  OBVIOUS
<1>5. /\ n \in Nat /\ y = [i \in 1..n |-> y[i]]
      /\ \A i \in 1..n : y[i] = FromEntry(entries[i]) /\ entries[i] \in Json
      /\ Elements(p, "entry") = {entries[i] : i \in 1..n}
  BY <1>2, <1>3, <1>4 DEF Range
<1>6. ExtractEvents(p) = Collected(y)
  BY <1>1, <1>4 DEF ExtractEvents
<1>7. \A i \in 1..n :
        IsSeq(y[i]) /\ NamedBy(y[i]) = IdsAt(ItemsUnder(Elements(entries[i], "changes")))
  BY <1>5, EntryNames
<1>8. IsSeq(Collected(y)) /\ NamedBy(Collected(y)) = UNION {NamedBy(y[i]) : i \in 1..n}
  BY <1>5, <1>7, CollectedHolds, CollectedNames
<1>9. \A id : id \in NamedBy(Collected(y)) <=>
        \E i \in 1..n : \E item \in ItemsUnder(Elements(entries[i], "changes")) :
          id = At(AsDict(item), "id") /\ Truthy(id)
  BY <1>7, <1>8 DEF IdsAt
<1>10. \A item : item \in ItemsUnder(ChangesIn(p)) <=>
         \E i \in 1..n : item \in ItemsUnder(Elements(entries[i], "changes"))
  BY <1>5 DEF ItemsUnder, ChangesIn
<1>11. \A id : id \in IdsAt(ItemsUnder(ChangesIn(p))) <=>
        \E i \in 1..n : \E item \in ItemsUnder(Elements(entries[i], "changes")) :
          id = At(AsDict(item), "id") /\ Truthy(id)
  BY <1>10 DEF IdsAt
<1> QED
  BY <1>6, <1>8, <1>9, <1>11

-----------------------------------------------------------------------------
(* The events of a payload and its messages and statuses *)

\* The ids that count are the strings that are not empty; an id that is a
\* number or an object is one too, of an event that cannot be built.
LEMMA WellFormedItems ==
  ASSUME NEW p \in Json
  PROVE  WellFormed(p) = {id \in IdsAt(ItemsUnder(ChangesIn(p))) : Is(id, "str")}
<1>1. ChangesIn(p) \subseteq Json
  BY ElementsAreValues DEF ChangesIn
<1>2. ~Is(Null, "str") /\ \A key : Elements(Null, key) = {}
  BY DEF Is, Null, Elements
<1>3. ItemsUnder(ChangesIn(p)) \subseteq Json
  <2>1. ASSUME NEW change \in ChangesIn(p) PROVE ItemsIn(change) \subseteq Json
    <3>1. PICK v : v = At(AsDict(change), "value")
      OBVIOUS
    <3>2. v \in Json \/ v = Null
      BY <1>1, <3>1, ValueUnder
    <3>3. Elements(v, "messages") \subseteq Json /\ Elements(v, "statuses") \subseteq Json
      BY <1>2, <3>2, ElementsAreValues
    <3> QED
      BY <3>1, <3>3 DEF ItemsIn
  <2> QED
    BY <2>1 DEF ItemsUnder
<1>4. \A v \in Json : Is(v, "str") => (Truthy(v) <=> v.str # "")
  <2> SUFFICES ASSUME NEW v \in Json, Is(v, "str") PROVE Truthy(v) <=> v.str # ""
    OBVIOUS
  <2>1. ~Is(v, "null") /\ ~Is(v, "num") /\ ~Is(v, "list") /\ ~Is(v, "obj")
    BY JsonAssumption
  <2> QED
    BY <2>1 DEF Truthy
<1> DEFINE values == {c.obj["value"] :
                        c \in {c \in ChangesIn(p) : Is(c, "obj") /\ "value" \in DOMAIN c.obj}}
           items == UNION {Elements(v, "messages") \union Elements(v, "statuses") : v \in values}
           named == {item \in items : Is(item, "obj") /\ "id" \in DOMAIN item.obj}
<1>5. WellFormed(p) = {id \in {item.obj["id"] : item \in named} : Is(id, "str") /\ id.str # ""}
  BY DEF WellFormed, ChangesIn
<1>6. items = ItemsUnder(ChangesIn(p))
  <2>1. ASSUME NEW item
        PROVE  item \in items <=> \E c \in ChangesIn(p) : item \in ItemsIn(c)
    <3>1. ASSUME NEW c \in ChangesIn(p), item \in ItemsIn(c) PROVE item \in items
      <4>1. PICK v : v = At(AsDict(c), "value")
        OBVIOUS
      <4>2. item \in Elements(v, "messages") \union Elements(v, "statuses")
        BY <3>1, <4>1 DEF ItemsIn
      <4>3. v # Null
        BY <1>2, <4>2
      <4>4. Is(c, "obj") /\ "value" \in DOMAIN c.obj /\ v = c.obj["value"]
        BY <4>1, <4>3 DEF At, AsDict
      <4> QED
        BY <4>2, <4>4
    <3>2. ASSUME NEW c \in ChangesIn(p), Is(c, "obj"), "value" \in DOMAIN c.obj,
                 item \in Elements(c.obj["value"], "messages")
                            \union Elements(c.obj["value"], "statuses")
          PROVE  item \in ItemsIn(c)
      BY <3>2 DEF ItemsIn, At, AsDict
    <3> QED
      BY <3>1, <3>2
  <2> QED
    BY <2>1 DEF ItemsUnder
<1> HIDE DEF items
<1>7. ASSUME NEW item \in items, NEW id
      PROVE  (Is(item, "obj") /\ "id" \in DOMAIN item.obj
                /\ id = item.obj["id"] /\ Is(id, "str") /\ id.str # "")
               <=> (id = At(AsDict(item), "id") /\ Truthy(id) /\ Is(id, "str"))
  <2>1. item \in Json
    BY <1>3, <1>6
  <2>2. id = At(AsDict(item), "id") /\ Is(id, "str") <=>
          Is(item, "obj") /\ "id" \in DOMAIN item.obj /\ id = item.obj["id"] /\ Is(id, "str")
    BY <1>2 DEF At, AsDict
  <2>3. Is(item, "obj") /\ "id" \in DOMAIN item.obj => item.obj["id"] \in Json
    BY <2>1, JsonAssumption
  <2> QED
    BY <1>4, <2>2, <2>3
<1>8. \A id : id \in WellFormed(p) <=>
        \E item \in items : id = At(AsDict(item), "id") /\ Truthy(id) /\ Is(id, "str")
  BY <1>5, <1>7
<1> QED
  BY <1>6, <1>8 DEF IdsAt

\* EXACTLY THE IDS.  For a payload of any size, whatever in it is null, missing
\* or of another type: the string ids among the events extract_events() makes
\* are those of the messages and statuses that have one, no less and no more;
\* and when it does not raise, its events have no other ids
\* (normalizer.py:63-112).
THEOREM ExactlyTheIds ==
  ASSUME NEW p \in Json
  PROVE  /\ {id \in NamedBy(ExtractEvents(p)) : Is(id, "str")} = WellFormed(p)
         /\ ~Raises(p) => NamedBy(ExtractEvents(p)) = WellFormed(p)
<1>1. {id \in NamedBy(ExtractEvents(p)) : Is(id, "str")} = WellFormed(p)
  BY PayloadNames, WellFormedItems
<1>2. ASSUME ~Raises(p), NEW id \in NamedBy(ExtractEvents(p)) PROVE Is(id, "str")
  <2>1. PICK e \in Range(ExtractEvents(p)) : id = e.message_id
    BY DEF NamedBy
  <2>2. Constructs(e)
    BY <1>2, <2>1 DEF Raises
  <2> QED
    BY <2>1, <2>2 DEF Constructs
<1> QED
  BY <1>1, <1>2

\* What the ingest path claims for a delivery is what its payload names.
LEMMA ClaimedAreNamed ==
  ASSUME NEW d \in Deliveries
  PROVE  WellFormed(Sent[d]) \subseteq IdsIn(d)
<1> USE WebhookAssumption, IngestAssumption DEF WebhookAssumption, IngestAssumption
<1>1. Sent[d] \in Json /\ Body[d] = ExtractEvents(Sent[d]) /\ Body[d] \in Seq(Events)
  BY DEF Extracted
<1>2. \A event \in Events : IdOf[event] = event.message_id
  BY DEF MessageId
<1>3. NamedBy(Body[d]) = IdsIn(d)
  <2>1. \A i \in 1..Len(Body[d]) : Body[d][i] \in Events
    BY <1>1
  <2>2. Range(Body[d]) = {Body[d][i] : i \in 1..Len(Body[d])}
    BY <1>1 DEF Range
  <2> QED
    BY <1>2, <2>1, <2>2 DEF NamedBy, IdsIn
<1> QED
  BY <1>1, <1>3, ExactlyTheIds

\* A 200 covers the payload as sent, whatever its size and shape: a claimed key
\* for every id in it (main.py:115-134, normalizer.py:63-112).
THEOREM PayloadIsCovered == Spec => []PayloadCovered
<1>1. AckedIsClaimed => PayloadCovered
  BY ClaimedAreNamed DEF AckedIsClaimed, PayloadCovered
<1>2. Spec => []AckedIsClaimed
  BY AckCoversPayload
<1> QED
  BY <1>1, <1>2, PTL

\* Without a fault, whatever was accepted is in the stream: every id that the
\* payload as sent names, or a request is just writing it (main.py:143-153).
PayloadStored ==
  faults = 0 => \A d \in Deliveries : meta[d] # "open" =>
                  \A id \in WellFormed(Sent[d]) : Queued(id) \/ Coming(id)

THEOREM PayloadIsStored == Spec => []PayloadStored
<1>1. LossNeedsFault => PayloadStored
  BY ClaimedAreNamed DEF LossNeedsFault, AcceptedIsDurable, PayloadStored
<1>2. Spec => []LossNeedsFault
  BY NoLossWithoutFault
<1> QED
  BY <1>1, <1>2, PTL

-----------------------------------------------------------------------------
(* Each element of a list counts for itself *)

\* The object v with w under this key.
With(v, key, w) ==
  Obj([k \in (DOMAIN AsDict(v)) \union {key} |-> IF k = key THEN w ELSE AsDict(v)[k]])

LEMMA Under ==
  ASSUME NEW v, NEW key, NEW w
  PROVE  /\ At(AsDict(With(v, key, w)), key) = w
         /\ \A k : k # key => At(AsDict(With(v, key, w)), k) = At(AsDict(v), k)
<1>1. PICK f : f = [k \in (DOMAIN AsDict(v)) \union {key} |->
                      IF k = key THEN w ELSE AsDict(v)[k]]
  OBVIOUS
<1>2. AsDict(With(v, key, w)) = f
  BY <1>1 DEF With, AsDict, Obj, Is
<1>3. \A k : k # key => (k \in DOMAIN f <=> k \in DOMAIN AsDict(v))
  BY <1>1
<1> QED
  BY <1>1, <1>2, <1>3 DEF At

LEMMA ListRead == ASSUME NEW s PROVE AsList(List(s)) = s
BY DEF AsList, List, Is

\* A loop over s whose body yields F[x] for the element x.
Loop(F, s) == Collected([i \in DOMAIN s |-> F[s[i]]])

LEMMA LoopType ==
  ASSUME NEW F, \A x \in Json : IsSeq(F[x]), NEW s \in Seq(Json)
  PROVE  IsSeq(Loop(F, s))
<1>1. PICK y : y = [i \in DOMAIN s |-> F[s[i]]]
  OBVIOUS
<1>2. PICK n : n = Len(s)
  OBVIOUS
<1>3. n \in Nat /\ y = [i \in 1..n |-> y[i]] /\ \A i \in 1..n : IsSeq(y[i])
  BY <1>1, <1>2
<1> QED
  BY <1>1, <1>3, CollectedHolds DEF Loop

LEMMA LoopNothing == ASSUME NEW F PROVE Loop(F, << >>) = << >>
<1>1. [i \in DOMAIN << >> |-> F[<< >>[i]]] = << >>
  OBVIOUS
<1> QED
  BY <1>1, FlattenEmpty DEF Loop, Collected

LEMMA LoopOnce ==
  ASSUME NEW F, NEW x, IsSeq(F[x])
  PROVE  Loop(F, <<x>>) = F[x]
<1>1. PICK y, X : y = F[x] /\ X = Range(y)
  OBVIOUS
<1>2. y \in Seq(X) /\ << >> \in Seq(Seq(X)) /\ Append(<< >>, y) = <<y>> /\ << >> \o y = y
  BY <1>1 DEF IsSeq
<1>3. FlattenSeq(<<y>>) = y
  BY <1>2, FlattenAppend, FlattenEmpty
<1>4. [i \in DOMAIN <<x>> |-> F[<<x>>[i]]] = <<y>>
  BY <1>1
<1> QED
  BY <1>1, <1>3, <1>4 DEF Loop, Collected

LEMMA ConcatIs ==
  ASSUME NEW X, NEW y \in Seq(X), NEW z \in Seq(X), NEW m \in Nat, NEW n \in Nat,
         m = Len(y), n = Len(z)
  PROVE  y \o z \in [1..(m + n) -> X]
<1>1. PICK w, k : w = y \o z /\ k = m + n
  OBVIOUS
<1>2. w \in Seq(X) /\ Len(w) = k /\ k \in Nat
  BY <1>1
<1>3. w \in [1..k -> X]
  BY <1>2
<1> QED
  BY <1>1, <1>3

LEMMA LoopConcat ==
  ASSUME NEW F, \A x \in Json : IsSeq(F[x]), NEW s \in Seq(Json), NEW t \in Seq(Json)
  PROVE  Loop(F, s \o t) = Loop(F, s) \o Loop(F, t)
<1>1. PICK X : X = UNION {Range(F[x]) : x \in Json}
  OBVIOUS
<1>2. ASSUME NEW x \in Json PROVE F[x] \in Seq(X)
  <2>1. PICK R : R = Range(F[x])
    OBVIOUS
  <2>2. F[x] \in Seq(R) /\ R \subseteq X
    BY <1>1, <2>1 DEF IsSeq
  <2> QED
    BY <2>2
<1>3. PICK y, z, yz : /\ y = [i \in DOMAIN s |-> F[s[i]]]
                      /\ z = [i \in DOMAIN t |-> F[t[i]]]
                      /\ yz = [i \in DOMAIN (s \o t) |-> F[(s \o t)[i]]]
  OBVIOUS
<1>4. y \in Seq(Seq(X)) /\ z \in Seq(Seq(X)) /\ yz = y \o z
  <2>1. PICK st, m, n : st = s \o t /\ m = Len(s) /\ n = Len(t)
    OBVIOUS
  <2>2. /\ m \in Nat /\ DOMAIN s = 1..m /\ \A i \in 1..m : s[i] \in Json
        /\ n \in Nat /\ DOMAIN t = 1..n /\ \A i \in 1..n : t[i] \in Json
    BY <2>1
  <2>3. y \in [1..m -> Seq(X)] /\ z \in [1..n -> Seq(X)]
    BY <1>2, <1>3, <2>2
  <2>4. y \in Seq(Seq(X)) /\ Len(y) = m /\ z \in Seq(Seq(X)) /\ Len(z) = n
    BY <2>2, <2>3
  <2>5. /\ DOMAIN st = 1..(m + n)
        /\ \A i \in 1..(m + n) : st[i] = IF i <= m THEN s[i] ELSE t[i - m]
    BY <2>1
  <2>6. PICK w : w = y \o z
    OBVIOUS
  <2>7. /\ w = [i \in 1..(m + n) |-> w[i]]
        /\ \A i \in 1..(m + n) : w[i] = IF i <= m THEN y[i] ELSE z[i - m]
    <3>1. PICK Y : Y = Seq(X)
      OBVIOUS
    <3>2. y \in Seq(Y) /\ z \in Seq(Y) /\ m \in Nat /\ n \in Nat /\ Len(y) = m /\ Len(z) = n
      BY <2>2, <2>4, <3>1
    <3>3. y \o z \in [1..(m + n) -> Y]
      BY <3>2, ConcatIs
    <3>4. \A i \in 1..(m + n) : (y \o z)[i] = IF i <= m THEN y[i] ELSE z[i - m]
      BY <3>2, ConcatProperties
    <3> QED
      BY <2>6, <3>3, <3>4
  <2>8. ASSUME NEW i \in 1..(m + n) PROVE F[st[i]] = w[i]
    <3>1. CASE i <= m
      <4>1. i \in 1..m
        BY <2>2, <3>1
      <4>2. y[i] = F[s[i]]
        BY <1>3, <2>2, <4>1
      <4> QED
        BY <2>5, <2>7, <3>1, <4>2
    <3>2. CASE ~(i <= m)
      <4>1. i - m \in 1..n
        BY <2>2, <3>2
      <4>2. z[i - m] = F[t[i - m]]
        BY <1>3, <2>2, <4>1
      <4> QED
        BY <2>5, <2>7, <3>2, <4>1, <4>2
    <3> QED
      BY <3>1, <3>2
  <2>9. yz = [i \in 1..(m + n) |-> F[st[i]]]
    BY <1>3, <2>1, <2>5
  <2>10. yz = w
    BY <2>7, <2>8, <2>9
  <2> QED
    BY <2>4, <2>6, <2>10
<1>5. FlattenSeq(yz) = FlattenSeq(y) \o FlattenSeq(z)
  BY <1>4, FlattenConcat
<1> QED
  BY <1>3, <1>5 DEF Loop, Collected

-----------------------------------------------------------------------------
(* The four loops *)

\* A change whose value is v with these messages and statuses.
Change(v, messages, statuses) ==
  Obj([value |-> With(With(v, "messages", List(messages)), "statuses", List(statuses))])

ToNumber(v) == At(AsDict(At(AsDict(v), "metadata")), "display_phone_number")

EntryLoop == [x \in Json |-> FromEntry(x)]
ChangeLoop == [x \in Json |-> FromChange(x)]
MessageLoop(v) == [x \in Json |-> FromMessage(x, ToNumber(v))]
StatusLoop(v) == [x \in Json |-> FromStatus(x, ToNumber(v))]

LEMMA LoopsYieldSequences ==
  ASSUME NEW x \in Json, NEW v
  PROVE  /\ IsSeq(EntryLoop[x]) /\ IsSeq(ChangeLoop[x])
         /\ IsSeq(MessageLoop(v)[x]) /\ IsSeq(StatusLoop(v)[x])
<1>1. IsSeq(FromEntry(x)) /\ IsSeq(FromChange(x))
  BY EntryNames, ChangeNames
<1>2. IsSeq(FromMessage(x, ToNumber(v))) /\ IsSeq(FromStatus(x, ToNumber(v)))
  BY ItemYields
<1> QED
  BY <1>1, <1>2 DEF EntryLoop, ChangeLoop, MessageLoop, StatusLoop

LEMMA EntriesLoop ==
  ASSUME NEW p, NEW s \in Seq(Json)
  PROVE  ExtractEvents(With(p, "entry", List(s))) = Loop(EntryLoop, s)
<1>1. AsList(At(AsDict(With(p, "entry", List(s))), "entry")) = s
  BY Under, ListRead
<1>2. [i \in DOMAIN s |-> FromEntry(s[i])] = [i \in DOMAIN s |-> EntryLoop[s[i]]]
  BY DEF EntryLoop
<1> QED
  BY <1>1, <1>2 DEF ExtractEvents, Loop

LEMMA ChangesLoop ==
  ASSUME NEW p, NEW s \in Seq(Json)
  PROVE  FromEntry(With(p, "changes", List(s))) = Loop(ChangeLoop, s)
<1>1. AsList(At(AsDict(With(p, "changes", List(s))), "changes")) = s
  BY Under, ListRead
<1>2. [i \in DOMAIN s |-> FromChange(s[i])] = [i \in DOMAIN s |-> ChangeLoop[s[i]]]
  BY DEF ChangeLoop
<1> QED
  BY <1>1, <1>2 DEF FromEntry, Loop

LEMMA ItemLoops ==
  ASSUME NEW v, NEW s \in Seq(Json), NEW t \in Seq(Json)
  PROVE  FromChange(Change(v, s, t)) = Loop(MessageLoop(v), s) \o Loop(StatusLoop(v), t)
<1>1. PICK w : w = With(With(v, "messages", List(s)), "statuses", List(t))
  OBVIOUS
<1>2. At(AsDict(Change(v, s, t)), "value") = w
  BY <1>1 DEF Change, At, AsDict, Obj, Is
<1>3. /\ At(AsDict(w), "statuses") = List(t)
      /\ At(AsDict(w), "messages") = List(s)
      /\ At(AsDict(w), "metadata") = At(AsDict(v), "metadata")
  BY <1>1, Under
<1>4. /\ AsList(At(AsDict(w), "messages")) = s
      /\ AsList(At(AsDict(w), "statuses")) = t
      /\ At(AsDict(At(AsDict(w), "metadata")), "display_phone_number") = ToNumber(v)
  BY <1>3, ListRead DEF ToNumber
<1>5. /\ [i \in DOMAIN s |-> FromMessage(s[i], ToNumber(v))]
           = [i \in DOMAIN s |-> MessageLoop(v)[s[i]]]
      /\ [i \in DOMAIN t |-> FromStatus(t[i], ToNumber(v))]
           = [i \in DOMAIN t |-> StatusLoop(v)[t[i]]]
  BY DEF MessageLoop, StatusLoop
<1> QED
  BY <1>2, <1>4, <1>5 DEF FromChange, Loop

\* IN PAYLOAD ORDER.  At each of the four levels of a payload, a list yields
\* what its first part yields, then what the rest does, down to the single
\* elements: no element's events depend on what is next to it, and a change's
\* messages come before its statuses (normalizer.py:66-112).
THEOREM InPayloadOrder ==
  ASSUME NEW v, NEW s \in Seq(Json), NEW t \in Seq(Json)
  PROVE  /\ ExtractEvents(With(v, "entry", List(s \o t)))
              = ExtractEvents(With(v, "entry", List(s)))
                  \o ExtractEvents(With(v, "entry", List(t)))
         /\ FromEntry(With(v, "changes", List(s \o t)))
              = FromEntry(With(v, "changes", List(s)))
                  \o FromEntry(With(v, "changes", List(t)))
         /\ FromChange(Change(v, s \o t, << >>))
              = FromChange(Change(v, s, << >>)) \o FromChange(Change(v, t, << >>))
         /\ FromChange(Change(v, << >>, s \o t))
              = FromChange(Change(v, << >>, s)) \o FromChange(Change(v, << >>, t))
         /\ FromChange(Change(v, s, t))
              = FromChange(Change(v, s, << >>)) \o FromChange(Change(v, << >>, t))
         /\ \A x \in Json :
              /\ ExtractEvents(With(v, "entry", List(<<x>>))) = FromEntry(x)
              /\ FromEntry(With(v, "changes", List(<<x>>))) = FromChange(x)
              /\ FromChange(Change(v, <<x>>, << >>)) = FromMessage(x, ToNumber(v))
              /\ FromChange(Change(v, << >>, <<x>>)) = FromStatus(x, ToNumber(v))
<1>1. s \o t \in Seq(Json) /\ << >> \in Seq(Json) /\ \A x \in Json : <<x>> \in Seq(Json)
  OBVIOUS
<1>2. PICK m, st : m = MessageLoop(v) /\ st = StatusLoop(v)
  OBVIOUS
<1>3. /\ \A x \in Json : IsSeq(EntryLoop[x]) /\ IsSeq(ChangeLoop[x])
      /\ \A x \in Json : IsSeq(m[x]) /\ IsSeq(st[x])
  BY <1>2, LoopsYieldSequences
<1>4. /\ Loop(EntryLoop, s \o t) = Loop(EntryLoop, s) \o Loop(EntryLoop, t)
      /\ Loop(ChangeLoop, s \o t) = Loop(ChangeLoop, s) \o Loop(ChangeLoop, t)
      /\ Loop(m, s \o t) = Loop(m, s) \o Loop(m, t)
      /\ Loop(st, s \o t) = Loop(st, s) \o Loop(st, t)
  BY <1>3, LoopConcat
<1>5. \A a, b \in Seq(Json) : FromChange(Change(v, a, b)) = Loop(m, a) \o Loop(st, b)
  BY <1>2, ItemLoops
<1>6. Loop(m, << >>) = << >> /\ Loop(st, << >>) = << >>
  BY LoopNothing
<1>7. \A a : IsSeq(a) => a \o << >> = a /\ << >> \o a = a
  BY DEF IsSeq
<1>8. \A a \in Seq(Json) : IsSeq(Loop(m, a)) /\ IsSeq(Loop(st, a))
  BY <1>3, LoopType
<1>9. \A a \in Seq(Json) : /\ FromChange(Change(v, a, << >>)) = Loop(m, a)
                           /\ FromChange(Change(v, << >>, a)) = Loop(st, a)
  <2> SUFFICES ASSUME NEW a \in Seq(Json)
               PROVE  /\ FromChange(Change(v, a, << >>)) = Loop(m, a)
                      /\ FromChange(Change(v, << >>, a)) = Loop(st, a)
    OBVIOUS
  <2>1. /\ FromChange(Change(v, a, << >>)) = Loop(m, a) \o << >>
        /\ FromChange(Change(v, << >>, a)) = << >> \o Loop(st, a)
    BY <1>1, <1>5, <1>6
  <2>2. Loop(m, a) \o << >> = Loop(m, a) /\ << >> \o Loop(st, a) = Loop(st, a)
    BY <1>7, <1>8
  <2> QED
    BY <2>1, <2>2
<1>10. \A x \in Json : /\ Loop(EntryLoop, <<x>>) = FromEntry(x)
                       /\ Loop(ChangeLoop, <<x>>) = FromChange(x)
                       /\ Loop(m, <<x>>) = FromMessage(x, ToNumber(v))
                       /\ Loop(st, <<x>>) = FromStatus(x, ToNumber(v))
  <2> SUFFICES ASSUME NEW x \in Json
               PROVE  /\ Loop(EntryLoop, <<x>>) = FromEntry(x)
                      /\ Loop(ChangeLoop, <<x>>) = FromChange(x)
                      /\ Loop(m, <<x>>) = FromMessage(x, ToNumber(v))
                      /\ Loop(st, <<x>>) = FromStatus(x, ToNumber(v))
    OBVIOUS
  <2>1. /\ Loop(EntryLoop, <<x>>) = EntryLoop[x] /\ Loop(ChangeLoop, <<x>>) = ChangeLoop[x]
        /\ Loop(m, <<x>>) = m[x] /\ Loop(st, <<x>>) = st[x]
    BY <1>3, LoopOnce
  <2> QED
    BY <1>2, <2>1 DEF EntryLoop, ChangeLoop, MessageLoop, StatusLoop
<1>11. /\ ExtractEvents(With(v, "entry", List(s \o t)))
            = ExtractEvents(With(v, "entry", List(s))) \o ExtractEvents(With(v, "entry", List(t)))
       /\ FromEntry(With(v, "changes", List(s \o t)))
            = FromEntry(With(v, "changes", List(s))) \o FromEntry(With(v, "changes", List(t)))
  BY <1>1, <1>4, EntriesLoop, ChangesLoop
<1>12. /\ FromChange(Change(v, s \o t, << >>))
            = FromChange(Change(v, s, << >>)) \o FromChange(Change(v, t, << >>))
       /\ FromChange(Change(v, << >>, s \o t))
            = FromChange(Change(v, << >>, s)) \o FromChange(Change(v, << >>, t))
       /\ FromChange(Change(v, s, t))
            = FromChange(Change(v, s, << >>)) \o FromChange(Change(v, << >>, t))
  BY <1>1, <1>4, <1>5, <1>9
<1>13. \A x \in Json :
         /\ ExtractEvents(With(v, "entry", List(<<x>>))) = FromEntry(x)
         /\ FromEntry(With(v, "changes", List(<<x>>))) = FromChange(x)
         /\ FromChange(Change(v, <<x>>, << >>)) = FromMessage(x, ToNumber(v))
         /\ FromChange(Change(v, << >>, <<x>>)) = FromStatus(x, ToNumber(v))
  BY <1>1, <1>9, <1>10, EntriesLoop, ChangesLoop
<1> QED
  BY <1>11, <1>12, <1>13

\* A loop passes over what yields nothing.
LEMMA LoopPassesOver ==
  ASSUME NEW F, \A x \in Json : IsSeq(F[x]),
         NEW s \in Seq(Json), NEW t \in Seq(Json), NEW x \in Json, F[x] = << >>
  PROVE  Loop(F, (s \o <<x>>) \o t) = Loop(F, s \o t)
<1>1. <<x>> \in Seq(Json) /\ s \o <<x>> \in Seq(Json)
  OBVIOUS
<1>2. Loop(F, (s \o <<x>>) \o t) = Loop(F, s \o <<x>>) \o Loop(F, t)
  BY <1>1, LoopConcat
<1>3. Loop(F, s \o <<x>>) = Loop(F, s) \o Loop(F, <<x>>)
  BY <1>1, LoopConcat
<1>4. Loop(F, <<x>>) = << >>
  BY LoopOnce
<1>5. Loop(F, s) \o << >> = Loop(F, s)
  <2>1. IsSeq(Loop(F, s))
    BY LoopType
  <2> QED
    BY <2>1 DEF IsSeq
<1>6. Loop(F, s \o t) = Loop(F, s) \o Loop(F, t)
  BY LoopConcat
<1> QED
  BY <1>2, <1>3, <1>4, <1>5, <1>6

\* A null, a string, a number or a list where an object is due yields nothing.
LEMMA MistypedYieldsNothing ==
  ASSUME NEW x \in Json, ~Is(x, "obj"), NEW v
  PROVE  /\ EntryLoop[x] = << >> /\ ChangeLoop[x] = << >>
         /\ MessageLoop(v)[x] = << >> /\ StatusLoop(v)[x] = << >>
<1>1. ~Is(Null, "obj") /\ ~Is(Null, "list") /\ ~Truthy(Null)
  BY DEF Is, Null, Truthy
<1>2. \A w, key : ~Is(w, "obj") => At(AsDict(w), key) = Null
  BY DEF At, AsDict
<1>3. \A w, key : ~Is(w, "obj") => AsList(At(AsDict(w), key)) = << >>
  BY <1>1, <1>2 DEF AsList
<1>4. \A y : y = [i \in DOMAIN << >> |-> y[i]] => Collected(y) = << >>
  <2>1. \A y : y = [i \in DOMAIN << >> |-> y[i]] => y = << >>
    OBVIOUS
  <2> QED
    BY <2>1, FlattenEmpty DEF Collected
<1>5. FromEntry(x) = << >>
  BY <1>3, <1>4 DEF FromEntry
<1>6. FromChange(x) = << >>
  <2>1. At(AsDict(x), "value") = Null
    BY <1>2
  <2>2. AsList(At(AsDict(Null), "messages")) = << >> /\ AsList(At(AsDict(Null), "statuses")) = << >>
    BY <1>1, <1>3
  <2>3. PICK y, z : /\ y = [i \in DOMAIN << >> |->
                              FromMessage(<< >>[i], ToNumber(Null))]
                    /\ z = [i \in DOMAIN << >> |->
                              FromStatus(<< >>[i], ToNumber(Null))]
    OBVIOUS
  <2>4. FromChange(x) = Collected(y) \o Collected(z)
    BY <2>1, <2>2, <2>3 DEF FromChange, ToNumber
  <2>5. Collected(y) = << >> /\ Collected(z) = << >>
    BY <1>4, <2>3
  <2> QED
    BY <2>4, <2>5
<1>7. At(AsDict(x), "id") = Null
  BY <1>2
<1>8. \A to : FromMessage(x, to) = << >> /\ FromStatus(x, to) = << >>
  BY <1>1, <1>7, ItemYields
<1> QED
  BY <1>5, <1>6, <1>8 DEF EntryLoop, ChangeLoop, MessageLoop, StatusLoop

\* MALFORMED SIBLINGS, of any number and around lists of any length.  At each
\* of the four levels, an element that is not an object is passed over: what is
\* around it yields the same events without it (normalizer.py:66-68,
\* tests/test_normalizer.py:616).
THEOREM MalformedIsPassedOver ==
  ASSUME NEW v, NEW x \in Json, ~Is(x, "obj"),
         NEW s \in Seq(Json), NEW t \in Seq(Json), NEW u \in Seq(Json)
  PROVE  /\ ExtractEvents(With(v, "entry", List((s \o <<x>>) \o t)))
              = ExtractEvents(With(v, "entry", List(s \o t)))
         /\ FromEntry(With(v, "changes", List((s \o <<x>>) \o t)))
              = FromEntry(With(v, "changes", List(s \o t)))
         /\ FromChange(Change(v, (s \o <<x>>) \o t, u)) = FromChange(Change(v, s \o t, u))
         /\ FromChange(Change(v, u, (s \o <<x>>) \o t)) = FromChange(Change(v, u, s \o t))
<1>1. PICK m, st : m = MessageLoop(v) /\ st = StatusLoop(v)
  OBVIOUS
<1>2. /\ \A y \in Json : IsSeq(EntryLoop[y]) /\ IsSeq(ChangeLoop[y])
      /\ \A y \in Json : IsSeq(m[y]) /\ IsSeq(st[y])
  BY <1>1, LoopsYieldSequences
<1>3. EntryLoop[x] = << >> /\ ChangeLoop[x] = << >> /\ m[x] = << >> /\ st[x] = << >>
  BY <1>1, MistypedYieldsNothing
<1>4. PICK long, short : long = (s \o <<x>>) \o t /\ short = s \o t
  OBVIOUS
<1>5. long \in Seq(Json) /\ short \in Seq(Json)
  BY <1>4
<1>6. /\ Loop(EntryLoop, long) = Loop(EntryLoop, short)
      /\ Loop(ChangeLoop, long) = Loop(ChangeLoop, short)
      /\ Loop(m, long) = Loop(m, short)
      /\ Loop(st, long) = Loop(st, short)
  BY <1>2, <1>3, <1>4, LoopPassesOver
<1>7. /\ ExtractEvents(With(v, "entry", List(long))) = ExtractEvents(With(v, "entry", List(short)))
      /\ FromEntry(With(v, "changes", List(long))) = FromEntry(With(v, "changes", List(short)))
  BY <1>5, <1>6, EntriesLoop, ChangesLoop
<1>8. /\ FromChange(Change(v, long, u)) = FromChange(Change(v, short, u))
      /\ FromChange(Change(v, u, long)) = FromChange(Change(v, u, short))
  <2>1. \A a, b \in Seq(Json) : FromChange(Change(v, a, b)) = Loop(m, a) \o Loop(st, b)
    BY <1>1, ItemLoops
  <2>2. /\ FromChange(Change(v, long, u)) = Loop(m, long) \o Loop(st, u)
        /\ FromChange(Change(v, short, u)) = Loop(m, short) \o Loop(st, u)
        /\ FromChange(Change(v, u, long)) = Loop(m, u) \o Loop(st, long)
        /\ FromChange(Change(v, u, short)) = Loop(m, u) \o Loop(st, short)
    BY <1>5, <2>1
  <2> QED
    BY <1>6, <2>2
<1> QED
  BY <1>4, <1>7, <1>8

-----------------------------------------------------------------------------
(* Nulls *)

\* A field that is nulled leaves the text as it is, or takes it.
LEMMA NullTakesTextAtMost ==
  ASSUME NEW m, NEW n, NEW key, At(n, key) = Null, \A k : k # key => At(n, k) = At(m, k)
  PROVE  ExtractText(n) \in {ExtractText(m), Null}
<1>1. /\ \A t : Str(t) # Null /\ \A u : Str(t) = Str(u) => t = u
      /\ \A t : Str(t).str = t
  BY DEF Str, Null
<1>2. \A k : At(AsDict(Null), k) = Null
  BY DEF At, AsDict, Null, Is
<1>3. PICK type, nType : type = At(m, "type") /\ nType = At(n, "type")
  OBVIOUS
<1>4. \A k : k \notin DOMAIN AsDict(Null)
  BY DEF AsDict, Null, Is
<1>5. \A t : Str(t) \in MediaTypes <=> t \in {"image", "video", "document", "audio", "sticker"}
  BY <1>1 DEF MediaTypes
<1>6. CASE nType = Null
  <2>1. nType \notin MediaTypes
    BY <1>1, <1>6 DEF MediaTypes
  <2>2. /\ nType # Str("text") /\ nType # Str("button") /\ nType # Str("interactive")
        /\ nType # Str("location")
    BY <1>1, <1>6
  <2> QED
    BY <1>3, <2>1, <2>2 DEF ExtractText
<1>7. CASE nType = type /\ nType # Null
  <2>1. CASE type = Str("text")
    <3>1. /\ type # Str("button") /\ type # Str("interactive") /\ type # Str("location")
          /\ type \notin MediaTypes
      BY <1>1, <1>5, <2>1
    <3>2. ExtractText(m) = At(AsDict(At(m, "text")), "body")
      BY <1>3, <2>1, <3>1 DEF ExtractText
    <3>3. ExtractText(n) = At(AsDict(At(n, "text")), "body")
      BY <1>3, <1>7, <2>1, <3>1 DEF ExtractText
    <3> QED
      BY <1>2, <3>2, <3>3
  <2>2. CASE type = Str("button")
    <3>1. /\ type # Str("text") /\ type # Str("interactive") /\ type # Str("location")
          /\ type \notin MediaTypes
      BY <1>1, <1>5, <2>2
    <3>2. ExtractText(m) = At(AsDict(At(m, "button")), "text")
      BY <1>3, <2>2, <3>1 DEF ExtractText
    <3>3. ExtractText(n) = At(AsDict(At(n, "button")), "text")
      BY <1>3, <1>7, <2>2, <3>1 DEF ExtractText
    <3> QED
      BY <1>2, <3>2, <3>3
  <2>3. CASE type = Str("interactive")
    <3>1. /\ type # Str("text") /\ type # Str("button") /\ type # Str("location")
          /\ type \notin MediaTypes
      BY <1>1, <1>5, <2>3
    <3>2. \A w : At(w, "type") = type =>
            ExtractText(w) = LET i == AsDict(At(w, "interactive"))
                             IN  IF "button_reply" \in DOMAIN i
                                 THEN At(AsDict(i["button_reply"]), "title")
                                 ELSE At(AsDict(At(i, "list_reply")), "title")
      BY <2>3, <3>1 DEF ExtractText
    <3>3. CASE key = "interactive"
      <4>1. ExtractText(n) = At(AsDict(At(AsDict(Null), "list_reply")), "title")
        BY <1>3, <1>4, <1>7, <3>2, <3>3
      <4> QED
        BY <1>2, <4>1
    <3>4. CASE key # "interactive"
      <4>1. At(n, "interactive") = At(m, "interactive")
        BY <3>4
      <4> QED
        BY <1>3, <1>7, <3>2, <4>1
    <3> QED
      BY <3>3, <3>4
  <2>4. CASE type \in MediaTypes
    <3>1. PICK t : type = Str(t) /\ t \in {"image", "video", "document", "audio", "sticker"}
      BY <2>4 DEF MediaTypes
    <3>2. type # Str("text") /\ type # Str("button") /\ type # Str("interactive")
      BY <1>1, <3>1
    <3>3. ExtractText(m) = At(AsDict(At(m, t)), "caption")
      BY <1>1, <1>3, <2>4, <3>1, <3>2 DEF ExtractText
    <3>4. ExtractText(n) = At(AsDict(At(n, t)), "caption")
      BY <1>1, <1>3, <1>7, <2>4, <3>1, <3>2 DEF ExtractText
    <3> QED
      BY <1>2, <3>3, <3>4
  <2>5. CASE type = Str("location")
    <3>1. /\ type # Str("text") /\ type # Str("button") /\ type # Str("interactive")
          /\ type \notin MediaTypes
      BY <1>1, <1>5, <2>5
    <3>2. \A w : At(w, "type") = type =>
            ExtractText(w) = LET p == <<At(AsDict(At(w, "location")), "latitude"),
                                        At(AsDict(At(w, "location")), "longitude")>>
                             IN  IF Null \notin Range(p) THEN [coords |-> p] ELSE Null
      BY <2>5, <3>1 DEF ExtractText
    <3>3. CASE key = "location"
      <4>1. Null \in Range(<<Null, Null>>)
        BY DEF Range
      <4> QED
        BY <1>2, <1>3, <1>7, <3>2, <3>3, <4>1
    <3>4. CASE key # "location"
      <4>1. At(n, "location") = At(m, "location")
        BY <3>4
      <4> QED
        BY <1>3, <1>7, <3>2, <4>1
    <3> QED
      BY <3>3, <3>4
  <2>6. CASE /\ type \notin MediaTypes
             /\ type # Str("text") /\ type # Str("button") /\ type # Str("interactive")
             /\ type # Str("location")
    BY <1>3, <1>7, <2>6 DEF ExtractText
  <2> QED
    BY <2>1, <2>2, <2>3, <2>4, <2>5, <2>6
<1>8. nType = Null \/ nType = type
  BY <1>3
<1> QED
  BY <1>6, <1>7, <1>8

\* NULLS COST ONE FIELD.  A message or status any field of which but its id is
\* null or goes missing yields an event of the same id; if its event could be
\* built before, this one can (normalizer.py:6-15, tests/test_normalizer.py:600).
THEOREM NullCostsOneField ==
  ASSUME NEW item, NEW to, NEW key, key # "id", NEW nulled,
         At(AsDict(nulled), key) = Null,
         \A k : k # key => At(AsDict(nulled), k) = At(AsDict(item), k)
  PROVE  /\ NamedBy(FromMessage(nulled, to)) = NamedBy(FromMessage(item, to))
         /\ NamedBy(FromStatus(nulled, to)) = NamedBy(FromStatus(item, to))
         /\ (\A e \in Range(FromMessage(item, to)) : Constructs(e))
              => \A e \in Range(FromMessage(nulled, to)) : Constructs(e)
         /\ (\A e \in Range(FromStatus(item, to)) : Constructs(e))
              => \A e \in Range(FromStatus(nulled, to)) : Constructs(e)
<1>1. PICK m, n, id : m = AsDict(item) /\ n = AsDict(nulled) /\ id = At(m, "id")
  OBVIOUS
<1>2. At(n, "id") = id /\ At(n, key) = Null /\ \A k : k # key => At(n, k) = At(m, k)
  BY <1>1
<1>3. /\ NamedBy(FromMessage(nulled, to)) = NamedBy(FromMessage(item, to))
      /\ NamedBy(FromStatus(nulled, to)) = NamedBy(FromStatus(item, to))
  <2>1. IdsAt({nulled}) = IdsAt({item})
    BY <1>1, <1>2 DEF IdsAt
  <2> QED
    BY <2>1, ItemNames
<1>4. \A e : Range(<<e>>) = {e} /\ Range(<< >>) = {}
  BY DEF Range
<1>5. OptionalStr(Null) /\ ~Is(SafeTimestamp(Null), "inf")
  BY DEF OptionalStr, SafeTimestamp, Is, Null
<1>6. /\ \A k : OptionalStr(At(m, k)) => OptionalStr(At(n, k))
      /\ \A k : ~Is(SafeTimestamp(At(m, k)), "inf") => ~Is(SafeTimestamp(At(n, k)), "inf")
  BY <1>2, <1>5
<1>7. CASE ~Truthy(id)
  <2>1. /\ FromMessage(nulled, to) = << >>
        /\ FromStatus(nulled, to) = << >>
    BY <1>1, <1>2, <1>7, ItemYields
  <2> QED
    BY <1>3, <1>4, <2>1
<1>8. CASE Truthy(id)
  <2>1. ASSUME \A e \in Range(FromMessage(item, to)) : Constructs(e)
        PROVE  \A e \in Range(FromMessage(nulled, to)) : Constructs(e)
    <3>1. PICK e : e = [message_id |-> id, event_type |-> "message",
                        message_type |-> At(m, "type"), text |-> ExtractText(m),
                        status |-> Null, from_number |-> At(m, "from"), to_number |-> to,
                        timestamp |-> SafeTimestamp(At(m, "timestamp"))]
      OBVIOUS
    <3>2. PICK f : f = [message_id |-> id, event_type |-> "message",
                        message_type |-> At(n, "type"), text |-> ExtractText(n),
                        status |-> Null, from_number |-> At(n, "from"), to_number |-> to,
                        timestamp |-> SafeTimestamp(At(n, "timestamp"))]
      OBVIOUS
    <3>3. FromMessage(item, to) = <<e>>
      BY <1>1, <1>8, <3>1 DEF FromMessage
    <3>4. FromMessage(nulled, to) = <<f>>
      BY <1>1, <1>2, <1>8, <3>2 DEF FromMessage
    <3>5. Constructs(e)
      BY <1>4, <2>1, <3>3
    <3>6. /\ Is(id, "str") /\ OptionalStr(At(m, "type")) /\ OptionalStr(ExtractText(m))
          /\ OptionalStr(Null) /\ OptionalStr(At(m, "from")) /\ OptionalStr(to)
          /\ ~Is(SafeTimestamp(At(m, "timestamp")), "inf")
      BY <3>1, <3>5 DEF Constructs
    <3>7. OptionalStr(ExtractText(n))
      BY <1>2, <1>5, <3>6, NullTakesTextAtMost
    <3>8. Constructs(f)
      BY <1>6, <3>2, <3>6, <3>7 DEF Constructs
    <3> QED
      BY <1>4, <3>4, <3>8
  <2>2. ASSUME \A e \in Range(FromStatus(item, to)) : Constructs(e)
        PROVE  \A e \in Range(FromStatus(nulled, to)) : Constructs(e)
    <3>1. PICK e : e = [message_id |-> id, event_type |-> "status",
                        message_type |-> Null, text |-> Null,
                        status |-> At(m, "status"), from_number |-> At(m, "recipient_id"),
                        to_number |-> to, timestamp |-> SafeTimestamp(At(m, "timestamp"))]
      OBVIOUS
    <3>2. PICK f : f = [message_id |-> id, event_type |-> "status",
                        message_type |-> Null, text |-> Null,
                        status |-> At(n, "status"), from_number |-> At(n, "recipient_id"),
                        to_number |-> to, timestamp |-> SafeTimestamp(At(n, "timestamp"))]
      OBVIOUS
    <3>3. FromStatus(item, to) = <<e>>
      BY <1>1, <1>8, <3>1 DEF FromStatus
    <3>4. FromStatus(nulled, to) = <<f>>
      BY <1>1, <1>2, <1>8, <3>2 DEF FromStatus
    <3>5. Constructs(e)
      BY <1>4, <2>2, <3>3
    <3>6. /\ Is(id, "str") /\ OptionalStr(At(m, "status")) /\ OptionalStr(Null)
          /\ OptionalStr(At(m, "recipient_id")) /\ OptionalStr(to)
          /\ ~Is(SafeTimestamp(At(m, "timestamp")), "inf")
      BY <3>1, <3>5 DEF Constructs
    <3>7. Constructs(f)
      BY <1>6, <3>2, <3>6 DEF Constructs
    <3> QED
      BY <1>4, <3>4, <3>7
  <2> QED
    BY <1>3, <2>1, <2>2
<1> QED
  BY <1>7, <1>8
=============================================================================
