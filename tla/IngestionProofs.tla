-------------------------- MODULE IngestionProofs --------------------------
(***************************************************************************)
(* Proofs about Ingestion and the chunkers of module Chunking, for every   *)
(* set of documents, whatever fetching them returns, and every size of     *)
(* chunks and batches, number of retries and limit.                        *)
(*                                                                         *)
(* The first half follows a document through the parser and its chunker;   *)
(* ChunkedFacts is what the second half, about the jobs, uses of it.  The  *)
(* loops of the chunkers are instances of module FoldProofs.               *)
(***************************************************************************)
EXTENDS Ingestion, ListProofs

-----------------------------------------------------------------------------
(* Windows. *)

LEMMA DivFacts ==
    ASSUME NEW n \in Nat, NEW d \in Nat \ {0}
    PROVE  /\ n \div d \in Nat
           /\ (n \div d) * d <= n
           /\ n < (n \div d) * d + d
  OBVIOUS

\* A multiple of d that is not above n is of a factor up to n \div d.
LEMMA DivAtLeast ==
    ASSUME NEW n \in Nat, NEW d \in Nat \ {0}, NEW a \in Nat
    PROVE  a * d <= n <=> a <= n \div d
<1> DEFINE q == n \div d
<1>1. q \in Nat /\ q * d <= n /\ n < q * d + d
  BY DivFacts
<1> HIDE DEF q
<1>2. \A x, y \in Nat : x <= y => x * d <= y * d
  OBVIOUS
<1>3. a <= q => a * d <= n
  <2>1. ASSUME a <= q PROVE a * d <= n
    <3>1. a * d <= q * d /\ a * d \in Nat /\ q * d \in Nat
      BY <1>1, <1>2, <2>1
    <3>2. QED
      BY <1>1, <3>1
  <2>2. QED
    BY <2>1
<1>4. a > q => a * d > n
  <2>1. ASSUME a > q PROVE a * d > n
    <3>1. q + 1 \in Nat /\ q + 1 <= a
      BY <1>1, <2>1
    <3>2. (q + 1) * d <= a * d
      BY <1>2, <3>1
    <3>3. (q + 1) * d = q * d + d /\ q * d \in Nat /\ a * d \in Nat
      BY <1>1
    <3>4. QED
      BY <1>1, <3>2, <3>3
  <2>2. QED
    BY <2>1
<1>5. a * d \in Nat
  OBVIOUS
<1>6. QED
  BY <1>1, <1>3, <1>4, <1>5 DEF q

LEMMA StartsFacts ==
    ASSUME NEW n \in Nat, NEW step_ \in Nat \ {0}
    PROVE  LET starts == Starts(n, step_)
           IN  /\ starts \in Seq(Nat)
               /\ \A k \in 1..Len(starts) : starts[k] < n
               /\ \A j \in 1..n : \E k \in 1..Len(starts) :
                     starts[k] < j /\ j <= starts[k] + step_
<1> DEFINE d == step_
           K == (n + d - 1) \div d
           starts == [k \in 1..K |-> (k - 1) * d]
<1>1. n + d - 1 \in Nat /\ K \in Nat
  <2>1. n + d - 1 \in Nat
    OBVIOUS
  <2>2. QED
    BY <2>1, DivFacts
<1>2. starts = Starts(n, d)
  BY DEF Starts
<1>3. \A k \in 1..K : k * d <= n + d - 1
  <2>1. TAKE k \in 1..K
  <2>2. k \in Nat /\ k <= K
    BY <1>1
  <2>3. QED
    BY <1>1, <2>2, DivAtLeast
<1>4. ASSUME NEW k \in 1..K PROVE (k - 1) * d \in Nat /\ (k - 1) * d < n
  <2>1. (k - 1) * d \in Nat
    <3>1. k - 1 \in Nat
      BY <1>1
    <3>2. \A x, y \in Nat : x * y \in Nat
      OBVIOUS
    <3>3. QED
      BY <3>1, <3>2
  <2>2. k * d = (k - 1) * d + d
    BY <1>1
  <2>3. QED
    BY <1>3, <2>1, <2>2
<1>5. ASSUME NEW j \in 1..n
      PROVE  \E k \in 1..K : (k - 1) * d < j /\ j <= (k - 1) * d + d
  <2> DEFINE a == (j - 1) \div d
  <2>1. j - 1 \in Nat
    OBVIOUS
  <2>2. a \in Nat /\ a * d <= j - 1 /\ j - 1 < a * d + d
    BY <2>1, DivFacts
  <2> HIDE DEF a
  <2>3. a * d \in Nat /\ (a + 1) * d = a * d + d
    BY <2>2
  <2>4. (a + 1) * d <= n + d - 1
    BY <2>2, <2>3
  <2>5. a + 1 \in Nat /\ a + 1 <= K
    BY <1>1, <2>2, <2>4, DivAtLeast
  <2>6. a + 1 \in 1..K /\ a + 1 - 1 = a
    BY <1>1, <2>2, <2>5
  <2>8. PICK k \in 1..K : k = a + 1
    BY <2>6
  <2>9. k - 1 = a
    BY <2>2, <2>8
  <2>10. (k - 1) * d = a * d
    BY <2>9
  <2>11. (k - 1) * d < j /\ j <= (k - 1) * d + d
    BY <2>2, <2>3, <2>10
  <2> HIDE DEF d, K
  <2>12. QED
    BY <2>8, <2>11
<1> HIDE DEF K
<1>6. starts \in [1..K -> Nat]
  BY <1>4
<1>7. starts \in Seq(Nat) /\ Len(starts) = K
  BY <1>1, <1>6, SeqFromFunction
<1>8. QED
  BY <1>2, <1>4, <1>5, <1>7

\* The windows before those that are blank are left out.
Cut(t, starts, size) ==
    [k \in DOMAIN starts |-> SubSeq(t, starts[k] + 1, Least(starts[k] + size, Len(t)))]

LEMMA SliceOfTokens ==
    ASSUME NEW t \in Seq(Token), NEW a \in Nat, NEW b \in Nat, 1 <= a, a <= b + 1, b <= Len(t)
    PROVE  /\ SubSeq(t, a, b) \in Seq(Token) /\ Len(SubSeq(t, a, b)) = b + 1 - a
           /\ ToSet(SubSeq(t, a, b)) = {t[i] : i \in a..b}
  BY SliceFacts

LEMMA CutFacts ==
    ASSUME NEW t \in Seq(Token), NEW size \in Nat, NEW overlap \in Nat, overlap < size
    PROVE  LET cut == Cut(t, Starts(Len(t), Step(size, overlap)), size)
           IN  /\ cut \in Seq(Seq(Token))
               /\ \A w \in ToSet(cut) : Len(w) <= size /\ ToSet(w) \subseteq ToSet(t)
               /\ \A x \in ToSet(t) : \E w \in ToSet(cut) : x \in ToSet(w)
<1> DEFINE d == Step(size, overlap)
           starts == Starts(Len(t), d)
           cut == Cut(t, starts, size)
           N == Len(starts)
           n == Len(t)
<1>1. d \in Nat \ {0} /\ d <= size /\ n \in Nat
  BY DEF Step
<1>2. /\ starts \in Seq(Nat)
      /\ \A k \in 1..N : starts[k] < n
      /\ \A j \in 1..n : \E k \in 1..N : starts[k] < j /\ j <= starts[k] + d
  BY <1>1, StartsFacts
<1>3. N \in Nat /\ DOMAIN starts = 1..N /\ \A k \in 1..N : starts[k] \in Nat
  BY <1>2
<1> HIDE DEF d, starts
<1> HIDE DEF N, n
<1>4. ASSUME NEW k \in 1..N
      PROVE  LET w == SubSeq(t, starts[k] + 1, Least(starts[k] + size, n))
             IN  /\ w \in Seq(Token) /\ Len(w) <= size /\ ToSet(w) \subseteq ToSet(t)
                 /\ \A j \in 1..n : starts[k] < j /\ j <= starts[k] + d => t[j] \in ToSet(w)
  <2> DEFINE m == starts[k]
             a == m + 1
             b == Least(m + size, n)
             w == SubSeq(t, a, b)
  <2>0. m \in Nat /\ m < n
    BY <1>2, <1>3
  <2> HIDE DEF m
  <2>1. /\ a \in Nat /\ b \in Nat /\ 1 <= a /\ a <= b + 1 /\ b <= n
        /\ b + 1 - a <= size
        /\ \A j \in 1..n : m < j /\ j <= m + d => j \in a..b
    BY <1>1, <2>0 DEF Least
  <2> HIDE DEF a, b
  <2> HIDE DEF w
  <2>2. w \in Seq(Token) /\ Len(w) = b + 1 - a /\ ToSet(w) = {t[i] : i \in a..b}
    <3>1. a \in Nat /\ b \in Nat /\ 1 <= a /\ a <= b + 1 /\ b <= Len(t)
      BY <2>1 DEF n
    <3>2. /\ SubSeq(t, a, b) \in Seq(Token) /\ Len(SubSeq(t, a, b)) = b + 1 - a
          /\ ToSet(SubSeq(t, a, b)) = {t[i] : i \in a..b}
      BY <3>1, SliceOfTokens
    <3>3. QED
      BY <3>2 DEF w
  <2>3. \A i \in a..b : i \in 1..n /\ t[i] \in ToSet(t)
    <3>1. \A i \in 1..n : t[i] \in ToSet(t)
      BY SeqFacts DEF n
    <3>2. QED
      BY <1>1, <2>1, <3>1
  <2>5. ToSet(w) \subseteq ToSet(t)
    BY <2>2, <2>3
  <2>6. \A j \in 1..n : m < j /\ j <= m + d => t[j] \in ToSet(w)
    BY <2>1, <2>2
  <2>7. Len(w) <= size
    BY <2>1, <2>2
  <2>8. w = SubSeq(t, starts[k] + 1, Least(starts[k] + size, n))
    BY DEF w, a, b, m
  <2>9. QED
    BY <2>2, <2>5, <2>6, <2>7, <2>8 DEF m
<1> DEFINE f(k) == SubSeq(t, starts[k] + 1, Least(starts[k] + size, n))
<1>5. cut = [k \in 1..N |-> f(k)]
  BY <1>3 DEF Cut, n
<1>6. \A k \in 1..N : f(k) \in Seq(Token) /\ Len(f(k)) <= size /\ ToSet(f(k)) \subseteq ToSet(t)
  BY <1>4
<1>7. \A k \in 1..N : \A j \in 1..n :
         starts[k] < j /\ j <= starts[k] + d => t[j] \in ToSet(f(k))
  BY <1>4
<1> HIDE DEF f, cut
<1>8. cut \in [1..N -> Seq(Token)]
  BY <1>5, <1>6
<1>9. cut \in Seq(Seq(Token)) /\ Len(cut) = N
  BY <1>3, <1>8, SeqFromFunction
<1>10. ASSUME NEW w \in ToSet(cut) PROVE \E k \in 1..N : w = f(k)
  <2>1. PICK k \in 1..N : cut[k] = w
    BY <1>9, SeqFacts
  <2>2. cut[k] = f(k)
    BY <1>5
  <2>3. QED
    BY <2>1, <2>2
<1>11. \A k \in 1..N : f(k) \in ToSet(cut)
  <2>1. TAKE k \in 1..N
  <2>2. cut[k] = f(k)
    BY <1>5
  <2>3. QED
    BY <1>9, <2>2, SeqFacts
<1>12. ASSUME NEW x \in ToSet(t) PROVE \E w \in ToSet(cut) : x \in ToSet(w)
  <2>1. PICK j \in 1..n : t[j] = x
    BY SeqFacts DEF n
  <2>2. PICK k \in 1..N : starts[k] < j /\ j <= starts[k] + d
    BY <1>2
  <2>3. x \in ToSet(f(k))
    BY <1>7, <2>1, <2>2
  <2>4. QED
    BY <1>11, <2>3
<1>13. QED
  BY <1>6, <1>9, <1>10, <1>12 DEF cut, starts, d, n

LEMMA WindowsFacts ==
    ASSUME NEW t \in Seq(Token), NEW size \in Nat, NEW overlap \in Nat, overlap < size
    PROVE  LET windows == Windows(t, size, overlap)
           IN  /\ windows \in Seq(Seq(Token))
               /\ \A w \in ToSet(windows) : Len(w) <= size /\ ToSet(w) \subseteq ToSet(t)
               /\ \A x \in ToSet(t) : ~x.blank => \E w \in ToSet(windows) : x \in ToSet(w)
<1> DEFINE cut == Cut(t, Starts(Len(t), Step(size, overlap)), size)
           P == {k \in DOMAIN cut : ~Blank(cut[k])}
<1>1. Take(cut, P) = Windows(t, size, overlap)
  BY DEF Windows, Cut
<1>2. /\ cut \in Seq(Seq(Token))
      /\ \A w \in ToSet(cut) : Len(w) <= size /\ ToSet(w) \subseteq ToSet(t)
      /\ \A x \in ToSet(t) : \E w \in ToSet(cut) : x \in ToSet(w)
  BY CutFacts
<1> HIDE DEF cut
<1>3. /\ Len(cut) \in Nat /\ DOMAIN cut = 1..Len(cut)
      /\ \A w \in ToSet(cut) : w \in Seq(Token) /\ \E k \in 1..Len(cut) : cut[k] = w
      /\ \A k \in 1..Len(cut) : cut[k] \in ToSet(cut)
  BY <1>2, SeqFacts
<1>4. P \in SUBSET (1..Len(cut)) /\ P = {k \in 1..Len(cut) : ~Blank(cut[k])}
  BY <1>3
<1> HIDE DEF P
<1>5. Take(cut, P) \in Seq(Seq(Token)) /\ ToSet(Take(cut, P)) = {cut[k] : k \in P}
  <2> DEFINE Texts == Seq(Token)
  <2>1. cut \in Seq(Texts)
    BY <1>2
  <2> HIDE DEF Texts
  <2>2. Take(cut, P) \in Seq(Texts) /\ ToSet(Take(cut, P)) = {cut[k] : k \in P}
    BY <1>4, <2>1, TakeFacts
  <2>3. QED
    BY <2>2 DEF Texts
<1>6. ToSet(Take(cut, P)) \subseteq ToSet(cut)
  BY <1>3, <1>4, <1>5
<1>7. ASSUME NEW x \in ToSet(t), ~x.blank PROVE \E w \in ToSet(Take(cut, P)) : x \in ToSet(w)
  <2>1. PICK w \in ToSet(cut) : x \in ToSet(w)
    BY <1>2
  <2>2. PICK k \in 1..Len(cut) : cut[k] = w
    BY <1>3
  <2>3. ~Blank(w)
    <3>1. w \in Seq(Token)
      BY <1>3
    <3>2. PICK i \in 1..Len(w) : w[i] = x
      BY <2>1, <3>1, SeqFacts
    <3>3. i \in DOMAIN w
      BY <3>1, <3>2, SeqFacts
    <3>4. QED
      BY <1>7, <3>2, <3>3 DEF Blank
  <2>4. w \in ToSet(Take(cut, P))
    BY <1>4, <1>5, <2>2, <2>3
  <2>5. QED
    BY <2>1, <2>4
<1>8. QED
  BY <1>1, <1>2, <1>5, <1>6, <1>7

-----------------------------------------------------------------------------
(* Elements and their tokens. *)

LEMMA PickFacts ==
    ASSUME NEW s \in Seq(Element), NEW a \in Nat \ {0}, NEW b \in 0..Len(s), NEW kinds
    PROVE  LET picked == Pick(s, a, b, kinds)
           IN  /\ picked \in Seq(1..Len(s))
               /\ ToSet(picked) = {e \in a..b : s[e].kind \in kinds}
               /\ \A j, k \in 1..Len(picked) : j < k => picked[j] < picked[k]
<1> DEFINE P == {e \in a..b : s[e].kind \in kinds}
           A == Ascending(P)
           n == Len(s)
<1>1. n \in Nat /\ a..b \in SUBSET (1..n)
  OBVIOUS
<1> HIDE DEF n
<1>2. P \in SUBSET (1..n) /\ P \in SUBSET Int
  BY <1>1
<1>3. A = Pick(s, a, b, kinds)
  BY DEF Pick
<1> HIDE DEF P
<1>4. IsFiniteSet(P) /\ Cardinality(P) \in Nat
  BY <1>1, <1>2, PositionsFinite
<1>5. /\ A \in [1..Cardinality(P) -> P]
      /\ \A j, k \in 1..Cardinality(P) : j < k => A[j] < A[k]
      /\ \A i \in P : \E k \in 1..Cardinality(P) : A[k] = i
  BY <1>2, <1>4, AscendingFacts
<1> HIDE DEF A
<1>6. A \in Seq(P) /\ Len(A) = Cardinality(P)
  BY <1>4, <1>5, SeqFromFunction
<1>7. ToSet(A) = P
  <2>1. ToSet(A) = {A[i] : i \in 1..Len(A)}
    BY <1>6, SeqFacts
  <2>2. QED
    BY <1>5, <1>6, <2>1
<1>8. A \in Seq(1..n)
  <2>1. \A i \in 1..Len(A) : A[i] \in 1..n
    BY <1>2, <1>5, <1>6
  <2>2. QED
    BY <1>6, <2>1, ListOf
<1>9. QED
  BY <1>3, <1>5, <1>6, <1>7, <1>8 DEF P, n

\* The tokens of one element.
TokensOf(s, e) ==
    [k \in 1..s[e].size |-> [of |-> e, nth |-> k, blank |-> s[e].kind = "blank"]]

LEMMA TokensOfFacts ==
    ASSUME NEW s \in Seq(Element), NEW e \in 1..Len(s)
    PROVE  /\ TokensOf(s, e) \in Seq(Token) /\ Len(TokensOf(s, e)) = s[e].size
           /\ s[e].size \in Nat \ {0}
           /\ \A t \in ToSet(TokensOf(s, e)) : t.of = e /\ (t.blank <=> s[e].kind = "blank")
<1> DEFINE n == s[e].size
           blank == s[e].kind = "blank"
           f == [k \in 1..n |-> [of |-> e, nth |-> k, blank |-> blank]]
<1>1. s[e] \in Element /\ e \in Nat
  OBVIOUS
<1>2. n \in Nat \ {0}
  BY <1>1 DEF Element
<1>3. f = TokensOf(s, e)
  BY DEF TokensOf
<1>4. blank \in BOOLEAN
  OBVIOUS
<1> HIDE DEF n, blank
<1>5. f \in [1..n -> Token]
  <2>1. \A k \in 1..n : [of |-> e, nth |-> k, blank |-> blank] \in Token
    BY <1>1, <1>2, <1>4 DEF Token
  <2>2. QED
    BY <2>1
<1>6. \A k \in 1..n : f[k].of = e /\ f[k].blank = blank
  OBVIOUS
<1> HIDE DEF f
<1>7. f \in Seq(Token) /\ Len(f) = n
  BY <1>2, <1>5, SeqFromFunction
<1>8. ASSUME NEW t \in ToSet(f) PROVE t.of = e /\ t.blank = blank
  <2>1. PICK k \in 1..Len(f) : f[k] = t
    BY <1>7, SeqFacts
  <2>2. QED
    BY <1>6, <1>7, <2>1
<1>9. QED
  BY <1>2, <1>3, <1>7, <1>8 DEF n, blank

\* The tokens of a text are those of its elements.
LEMMA TokensFacts ==
    ASSUME NEW s \in Seq(Element), NEW parts \in Seq(1..Len(s))
    PROVE  /\ Tokens(s, parts) \in Seq(Token)
           /\ \A t \in ToSet(Tokens(s, parts)) :
                 /\ t \in Token /\ t.of \in ToSet(parts) /\ t \in ToSet(TokensOf(s, t.of))
                 /\ t.blank <=> s[t.of].kind = "blank"
           /\ \A e \in ToSet(parts) : ToSet(TokensOf(s, e)) \subseteq ToSet(Tokens(s, parts))
<1> DEFINE q == [i \in DOMAIN parts |-> TokensOf(s, parts[i])]
           n == Len(parts)
<1>1. /\ n \in Nat /\ DOMAIN parts = 1..n
      /\ \A i \in 1..n : parts[i] \in 1..Len(s) /\ parts[i] \in ToSet(parts)
      /\ \A e \in ToSet(parts) : \E i \in 1..n : parts[i] = e
  BY SeqFacts
<1> HIDE DEF n
<1>2. Tokens(s, parts) = FlattenSeq(q)
  BY DEF Tokens, TokensOf
<1>3. q = [i \in 1..n |-> TokensOf(s, parts[i])]
  BY <1>1
<1> HIDE DEF q
<1>4. q \in Seq(Seq(Token)) /\ Len(q) = n
  <2> DEFINE Texts == Seq(Token)
  <2>1. \A i \in 1..n : TokensOf(s, parts[i]) \in Texts
    BY <1>1, TokensOfFacts
  <2> HIDE DEF Texts
  <2>2. q \in [1..n -> Texts]
    BY <1>3, <2>1
  <2>3. q \in Seq(Texts) /\ Len(q) = n
    BY <1>1, <2>2, SeqFromFunction
  <2>4. QED
    BY <2>3 DEF Texts
<1>5. /\ FlattenSeq(q) \in Seq(Token)
      /\ ToSet(FlattenSeq(q)) = UNION {ToSet(q[i]) : i \in 1..n}
  BY <1>4, FlattenFacts
<1>6. ASSUME NEW t \in ToSet(FlattenSeq(q))
      PROVE  /\ t \in Token /\ t.of \in ToSet(parts) /\ t \in ToSet(TokensOf(s, t.of))
             /\ t.blank <=> s[t.of].kind = "blank"
  <2>1. PICK i \in 1..n : t \in ToSet(q[i])
    BY <1>5
  <2>2. q[i] = TokensOf(s, parts[i]) /\ parts[i] \in 1..Len(s) /\ parts[i] \in ToSet(parts)
    BY <1>1, <1>3
  <2>3. t.of = parts[i] /\ (t.blank <=> s[parts[i]].kind = "blank")
    BY <2>1, <2>2, TokensOfFacts
  <2>4. t \in Token
    BY <1>5, SeqFacts
  <2>5. QED
    BY <2>1, <2>2, <2>3, <2>4
<1>7. ASSUME NEW e \in ToSet(parts) PROVE ToSet(TokensOf(s, e)) \subseteq ToSet(FlattenSeq(q))
  <2>1. PICK i \in 1..n : parts[i] = e
    BY <1>1
  <2>2. q[i] = TokensOf(s, e)
    BY <1>3, <2>1
  <2>3. QED
    BY <1>5, <2>2
<1>8. QED
  BY <1>2, <1>5, <1>6, <1>7

\* Wherever its element is, a token is too.
LEMMA TokenFound ==
    ASSUME NEW s \in Seq(Element), NEW parts \in Seq(1..Len(s)), NEW more \in Seq(1..Len(s)),
           NEW t \in ToSet(Tokens(s, parts)), t.of \in ToSet(more)
    PROVE  t \in ToSet(Tokens(s, more))
<1>1. t \in ToSet(TokensOf(s, t.of))
  BY TokensFacts
<1>2. ToSet(TokensOf(s, t.of)) \subseteq ToSet(Tokens(s, more))
  BY TokensFacts
<1>3. QED
  BY <1>1, <1>2

-----------------------------------------------------------------------------
(* What the parser returns. *)

Section == [title : Seq(Token), content : Seq(Token)]

\* From one title to the next, or to the end.
LEMMA EndsFacts ==
    ASSUME NEW s \in Seq(Element)
    PROVE  LET titles == Pick(s, 1, Len(s), {"title"})
               ends == SectionEnds(s, titles)
           IN  /\ Len(titles) \in Nat /\ DOMAIN ends = 1..Len(titles)
               /\ \A n \in 1..Len(titles) : titles[n] \in 1..Len(s) /\ ends[n] \in 0..Len(s)
               /\ \A e \in 1..Len(s) : (\E a \in 1..e : s[a].kind = "title")
                     => \E n \in 1..Len(titles) : titles[n] <= e /\ e <= ends[n]
<1> DEFINE L == Len(s)
           titles == Pick(s, 1, Len(s), {"title"})
           N == Len(titles)
           ends == SectionEnds(s, titles)
<1>1. L \in Nat
  OBVIOUS
<1>2. /\ titles \in Seq(1..L)
      /\ ToSet(titles) = {e \in 1..L : s[e].kind = "title"}
      /\ \A j, k \in 1..N : j < k => titles[j] < titles[k]
  <2> DEFINE kinds == {"title"}
  <2>1. Len(s) \in 0..Len(s) /\ 1 \in Nat \ {0}
    BY <1>1
  <2> HIDE DEF kinds
  <2>2. LET p == Pick(s, 1, Len(s), kinds)
        IN  /\ p \in Seq(1..Len(s)) /\ ToSet(p) = {e \in 1..Len(s) : s[e].kind \in kinds}
            /\ \A j, k \in 1..Len(p) : j < k => p[j] < p[k]
    BY <2>1, PickFacts
  <2>3. titles = Pick(s, 1, Len(s), kinds)
    BY DEF kinds
  <2> HIDE DEF titles
  <2>4. QED
    BY <2>2, <2>3 DEF kinds
<1>3. N \in Nat /\ \A n \in 1..N : titles[n] \in 1..L
  BY <1>2, SeqFacts
<1>4. ends = [n \in 1..N |-> IF n < N THEN titles[n + 1] - 1 ELSE L]
  BY DEF SectionEnds
<1> HIDE DEF titles, ends, N, L
<1>5. ASSUME NEW n \in 1..N PROVE ends[n] \in 0..L
  <2>1. CASE n < N
    <3>1. n + 1 \in 1..N
      BY <1>3, <2>1
    <3>2. titles[n + 1] \in 1..L
      BY <1>3, <3>1
    <3>3. QED
      BY <1>1, <1>4, <2>1, <3>2
  <2>2. CASE ~(n < N)
    BY <1>1, <1>4, <2>2
  <2>3. QED
    BY <2>1, <2>2
<1>6. ASSUME NEW e \in 1..L, NEW a \in 1..e, s[a].kind = "title"
      PROVE  \E n \in 1..N : titles[n] <= e /\ e <= ends[n]
  <2> DEFINE T == {n \in 1..N : titles[n] <= e}
  <2>1. T \in SUBSET (1..N) /\ T # {}
    <3>1. a \in ToSet(titles)
      BY <1>1, <1>2, <1>6
    <3>2. PICK n \in 1..N : titles[n] = a
      BY <1>2, <3>1, SeqFacts DEF N
    <3>3. n \in T
      BY <1>1, <3>2
    <3>4. QED
      BY <3>3
  <2>2. PICK n \in T : \A m \in T : m <= n
    <3> HIDE DEF T
    <3>1. QED
      BY <1>3, <2>1, GreatestOf
  <2>3. e <= ends[n]
    <3>1. CASE n < N
      <4>1. n + 1 \in 1..N /\ ~(n + 1 <= n)
        BY <1>3, <3>1
      <4>2. n + 1 \notin T
        BY <2>2, <4>1
      <4>3. titles[n + 1] \in 1..L /\ ~(titles[n + 1] <= e)
        BY <1>3, <4>1, <4>2
      <4>4. ends[n] = titles[n + 1] - 1
        BY <1>4, <3>1
      <4>5. QED
        BY <1>1, <4>3, <4>4
    <3>2. CASE ~(n < N)
      BY <1>1, <1>4, <3>2
    <3>3. QED
      BY <3>1, <3>2
  <2>4. QED
    BY <2>2, <2>3
<1>7. QED
  BY <1>3, <1>4, <1>5, <1>6 DEF titles, ends, N, L

\* Behind the first title, sections leave out tables and nothing else.
LEMMA SectionsFacts ==
    ASSUME NEW s \in Seq(Element)
    PROVE  /\ Sections(s) \in Seq(Section)
           /\ \A e \in 1..Len(s) :
                 s[e].kind \in {"title", "sentence"} /\ (\E a \in 1..e : s[a].kind = "title")
                 => \E section \in ToSet(Sections(s)) :
                       ToSet(TokensOf(s, e)) \subseteq ToSet(section.content)
<1> DEFINE L == Len(s)
           titles == Pick(s, 1, Len(s), {"title"})
           N == Len(titles)
           ends == SectionEnds(s, titles)
           both(n) == Pick(s, titles[n], ends[n], {"title", "sentence"})
           f(n) == [title |-> Tokens(s, <<titles[n]>>), content |-> Tokens(s, both(n))]
<1>1. /\ N \in Nat /\ DOMAIN ends = 1..N /\ L \in Nat
      /\ \A n \in 1..N : titles[n] \in 1..L /\ ends[n] \in 0..L
      /\ \A e \in 1..L : (\E a \in 1..e : s[a].kind = "title")
            => \E n \in 1..N : titles[n] <= e /\ e <= ends[n]
  BY EndsFacts, SMTT(30)
<1>2. Sections(s) = [n \in 1..N |-> f(n)]
  BY <1>1 DEF Sections
<1> HIDE DEF titles, ends, N
<1>3. ASSUME NEW n \in 1..N
      PROVE  /\ both(n) \in Seq(1..L)
             /\ ToSet(both(n)) = {e \in titles[n]..ends[n] : s[e].kind \in {"title", "sentence"}}
  <2>1. titles[n] \in Nat \ {0} /\ ends[n] \in 0..Len(s)
    BY <1>1
  <2>2. QED
    BY <2>1, PickFacts
<1> HIDE DEF both
<1>4. ASSUME NEW n \in 1..N PROVE f(n) \in Section
  <2>1. <<titles[n]>> \in Seq(1..L)
    BY <1>1
  <2>2. Tokens(s, <<titles[n]>>) \in Seq(Token)
    BY <2>1, TokensFacts
  <2>3. Tokens(s, both(n)) \in Seq(Token)
    BY <1>3, TokensFacts
  <2>4. QED
    BY <2>2, <2>3 DEF Section
<1>5. \A n \in 1..N : f(n).content = Tokens(s, both(n))
  OBVIOUS
<1> HIDE DEF f
<1>6. Sections(s) \in Seq(Section) /\ Len(Sections(s)) = N
  <2>1. Sections(s) \in [1..N -> Section]
    BY <1>2, <1>4
  <2>2. QED
    BY <1>1, <2>1, SeqFromFunction
<1>7. ASSUME NEW e \in 1..L, s[e].kind \in {"title", "sentence"},
             NEW a \in 1..e, s[a].kind = "title"
      PROVE  \E section \in ToSet(Sections(s)) :
                ToSet(TokensOf(s, e)) \subseteq ToSet(section.content)
  <2>1. PICK n \in 1..N : titles[n] <= e /\ e <= ends[n]
    BY <1>1, <1>7
  <2>2. e \in titles[n]..ends[n]
    BY <1>1, <2>1
  <2>3. e \in ToSet(both(n))
    BY <1>3, <1>7, <2>2
  <2>4. ToSet(TokensOf(s, e)) \subseteq ToSet(Tokens(s, both(n)))
    BY <1>3, <2>3, TokensFacts
  <2>5. f(n) \in ToSet(Sections(s))
    <3>1. Sections(s)[n] = f(n)
      BY <1>2
    <3>2. QED
      BY <1>6, <3>1, SeqFacts
  <2>6. QED
    BY <1>5, <2>4, <2>5
<1>8. QED
  BY <1>6, <1>7 DEF L

\* Only a PDF has sections.
LEMMA ParsedFacts ==
    ASSUME NEW s \in Seq(Element), NEW type
    PROVE  LET doc == Parsed(s, type)
           IN  /\ doc.parts \in Seq(1..Len(s)) /\ doc.sections \in Seq(Section)
               /\ Tokens(s, doc.parts) \in Seq(Token)
               /\ doc.sections # <<>> =>
                     /\ doc.sections = Sections(s)
                     /\ \A e \in ToSet(doc.parts) : s[e].kind \in {"title", "sentence", "table"}
<1> DEFINE doc == Parsed(s, type)
<1>1. Len(s) \in 0..Len(s) /\ 1 \in Nat \ {0}
  OBVIOUS
<1>2. CASE type = "pdf"
  <2> DEFINE kinds == {"title", "sentence", "table"}
  <2>1. doc.parts = Pick(s, 1, Len(s), kinds) /\ doc.sections = Sections(s)
    BY <1>2 DEF Parsed
  <2> HIDE DEF doc, kinds
  <2>2. doc.parts \in Seq(1..Len(s)) /\ ToSet(doc.parts) = {e \in 1..Len(s) : s[e].kind \in kinds}
    <3>1. LET p == Pick(s, 1, Len(s), kinds)
          IN  p \in Seq(1..Len(s)) /\ ToSet(p) = {e \in 1..Len(s) : s[e].kind \in kinds}
      BY <1>1, PickFacts
    <3>2. QED
      BY <2>1, <3>1
  <2>3. \A e \in ToSet(doc.parts) : s[e].kind \in kinds
    BY <2>2
  <2>4. Tokens(s, doc.parts) \in Seq(Token)
    BY <2>2, TokensFacts
  <2>5. QED
    BY <2>1, <2>2, <2>3, <2>4, SectionsFacts DEF doc, kinds
<1>3. CASE type # "pdf"
  <2> DEFINE kinds == Kinds \ {"dropped"}
  <2>1. doc.parts = Pick(s, 1, Len(s), kinds) /\ doc.sections = <<>>
    BY <1>3 DEF Parsed
  <2> HIDE DEF doc, kinds
  <2>2. doc.parts \in Seq(1..Len(s))
    <3>1. Pick(s, 1, Len(s), kinds) \in Seq(1..Len(s))
      BY <1>1, PickFacts
    <3>2. QED
      BY <2>1, <3>1
  <2>3. Tokens(s, doc.parts) \in Seq(Token)
    BY <2>2, TokensFacts
  <2>4. QED
    BY <2>1, <2>2, <2>3 DEF doc
<1>4. QED
  BY <1>2, <1>3

-----------------------------------------------------------------------------
(* Chunks without a tree: the fixed and the semantic ones. *)

ChunkRecord == [level : 0..2, parent : Nat, tokens : Seq(Token)]

Covered(c, t) == \E i \in 1..Len(c) : t \in ToSet(c[i].tokens)

\* ParentsHoldTheirChildren, of a list of chunks.
Tree(c) ==
    \A i \in 1..Len(c) : c[i].parent # 0 =>
        LET parent == c[c[i].parent]
        IN  /\ c[i].parent < i
            /\ parent.level + 1 = c[i].level
            /\ c[i].level = 2 =>
                  \/ ToSet(c[i].tokens) \subseteq ToSet(parent.tokens)
                  \/ Len(parent.tokens) = ParentTokens

LEMMA ChunkFacts ==
    ASSUME NEW level \in 0..2, NEW parent \in Nat, NEW t \in Seq(Token)
    PROVE  /\ Chunk(level, parent, t) \in ChunkRecord
           /\ Chunk(level, parent, t).level = level
           /\ Chunk(level, parent, t).parent = parent
           /\ Chunk(level, parent, t).tokens = t
<1> DEFINE Texts == Seq(Token)
<1>1. t \in Texts
  OBVIOUS
<1> HIDE DEF Texts
<1>2. [level |-> level, parent |-> parent, tokens |-> t]
         \in [level : 0..2, parent : Nat, tokens : Texts]
  BY <1>1
<1>3. QED
  BY <1>2 DEF Chunk, ChunkRecord, Texts

LEMMA FlatFacts ==
    ASSUME NEW texts \in Seq(Seq(Token))
    PROVE  /\ Flat(texts) \in Seq(ChunkRecord) /\ Len(Flat(texts)) = Len(texts)
           /\ \A i \in 1..Len(texts) : /\ Flat(texts)[i].tokens = texts[i]
                                       /\ texts[i] \in ToSet(texts)
                                       /\ Flat(texts)[i].level = 0
           /\ Tree(Flat(texts))
           /\ \A t, w : w \in ToSet(texts) /\ t \in ToSet(w) => Covered(Flat(texts), t)
<1> DEFINE Texts == Seq(Token)
           n == Len(texts)
           f(i) == Chunk(0, 0, texts[i])
<1>1. texts \in Seq(Texts)
  OBVIOUS
<1> HIDE DEF Texts
<1>2. /\ n \in Nat /\ DOMAIN texts = 1..n
      /\ \A i \in 1..n : texts[i] \in Texts /\ texts[i] \in ToSet(texts)
      /\ \A w \in ToSet(texts) : \E i \in 1..n : texts[i] = w
  BY <1>1, SeqFacts
<1>3. Flat(texts) = [i \in 1..n |-> f(i)]
  BY <1>2 DEF Flat
<1> HIDE DEF n
<1>4. ASSUME NEW i \in 1..n
      PROVE  f(i) \in ChunkRecord /\ f(i).tokens = texts[i] /\ f(i).level = 0 /\ f(i).parent = 0
  <2>1. texts[i] \in Seq(Token)
    BY <1>2 DEF Texts
  <2>2. QED
    BY <2>1, ChunkFacts
<1> HIDE DEF f
<1>5. Flat(texts) \in Seq(ChunkRecord) /\ Len(Flat(texts)) = n
  <2>1. Flat(texts) \in [1..n -> ChunkRecord]
    BY <1>3, <1>4
  <2>2. QED
    BY <1>2, <2>1, SeqFromFunction
<1>6. \A i \in 1..n : Flat(texts)[i] = f(i)
  BY <1>3
<1>7. Tree(Flat(texts))
  BY <1>4, <1>5, <1>6 DEF Tree
<1>8. ASSUME NEW w \in ToSet(texts), NEW t \in ToSet(w) PROVE Covered(Flat(texts), t)
  <2>1. PICK i \in 1..n : texts[i] = w
    BY <1>2
  <2>2. t \in ToSet(Flat(texts)[i].tokens)
    BY <1>4, <1>6, <2>1
  <2>3. QED
    BY <1>5, <2>2 DEF Covered
<1>9. QED
  BY <1>2, <1>4, <1>5, <1>6, <1>7, <1>8 DEF n

\* The chunks of fixed size.
LEMMA FixedFacts ==
    ASSUME NEW s \in Seq(Element), NEW doc, doc.parts \in Seq(1..Len(s))
    PROVE  LET c == FixedChunks(s, doc)
           IN  /\ c \in Seq(ChunkRecord) /\ Tree(c)
               /\ \A i \in 1..Len(c) : Len(c[i].tokens) <= FixedSize
               /\ \A t \in ToSet(Tokens(s, doc.parts)) : ~t.blank => Covered(c, t)
<1> DEFINE T == Tokens(s, doc.parts)
           W == Windows(T, FixedSize, FixedOverlap)
<1>1. T \in Seq(Token)
  BY TokensFacts
<1>2. FixedChunks(s, doc) = Flat(W)
  BY DEF FixedChunks
<1> HIDE DEF T
<1>3. /\ W \in Seq(Seq(Token))
      /\ \A w \in ToSet(W) : Len(w) <= FixedSize
      /\ \A x \in ToSet(T) : ~x.blank => \E w \in ToSet(W) : x \in ToSet(w)
  BY <1>1, IngestionAssumption, WindowsFacts
<1> HIDE DEF W
<1>4. /\ Flat(W) \in Seq(ChunkRecord) /\ Len(Flat(W)) = Len(W)
      /\ \A i \in 1..Len(W) : Flat(W)[i].tokens = W[i] /\ W[i] \in ToSet(W)
      /\ Tree(Flat(W))
      /\ \A t, w : w \in ToSet(W) /\ t \in ToSet(w) => Covered(Flat(W), t)
  BY <1>3, FlatFacts
<1>5. \A t \in ToSet(T) : ~t.blank => Covered(Flat(W), t)
  BY <1>3, <1>4
<1>6. \A i \in 1..Len(Flat(W)) : Len(Flat(W)[i].tokens) <= FixedSize
  BY <1>3, <1>4
<1>7. QED
  BY <1>2, <1>4, <1>5, <1>6 DEF T

-----------------------------------------------------------------------------
(* The tree of a hierarchical document. *)

\* A text without titles is cut into sections.
LEMMA InferredFacts ==
    ASSUME NEW t \in Seq(Token)
    PROVE  /\ InferredSections(t) \in Seq(Section)
           /\ \A x \in ToSet(t) : \E section \in ToSet(InferredSections(t)) :
                 x \in ToSet(section.content)
<1> DEFINE starts == Starts(Len(t), ParentTokens)
           cut == Cut(t, starts, ParentTokens)
           f(n) == [title |-> InferredTitle(n), content |-> cut[n]]
           Texts == Seq(Token)
<1>1. ParentTokens \in Nat \ {0} /\ Step(ParentTokens, 0) = ParentTokens
  BY IngestionAssumption DEF Step
<1>2. /\ cut \in Seq(Texts)
      /\ \A x \in ToSet(t) : \E w \in ToSet(cut) : x \in ToSet(w)
  <2>1. ParentTokens \in Nat /\ 0 \in Nat /\ 0 < ParentTokens
    BY <1>1
  <2>2. LET c == Cut(t, Starts(Len(t), Step(ParentTokens, 0)), ParentTokens)
        IN  c \in Seq(Seq(Token)) /\ \A x \in ToSet(t) : \E w \in ToSet(c) : x \in ToSet(w)
    BY <2>1, CutFacts
  <2>3. QED
    BY <1>1, <2>2
<1>3. DOMAIN starts = DOMAIN cut
  BY DEF Cut
<1>4. InferredSections(t) = [n \in DOMAIN cut |-> f(n)]
  BY <1>3 DEF InferredSections, Cut
<1> HIDE DEF cut, starts, Texts
<1>5. /\ Len(cut) \in Nat /\ DOMAIN cut = 1..Len(cut)
      /\ \A n \in 1..Len(cut) : cut[n] \in Texts
      /\ \A w \in ToSet(cut) : \E n \in 1..Len(cut) : cut[n] = w
  BY <1>2, SeqFacts
<1>6. ASSUME NEW n \in 1..Len(cut) PROVE f(n) \in Section /\ f(n).content = cut[n]
  <2>1. InferredTitle(n) \in Texts
    <3>1. [of |-> 0, nth |-> n, blank |-> FALSE] \in Token
      BY DEF Token
    <3>2. QED
      BY <3>1 DEF InferredTitle, Texts
  <2>2. f(n) \in [title : Texts, content : Texts]
    BY <1>5, <2>1
  <2>3. QED
    BY <2>2 DEF Section, Texts
<1> HIDE DEF f
<1>7. InferredSections(t) \in Seq(Section) /\ Len(InferredSections(t)) = Len(cut)
  <2>1. InferredSections(t) \in [1..Len(cut) -> Section]
    BY <1>4, <1>5, <1>6
  <2>2. QED
    BY <1>5, <2>1, SeqFromFunction
<1>8. ASSUME NEW x \in ToSet(t)
      PROVE  \E section \in ToSet(InferredSections(t)) : x \in ToSet(section.content)
  <2>1. PICK n \in 1..Len(cut) : x \in ToSet(cut[n])
    BY <1>2, <1>5
  <2>2. InferredSections(t)[n] = f(n)
    BY <1>4, <1>5
  <2>3. f(n) \in ToSet(InferredSections(t))
    BY <1>7, <2>2, SeqFacts
  <2>4. QED
    BY <1>6, <2>1, <2>3
<1>9. QED
  BY <1>7, <1>8

\* What the loop over the sections has made of the first i of them.
SectionsDone(summary, s, i, c) ==
    /\ c \in Seq(ChunkRecord)
    /\ Len(c) >= 1 /\ c[1].level = 0
    /\ Tree(c)
    /\ \A k \in 1..Len(c) :
          \/ c[k].level = 0 /\ c[k].tokens = summary
          \/ c[k].level = 1 /\ Len(c[k].tokens) <= ParentTokens
          \/ c[k].level = 2 /\ Len(c[k].tokens) <= ChildTokens
    /\ \A t \in ToSet(summary) : Covered(c, t)
    /\ \A j \in 1..i : \A t \in ToSet(s[j].content) : ~t.blank => Covered(c, t)

SectionTurn(summary, c, section) == WithSection(c, section)

SectionLoop == INSTANCE FoldProofs WITH Op <- SectionTurn, Inv <- SectionsDone

LEMMA OverlapFits == ChildTokens \in Nat /\ ChildOverlap \in Nat /\ ChildOverlap < ChildTokens
<1>1. ChildTokens \div 10 \in Nat
  BY IngestionAssumption, DivFacts
<1>2. QED
  BY <1>1, IngestionAssumption DEF ChildOverlap

\* The chunks that come with a section.
LEMMA WithSectionShape ==
    ASSUME NEW c \in Seq(ChunkRecord), NEW section \in Section
    PROVE  LET n == Len(c)
               v == WithSection(c, section)
               m == Len(v) - (n + 1)
           IN  /\ v \in Seq(ChunkRecord) /\ m \in Nat
               /\ \A k \in 1..n : v[k] = c[k]
               /\ /\ v[n + 1].level = 1 /\ v[n + 1].parent = 1
                  /\ Len(v[n + 1].tokens) <= ParentTokens
                  /\ \/ ToSet(section.content) \subseteq ToSet(v[n + 1].tokens)
                     \/ Len(v[n + 1].tokens) = ParentTokens
               /\ \A k \in 1..m :
                     /\ v[n + 1 + k].level = 2 /\ v[n + 1 + k].parent = n + 1
                     /\ Len(v[n + 1 + k].tokens) <= ChildTokens
                     /\ ToSet(v[n + 1 + k].tokens) \subseteq ToSet(section.content)
               /\ \A t \in ToSet(section.content) : ~t.blank =>
                     \E k \in 1..m : t \in ToSet(v[n + 1 + k].tokens)
<1> DEFINE Texts == Seq(Token)
           n == Len(c)
           v == WithSection(c, section)
           W == Windows(section.content, ChildTokens, ChildOverlap)
           all == section.title \o section.content
           head == Chunk(1, 1, First(all, ParentTokens))
           f(k) == Chunk(2, n + 1, W[k])
           kids == [k \in DOMAIN W |-> f(k)]
           m == Len(W)
<1>1. section.title \in Seq(Token) /\ section.content \in Seq(Token) /\ n \in Nat
  BY DEF Section
<1>2. /\ W \in Seq(Texts)
      /\ \A w \in ToSet(W) : Len(w) <= ChildTokens /\ ToSet(w) \subseteq ToSet(section.content)
      /\ \A x \in ToSet(section.content) : ~x.blank => \E w \in ToSet(W) : x \in ToSet(w)
  BY <1>1, OverlapFits, WindowsFacts
<1>3. v = Append(c, head) \o kids
  BY DEF WithSection, Parent
<1> HIDE DEF n, v, W, Texts
<1>4. /\ m \in Nat /\ DOMAIN W = 1..m
      /\ \A k \in 1..m : W[k] \in Texts /\ W[k] \in ToSet(W)
      /\ \A w \in ToSet(W) : \E k \in 1..m : W[k] = w
  BY <1>2, SeqFacts
<1> HIDE DEF m
<1>5. /\ head \in ChunkRecord /\ head.level = 1 /\ head.parent = 1
      /\ Len(head.tokens) <= ParentTokens
      /\ ToSet(section.content) \subseteq ToSet(head.tokens) \/ Len(head.tokens) = ParentTokens
  <2> DEFINE top == First(all, ParentTokens)
  <2>1. ParentTokens \in Nat
    BY IngestionAssumption
  <2>2. all \in Seq(Token) /\ ToSet(section.content) \subseteq ToSet(all)
    BY <1>1, ConcatFacts
  <2> HIDE DEF all
  <2>3. /\ top \in Seq(Token) /\ Len(top) <= ParentTokens
        /\ Len(top) = Least(ParentTokens, Len(all))
        /\ Len(all) <= ParentTokens => top = all
    BY <2>1, <2>2, FirstFacts
  <2>4. head = Chunk(1, 1, top)
    OBVIOUS
  <2> HIDE DEF top
  <2>5. ToSet(section.content) \subseteq ToSet(top) \/ Len(top) = ParentTokens
    <3>1. CASE Len(all) <= ParentTokens
      BY <2>2, <2>3, <3>1
    <3>2. CASE ~(Len(all) <= ParentTokens)
      <4>1. Len(all) \in Nat
        BY <2>2
      <4>2. Least(ParentTokens, Len(all)) = ParentTokens
        BY <2>1, <3>2, <4>1 DEF Least
      <4>3. QED
        BY <2>3, <4>2
    <3>3. QED
      BY <3>1, <3>2
  <2>6. 1 \in 0..2 /\ 1 \in Nat
    OBVIOUS
  <2>7. head \in ChunkRecord /\ head.level = 1 /\ head.parent = 1 /\ head.tokens = top
    BY <2>3, <2>4, <2>6, ChunkFacts
  <2>8. QED
    BY <2>3, <2>5, <2>7
<1>6. ASSUME NEW k \in 1..m
      PROVE  /\ f(k) \in ChunkRecord /\ f(k).level = 2 /\ f(k).parent = n + 1
             /\ Len(f(k).tokens) <= ChildTokens
             /\ ToSet(f(k).tokens) \subseteq ToSet(section.content)
             /\ f(k).tokens = W[k]
  <2>1. W[k] \in Seq(Token) /\ 2 \in 0..2 /\ n + 1 \in Nat
    BY <1>1, <1>4 DEF Texts
  <2>2. f(k) \in ChunkRecord /\ f(k).level = 2 /\ f(k).parent = n + 1 /\ f(k).tokens = W[k]
    BY <2>1, ChunkFacts
  <2> HIDE DEF f
  <2>3. QED
    BY <1>2, <1>4, <2>2
<1>7. kids = [k \in 1..m |-> f(k)]
  BY <1>4
<1> HIDE DEF head, f, kids
<1>8. kids \in Seq(ChunkRecord) /\ Len(kids) = m /\ \A k \in 1..m : kids[k] = f(k)
  <2>1. kids \in [1..m -> ChunkRecord]
    BY <1>6, <1>7
  <2>2. QED
    BY <1>4, <1>7, <2>1, SeqFromFunction
<1> DEFINE u == Append(c, head)
<1>9. /\ u \in Seq(ChunkRecord) /\ Len(u) = n + 1
      /\ \A k \in 1..n : u[k] = c[k]
      /\ u[n + 1] = head
  BY <1>5 DEF n
<1> HIDE DEF u
<1>10. /\ v \in Seq(ChunkRecord) /\ Len(v) = n + 1 + m
       /\ \A k \in 1..(n + 1) : v[k] = u[k]
       /\ \A k \in 1..m : v[n + 1 + k] = kids[k]
  <2>1. v = u \o kids
    BY <1>3 DEF u
  <2>2. /\ u \o kids \in Seq(ChunkRecord) /\ Len(u \o kids) = Len(u) + Len(kids)
        /\ \A i \in 1..Len(u) : (u \o kids)[i] = u[i]
        /\ \A i \in 1..Len(kids) : (u \o kids)[Len(u) + i] = kids[i]
    <3>1. u \in Seq(ChunkRecord) /\ kids \in Seq(ChunkRecord)
      BY <1>8, <1>9
    <3>2. QED
      BY <3>1, ConcatFacts
  <2>3. QED
    BY <1>8, <1>9, <2>1, <2>2
<1>11. /\ \A k \in 1..n : v[k] = c[k]
       /\ v[n + 1] = head
       /\ \A k \in 1..m : v[n + 1 + k] = f(k)
  <2>1. n + 1 \in 1..(n + 1) /\ \A k \in 1..n : k \in 1..(n + 1)
    BY <1>1
  <2>2. QED
    BY <1>8, <1>9, <1>10, <2>1
<1>12. ASSUME NEW t \in ToSet(section.content), ~t.blank
       PROVE  \E k \in 1..m : t \in ToSet(v[n + 1 + k].tokens)
  <2>1. PICK k \in 1..m : t \in ToSet(W[k])
    BY <1>2, <1>4, <1>12
  <2>2. QED
    BY <1>6, <1>11, <2>1
<1>13. Len(v) - (n + 1) = m
  BY <1>1, <1>4, <1>10
<1>14. \A k \in 1..m : /\ v[n + 1 + k].level = 2 /\ v[n + 1 + k].parent = n + 1
                      /\ Len(v[n + 1 + k].tokens) <= ChildTokens
                      /\ ToSet(v[n + 1 + k].tokens) \subseteq ToSet(section.content)
  BY <1>6, <1>11
<1>15. /\ v[n + 1].level = 1 /\ v[n + 1].parent = 1
       /\ Len(v[n + 1].tokens) <= ParentTokens
       /\ \/ ToSet(section.content) \subseteq ToSet(v[n + 1].tokens)
          \/ Len(v[n + 1].tokens) = ParentTokens
  BY <1>5, <1>11
<1>16. QED
  BY <1>4, <1>10, <1>11, <1>12, <1>13, <1>14, <1>15 DEF n, v

LEMMA WithSectionFacts ==
    ASSUME NEW summary \in Seq(Token), NEW s \in Seq(Section), NEW i \in 1..Len(s),
           NEW c, SectionsDone(summary, s, i - 1, c)
    PROVE  SectionsDone(summary, s, i, WithSection(c, s[i]))
<1> DEFINE section == s[i]
           n == Len(c)
           v == WithSection(c, section)
           m == Len(v) - (n + 1)
<1>1. section \in Section
  OBVIOUS
<1>2. /\ c \in Seq(ChunkRecord) /\ n >= 1 /\ c[1].level = 0 /\ Tree(c)
      /\ \A k \in 1..n :
            \/ c[k].level = 0 /\ c[k].tokens = summary
            \/ c[k].level = 1 /\ Len(c[k].tokens) <= ParentTokens
            \/ c[k].level = 2 /\ Len(c[k].tokens) <= ChildTokens
      /\ \A t \in ToSet(summary) : Covered(c, t)
      /\ \A j \in 1..(i - 1) : \A t \in ToSet(s[j].content) : ~t.blank => Covered(c, t)
  BY DEF SectionsDone
<1>3. /\ v \in Seq(ChunkRecord) /\ m \in Nat
      /\ \A k \in 1..n : v[k] = c[k]
      /\ /\ v[n + 1].level = 1 /\ v[n + 1].parent = 1
         /\ Len(v[n + 1].tokens) <= ParentTokens
         /\ \/ ToSet(section.content) \subseteq ToSet(v[n + 1].tokens)
            \/ Len(v[n + 1].tokens) = ParentTokens
      /\ \A k \in 1..m :
            /\ v[n + 1 + k].level = 2 /\ v[n + 1 + k].parent = n + 1
            /\ Len(v[n + 1 + k].tokens) <= ChildTokens
            /\ ToSet(v[n + 1 + k].tokens) \subseteq ToSet(section.content)
      /\ \A t \in ToSet(section.content) : ~t.blank =>
            \E k \in 1..m : t \in ToSet(v[n + 1 + k].tokens)
  BY <1>1, <1>2, WithSectionShape
<1>4. n \in Nat /\ n >= 1 /\ Len(v) = n + 1 + m /\ m \in Nat
  <2>1. n \in Nat /\ Len(v) \in Nat
    BY <1>2, <1>3
  <2>2. QED
    BY <1>2, <1>3, <2>1
<1> HIDE DEF n, v, m
<1>5. \A k \in 1..Len(v) : k \in 1..n \/ k = n + 1 \/ \E j \in 1..m : k = n + 1 + j
  <2>1. TAKE k \in 1..Len(v)
  <2>2. CASE k > n + 1
    <3>1. k - (n + 1) \in 1..m /\ k = n + 1 + (k - (n + 1))
      BY <1>4, <2>2
    <3>2. QED
      BY <3>1
  <2>3. QED
    BY <1>4, <2>2
<1>6. /\ \A k \in 1..n : k \in 1..Len(v)
      /\ \A k \in 1..m : n + 1 + k \in 1..Len(v)
      /\ 1 \in 1..n
  BY <1>4
<1>7. v[1].level = 0
  BY <1>2, <1>3, <1>6
<1>8. \A k \in 1..Len(v) :
         \/ v[k].level = 0 /\ v[k].tokens = summary
         \/ v[k].level = 1 /\ Len(v[k].tokens) <= ParentTokens
         \/ v[k].level = 2 /\ Len(v[k].tokens) <= ChildTokens
  <2>1. TAKE k \in 1..Len(v)
  <2>2. CASE k \in 1..n
    BY <1>2, <1>3, <2>2
  <2>3. CASE k = n + 1
    BY <1>3, <2>3
  <2>4. ASSUME NEW j \in 1..m, k = n + 1 + j
        PROVE  v[k].level = 2 /\ Len(v[k].tokens) <= ChildTokens
    BY <1>3, <2>4
  <2>5. QED
    BY <1>5, <2>2, <2>3, <2>4
<1>9. Tree(v)
  <2>1. SUFFICES ASSUME NEW k \in 1..Len(v), v[k].parent # 0
                 PROVE  LET parent == v[v[k].parent]
                        IN  /\ v[k].parent < k
                            /\ parent.level + 1 = v[k].level
                            /\ v[k].level = 2 =>
                                  \/ ToSet(v[k].tokens) \subseteq ToSet(parent.tokens)
                                  \/ Len(parent.tokens) = ParentTokens
    BY DEF Tree
  <2>2. CASE k \in 1..n
    <3>1. v[k] = c[k] /\ c[k] \in ChunkRecord
      BY <1>2, <1>3, <2>2 DEF n
    <3>2. LET parent == c[c[k].parent]
          IN  /\ c[k].parent < k
              /\ parent.level + 1 = c[k].level
              /\ c[k].level = 2 =>
                    \/ ToSet(c[k].tokens) \subseteq ToSet(parent.tokens)
                    \/ Len(parent.tokens) = ParentTokens
      BY <1>2, <2>1, <2>2, <3>1 DEF Tree, n
    <3>3. c[k].parent \in 1..n
      <4>1. c[k].parent \in Nat
        BY <3>1 DEF ChunkRecord
      <4>2. QED
        BY <1>4, <2>1, <2>2, <3>1, <3>2, <4>1
    <3>4. v[c[k].parent] = c[c[k].parent]
      BY <1>3, <3>3
    <3>5. QED
      BY <3>1, <3>2, <3>4
  <2>3. CASE k = n + 1
    BY <1>3, <1>4, <1>7, <2>3
  <2>4. ASSUME NEW j \in 1..m, k = n + 1 + j
        PROVE  LET parent == v[v[k].parent]
               IN  /\ v[k].parent < k
                   /\ parent.level + 1 = v[k].level
                   /\ \/ ToSet(v[k].tokens) \subseteq ToSet(parent.tokens)
                      \/ Len(parent.tokens) = ParentTokens
    <3>1. v[k].parent = n + 1 /\ v[k].level = 2 /\ ToSet(v[k].tokens) \subseteq ToSet(section.content)
      BY <1>3, <2>4
    <3>2. n + 1 < k
      BY <1>4, <2>4
    <3>3. QED
      BY <1>3, <3>1, <3>2
  <2>5. QED
    BY <1>5, <2>2, <2>3, <2>4
<1>10. \A t : Covered(c, t) => Covered(v, t)
  <2>1. TAKE t
  <2>2. ASSUME NEW k \in 1..n, t \in ToSet(c[k].tokens) PROVE Covered(v, t)
    <3>1. k \in 1..Len(v) /\ t \in ToSet(v[k].tokens)
      BY <1>3, <1>6, <2>2
    <3>2. QED
      BY <3>1 DEF Covered
  <2>3. QED
    BY <2>2 DEF Covered, n
<1>11. ASSUME NEW j \in 1..i, NEW t \in ToSet(s[j].content), ~t.blank PROVE Covered(v, t)
  <2>1. CASE j = i
    <3>1. PICK k \in 1..m : t \in ToSet(v[n + 1 + k].tokens)
      BY <1>3, <1>11, <2>1
    <3>2. n + 1 + k \in 1..Len(v)
      BY <1>6
    <3>3. QED
      BY <3>1, <3>2 DEF Covered
  <2>2. CASE j # i
    <3>1. j \in 1..(i - 1)
      BY <2>2
    <3>2. QED
      BY <1>2, <1>10, <1>11, <3>1
  <2>3. QED
    BY <2>1, <2>2
<1>12. v \in Seq(ChunkRecord) /\ Len(v) >= 1
  BY <1>3, <1>4
<1>13. QED
  BY <1>2, <1>7, <1>8, <1>9, <1>10, <1>11, <1>12 DEF SectionsDone, v

\* What stands above the preview is a text.
LEMMA HeaderFacts ==
    ASSUME NEW doc, doc.sections \in Seq(Section), NEW title \in Seq(Token)
    PROVE  Header(doc, title) \in Seq(Token)
<1> DEFINE listed == First(doc.sections, ListedSections)
           q == [n \in DOMAIN listed |-> doc.sections[n].title]
           Texts == Seq(Token)
<1>1. /\ listed \in Seq(Section) /\ Len(listed) \in Nat /\ DOMAIN listed = 1..Len(listed)
      /\ \A n \in 1..Len(listed) : listed[n] = doc.sections[n] /\ listed[n] \in Section
  <2>1. ListedSections \in Nat
    BY IngestionAssumption
  <2>2. /\ listed \in Seq(Section)
        /\ \A n \in 1..Len(listed) : listed[n] = doc.sections[n]
    BY <2>1, FirstFacts
  <2> HIDE DEF listed
  <2>3. QED
    BY <2>2, SeqFacts
<1> HIDE DEF listed
<1>2. \A n \in 1..Len(listed) : doc.sections[n].title \in Texts
  BY <1>1 DEF Section
<1> HIDE DEF Texts
<1>3. q \in [1..Len(listed) -> Texts]
  BY <1>1, <1>2
<1> HIDE DEF q
<1>4. q \in Seq(Texts)
  BY <1>1, <1>3, SeqFromFunction
<1>5. FlattenSeq(q) \in Seq(Token)
  <2>1. q \in Seq(Seq(Token))
    BY <1>4 DEF Texts
  <2>2. QED
    BY <2>1, FlattenFacts
<1>6. Header(doc, title) = title \o FlattenSeq(q)
  BY DEF Header, q, listed
<1>7. QED
  BY <1>5, <1>6, ConcatFacts

\* What a hierarchical chunk may be.
HierarchicalSize(chunk, doc, title) ==
    \/ chunk.level = 0 /\ Len(chunk.tokens) <= Len(Header(doc, title)) + PreviewTokens
    \/ chunk.level = 1 /\ Len(chunk.tokens) <= ParentTokens
    \/ chunk.level = 2 /\ Len(chunk.tokens) <= ChildTokens

LEMMA HierarchicalFacts ==
    ASSUME NEW s \in Seq(Element), NEW doc, doc.parts \in Seq(1..Len(s)),
           doc.sections \in Seq(Section), NEW title \in Seq(Token)
    PROVE  LET c == HierarchicalChunks(s, doc, title)
               T == Tokens(s, doc.parts)
           IN  /\ c \in Seq(ChunkRecord) /\ Len(c) >= 1 /\ Tree(c)
               /\ \A k \in 1..Len(c) : HierarchicalSize(c[k], doc, title)
               /\ \A t \in ToSet(First(T, PreviewTokens)) : Covered(c, t)
               /\ \A section \in ToSet(SectionsOf(s, doc)) :
                     \A t \in ToSet(section.content) : ~t.blank => Covered(c, t)
               /\ doc.sections = <<>> => \A t \in ToSet(T) : ~t.blank => Covered(c, t)
<1> DEFINE T == Tokens(s, doc.parts)
           all == SectionsOf(s, doc)
           header == Header(doc, title)
           preview == First(T, PreviewTokens)
           summary == Summary(s, doc, title)
           base == <<Chunk(0, 0, summary)>>
           c == HierarchicalChunks(s, doc, title)
<1>1. T \in Seq(Token)
  BY TokensFacts
<1>2. /\ summary \in Seq(Token) /\ Len(summary) <= Len(header) + PreviewTokens
      /\ ToSet(preview) \subseteq ToSet(summary)
  <2>1. PreviewTokens \in Nat
    BY IngestionAssumption
  <2>2. header \in Seq(Token)
    BY HeaderFacts
  <2>3. summary = header \o preview
    BY DEF Summary
  <2> HIDE DEF T, header, summary
  <2>4. preview \in Seq(Token) /\ Len(preview) <= PreviewTokens
    BY <1>1, <2>1, FirstFacts
  <2> HIDE DEF preview
  <2>5. /\ summary \in Seq(Token) /\ Len(summary) = Len(header) + Len(preview)
        /\ ToSet(summary) = ToSet(header) \cup ToSet(preview)
    BY <2>2, <2>3, <2>4, ConcatFacts
  <2>6. Len(header) \in Nat /\ Len(preview) \in Nat
    BY <2>2, <2>4
  <2>7. QED
    BY <2>1, <2>4, <2>5, <2>6
<1>3. /\ all \in Seq(Section)
      /\ doc.sections = <<>> =>
            \A t \in ToSet(T) : \E section \in ToSet(all) : t \in ToSet(section.content)
  <2>1. CASE doc.sections = <<>>
    <3>1. all = InferredSections(T)
      BY <2>1 DEF SectionsOf
    <3> HIDE DEF T, all
    <3>2. QED
      BY <1>1, <3>1, InferredFacts
  <2>2. CASE doc.sections # <<>>
    BY <2>2 DEF SectionsOf
  <2>3. QED
    BY <2>1, <2>2
<1>4. c = SectionLoop!Folded(summary, base, all)
  BY DEF HierarchicalChunks, SectionLoop!Folded, SectionTurn, FoldLeft, SectionLoop!FoldLeft,
         MapThenFoldSet, SectionLoop!MapThenFoldSet, Max, SectionLoop!Max
<1> HIDE DEF T, all, header, preview, summary, c
<1>5. SectionsDone(summary, all, 0, base)
  <2> DEFINE first == Chunk(0, 0, summary)
  <2>1. first \in ChunkRecord /\ first.level = 0 /\ first.parent = 0 /\ first.tokens = summary
    <3>1. 0 \in 0..2 /\ 0 \in Nat
      OBVIOUS
    <3>2. QED
      BY <1>2, <3>1, ChunkFacts
  <2> HIDE DEF first
  <2>2. base = <<first>>
    BY DEF first
  <2> HIDE DEF base
  <2>3. base \in Seq(ChunkRecord) /\ Len(base) = 1 /\ base[1] = first
    BY <2>1, <2>2
  <2>4. 1..Len(base) = {1}
    BY <2>3
  <2>5. Tree(base)
    BY <2>1, <2>3, <2>4 DEF Tree
  <2>6. \A t \in ToSet(summary) : Covered(base, t)
    BY <2>1, <2>3, <2>4 DEF Covered
  <2>7. 1..0 = {}
    OBVIOUS
  <2>8. QED
    BY <2>1, <2>3, <2>4, <2>5, <2>6, <2>7 DEF SectionsDone
<1> HIDE DEF base
<1>6. ASSUME NEW i \in 1..Len(all), NEW v, SectionsDone(summary, all, i - 1, v)
      PROVE  SectionsDone(summary, all, i, SectionTurn(summary, v, all[i]))
  BY <1>2, <1>3, <1>6, WithSectionFacts DEF SectionTurn
<1>7. Len(all) \in Nat /\ DOMAIN all = 1..Len(all)
  BY <1>3, SeqFacts
<1>8. SectionsDone(summary, all, Len(all), c)
  <2>1. SectionsDone(summary, all, Len(all), SectionLoop!Folded(summary, base, all))
    BY <1>5, <1>6, <1>7, SectionLoop!LoopRule
  <2>2. QED
    BY <1>4, <2>1
<1>9. \A k \in 1..Len(c) : HierarchicalSize(c[k], doc, title)
  BY <1>2, <1>8 DEF SectionsDone, HierarchicalSize, header
<1>10. ASSUME NEW section \in ToSet(all), NEW t \in ToSet(section.content), ~t.blank
       PROVE  Covered(c, t)
  <2>1. PICK j \in 1..Len(all) : all[j] = section
    BY <1>3, SeqFacts
  <2>2. QED
    BY <1>8, <1>10, <2>1 DEF SectionsDone
<1>11. doc.sections = <<>> => \A t \in ToSet(T) : ~t.blank => Covered(c, t)
  BY <1>3, <1>10
<1>12. QED
  BY <1>2, <1>8, <1>9, <1>10, <1>11 DEF SectionsDone, T, all, preview, c

-----------------------------------------------------------------------------
(* The topics of a semantic document. *)

\* Segments begin and end where the topic shifts, without a gap.
LEMMA SegmentsFacts ==
    ASSUME NEW s \in Seq(Element), NEW sentences \in Seq(1..Len(s))
    PROVE  LET segments == Segments(s, sentences)
           IN  /\ segments \in Seq(Seq(Token))
               /\ \A e \in ToSet(sentences) : \E g \in ToSet(segments) :
                     ToSet(TokensOf(s, e)) \subseteq ToSet(g)
<1> DEFINE K == 1..Len(s)
           n == Len(sentences)
           E == {i \in DOMAIN sentences : i = n \/ s[sentences[i]].shift}
           ends == Ascending(E)
           N == Cardinality(E)
           from(k) == IF k = 1 THEN 1 ELSE ends[k - 1] + 1
           part(k) == SubSeq(sentences, from(k), ends[k])
           Texts == Seq(Token)
<1>1. /\ n \in Nat /\ DOMAIN sentences = 1..n
      /\ \A e \in ToSet(sentences) : \E i \in 1..n : sentences[i] = e
  BY SeqFacts
<1>2. E \in SUBSET (1..n) /\ (n # 0 => n \in E)
  BY <1>1
<1> HIDE DEF n, E
<1>3. E \in SUBSET Int /\ IsFiniteSet(E) /\ N \in Nat
  BY <1>1, <1>2, PositionsFinite
<1>4. /\ ends \in [1..N -> E]
      /\ \A j, k \in 1..N : j < k => ends[j] < ends[k]
      /\ \A i \in E : \E k \in 1..N : ends[k] = i
  BY <1>3, AscendingFacts
<1>5. Segments(s, sentences) = [k \in 1..N |-> Tokens(s, part(k))]
  <2>1. DOMAIN ends = 1..N
    BY <1>4
  <2>2. QED
    BY <2>1 DEF Segments, E, n
<1> HIDE DEF ends, N
<1>6. \A k \in 1..N : ends[k] \in 1..n
  BY <1>2, <1>4
<1>7. ASSUME NEW k \in 1..N
      PROVE  /\ from(k) \in Nat /\ 1 <= from(k) /\ from(k) <= ends[k] + 1
             /\ k # 1 => k - 1 \in 1..N
  <2>1. CASE k = 1
    BY <1>1, <1>6, <2>1
  <2>2. CASE k # 1
    <3>1. k - 1 \in 1..N /\ k - 1 < k
      BY <1>3, <2>2 DEF N
    <3>2. ends[k - 1] \in 1..n /\ ends[k] \in 1..n /\ ends[k - 1] < ends[k]
      BY <1>4, <1>6, <3>1
    <3>3. QED
      BY <1>1, <2>2, <3>1, <3>2
  <2>3. QED
    BY <2>1, <2>2
<1>8. ASSUME NEW k \in 1..N
      PROVE  part(k) \in Seq(K) /\ ToSet(part(k)) = {sentences[i] : i \in from(k)..ends[k]}
  <2> DEFINE a == from(k)
             b == ends[k]
  <2>1. a \in Nat /\ b \in Nat /\ 1 <= a /\ a <= b + 1 /\ b <= Len(sentences)
    BY <1>1, <1>6, <1>7 DEF n
  <2> HIDE DEF a, b, K
  <2>2. sentences \in Seq(K)
    BY DEF K
  <2>3. /\ SubSeq(sentences, a, b) \in Seq(K)
        /\ ToSet(SubSeq(sentences, a, b)) = {sentences[i] : i \in a..b}
    BY <2>1, <2>2, SliceFacts
  <2>4. QED
    BY <2>3 DEF a, b
<1>9. Segments(s, sentences) \in Seq(Texts) /\ Len(Segments(s, sentences)) = N
  <2>1. \A k \in 1..N : Tokens(s, part(k)) \in Texts
    <3>1. TAKE k \in 1..N
    <3>2. part(k) \in Seq(1..Len(s))
      BY <1>8
    <3> HIDE DEF part
    <3>3. QED
      BY <3>2, TokensFacts
  <2> HIDE DEF Texts, part
  <2>2. Segments(s, sentences) \in [1..N -> Texts]
    BY <1>5, <2>1
  <2>3. N \in Nat
    BY <1>3 DEF N
  <2>4. QED
    BY <2>2, <2>3, SeqFromFunction
<1>10. ASSUME NEW i \in 1..n PROVE \E k \in 1..N : from(k) <= i /\ i <= ends[k]
  <2> DEFINE A == {k \in 1..N : i <= ends[k]}
  <2>1. A \in SUBSET Nat /\ A # {}
    <3>1. PICK k \in 1..N : ends[k] = n
      BY <1>1, <1>2, <1>4
    <3>2. k \in A
      BY <1>1, <3>1
    <3>3. QED
      BY <3>2
  <2>2. PICK k \in A : \A m \in A : k <= m
    <3> HIDE DEF A
    <3>1. QED
      BY <2>1, LeastOf
  <2>3. from(k) <= i
    <3>1. CASE k = 1
      BY <1>1, <3>1
    <3>2. CASE k # 1
      <4>1. k \in 1..N /\ k - 1 \in 1..N /\ ~(k <= k - 1)
        BY <1>7, <3>2
      <4>2. k - 1 \notin A
        BY <2>2, <4>1
      <4>3. ~(i <= ends[k - 1]) /\ ends[k - 1] \in 1..n
        BY <1>6, <4>1, <4>2
      <4>4. QED
        BY <1>1, <3>2, <4>3
    <3>3. QED
      BY <3>1, <3>2
  <2>4. QED
    BY <2>2, <2>3
<1>11. ASSUME NEW e \in ToSet(sentences)
       PROVE  \E g \in ToSet(Segments(s, sentences)) : ToSet(TokensOf(s, e)) \subseteq ToSet(g)
  <2>1. PICK i \in 1..n : sentences[i] = e
    BY <1>1
  <2>2. PICK k \in 1..N : from(k) <= i /\ i <= ends[k]
    BY <1>10
  <2>3. i \in from(k)..ends[k]
    BY <1>1, <1>6, <1>7, <2>2
  <2>4. e \in ToSet(part(k))
    BY <1>8, <2>1, <2>3
  <2>5. part(k) \in Seq(1..Len(s))
    BY <1>8
  <2>6. Segments(s, sentences)[k] = Tokens(s, part(k))
    BY <1>5
  <2> HIDE DEF part, from
  <2>7. ToSet(TokensOf(s, e)) \subseteq ToSet(Tokens(s, part(k)))
    BY <2>4, <2>5, TokensFacts
  <2>8. Segments(s, sentences)[k] \in ToSet(Segments(s, sentences))
    BY <1>9, SeqFacts
  <2>9. QED
    BY <2>6, <2>7, <2>8
<1>12. QED
  BY <1>9, <1>11 DEF Texts

\* A text that is small enough, or a topic behind the first one.
Fits(g, w) == Len(w) <= MaxTokens \/ w \in ToSet(Tail(g))

\* What the loop over the segments has made of the first i of them.
SegmentsDone(p, g, i, m) ==
    /\ m \in [merged : Seq(Seq(Token)), buffer : Seq(Token)]
    /\ \A w \in ToSet(m.merged) : Fits(g, w)
    /\ Fits(g, m.buffer)
    /\ i = 0 => m.buffer = <<>>
    /\ \A j \in 1..i : \A t \in ToSet(g[j]) : ~t.blank =>
          t \in ToSet(m.buffer) \/ \E w \in ToSet(m.merged) : t \in ToSet(w)

SegmentTurn(p, m, segment) == WithSegment(m, segment)

SegmentLoop == INSTANCE FoldProofs WITH Op <- SegmentTurn, Inv <- SegmentsDone

LEMMA WithSegmentFacts ==
    ASSUME NEW p, NEW g \in Seq(Seq(Token)), NEW i \in 1..Len(g),
           NEW m, SegmentsDone(p, g, i - 1, m)
    PROVE  SegmentsDone(p, g, i, WithSegment(m, g[i]))
<1> DEFINE Texts == Seq(Token)
           x == g[i]
           v == WithSegment(m, x)
           Had(t) == t \in ToSet(m.buffer) \/ \E w \in ToSet(m.merged) : t \in ToSet(w)
           Has(t) == t \in ToSet(v.buffer) \/ \E w \in ToSet(v.merged) : t \in ToSet(w)
<1>1. g \in Seq(Texts)
  OBVIOUS
<1>2. /\ m.merged \in Seq(Texts) /\ m.buffer \in Texts
      /\ m = [merged |-> m.merged, buffer |-> m.buffer]
      /\ \A w \in ToSet(m.merged) : Fits(g, w)
      /\ Fits(g, m.buffer)
      /\ i = 1 => m.buffer = <<>>
      /\ \A j \in 1..(i - 1) : \A t \in ToSet(g[j]) : ~t.blank => Had(t)
  <2>1. m \in [merged : Seq(Texts), buffer : Texts]
    BY DEF SegmentsDone
  <2>2. m.merged \in Seq(Texts) /\ m.buffer \in Texts /\ m = [merged |-> m.merged, buffer |-> m.buffer]
    <3> HIDE DEF Texts
    <3>1. QED
      BY <2>1
  <2>3. i = 1 => i - 1 = 0
    OBVIOUS
  <2>4. QED
    BY <2>2, <2>3 DEF SegmentsDone
<1> HIDE DEF Texts
<1>3. x \in Texts /\ Len(g) \in Nat
  BY <1>1
<1>4. m.buffer \in Seq(Token) /\ x \in Seq(Token)
  BY <1>2, <1>3 DEF Texts
<1>5. Len(m.buffer) \in Nat /\ Len(x) \in Nat /\ MaxTokens \in Nat
  <2>1. MaxTokens \in Nat
    BY IngestionAssumption
  <2>2. QED
    BY <1>4, <2>1
<1>6. SUFFICES /\ v.merged \in Seq(Texts) /\ v.buffer \in Texts
               /\ v = [merged |-> v.merged, buffer |-> v.buffer]
               /\ \A w \in ToSet(v.merged) : Fits(g, w)
               /\ Fits(g, v.buffer)
               /\ \A t : Had(t) => Has(t)
               /\ \A t \in ToSet(x) : ~t.blank => Has(t)
  <2>1. ASSUME \A t : Had(t) => Has(t), \A t \in ToSet(x) : ~t.blank => Has(t),
               NEW j \in 1..i, NEW t \in ToSet(g[j]), ~t.blank
        PROVE  Has(t)
    <3>1. CASE j = i
      BY <2>1, <3>1
    <3>2. CASE j # i
      <4>1. j \in 1..(i - 1)
        BY <3>2
      <4> HIDE DEF Had, Has
      <4>2. QED
        BY <1>2, <2>1, <4>1
    <3>3. QED
      BY <3>1, <3>2
  <2>2. i # 0
    OBVIOUS
  <2>3. ASSUME v.merged \in Seq(Texts), v.buffer \in Texts,
               v = [merged |-> v.merged, buffer |-> v.buffer]
        PROVE  v \in [merged : Seq(Texts), buffer : Texts]
    <3> HIDE DEF v
    <3>1. QED
      BY <2>3
  <2> HIDE DEF v
  <2>4. QED
    BY <2>1, <2>2, <2>3 DEF SegmentsDone, Texts, v
<1> HIDE DEF x
<1>7. CASE Flush(m, x)
  <2>1. v = [merged |-> Append(m.merged, m.buffer), buffer |-> x]
    BY <1>7 DEF WithSegment
  <2> DEFINE q == Append(m.merged, m.buffer)
  <2>2. q \in Seq(Texts) /\ ToSet(q) = ToSet(m.merged) \cup {m.buffer}
    BY <1>2, AppendFacts
  <2> HIDE DEF q
  <2>3. v.merged = q /\ v.buffer = x /\ v = [merged |-> q, buffer |-> x]
    BY <2>1 DEF q
  <2> HIDE DEF v
  <2>4. Fits(g, x)
    <3>1. m.buffer # <<>>
      BY <1>7 DEF Flush
    <3>2. i \in 2..Len(g)
      BY <1>2, <1>3, <3>1
    <3>3. x \in ToSet(Tail(g))
      BY <1>1, <3>2, TailFacts DEF x
    <3>4. QED
      BY <3>3 DEF Fits
  <2>5. QED
    BY <1>2, <1>3, <2>2, <2>3, <2>4
<1>8. CASE ~Flush(m, x) /\ m.buffer = <<>> /\ Len(x) > MaxTokens
  <2> DEFINE W == Windows(x, MaxTokens, 0)
             q == m.merged \o W
  <2>1. v = [merged |-> q, buffer |-> m.buffer]
    <3>1. v = [m EXCEPT !.merged = @ \o W]
      BY <1>8 DEF WithSegment
    <3> HIDE DEF v, W
    <3>2. QED
      BY <1>2, <3>1
  <2>2. /\ W \in Seq(Texts)
        /\ \A w \in ToSet(W) : Len(w) <= MaxTokens
        /\ \A t \in ToSet(x) : ~t.blank => \E w \in ToSet(W) : t \in ToSet(w)
    <3>1. 0 \in Nat /\ 0 < MaxTokens
      BY IngestionAssumption
    <3>2. QED
      BY <1>4, <1>5, <3>1, WindowsFacts DEF Texts
  <2> HIDE DEF W
  <2>3. q \in Seq(Texts) /\ ToSet(q) = ToSet(m.merged) \cup ToSet(W)
    BY <1>2, <2>2, ConcatFacts
  <2> HIDE DEF q
  <2>4. v.merged = q /\ v.buffer = m.buffer
    BY <2>1
  <2> HIDE DEF v
  <2>5. \A w \in ToSet(W) : Fits(g, w)
    BY <2>2 DEF Fits
  <2>6. QED
    BY <1>2, <2>1, <2>2, <2>3, <2>4, <2>5
<1>9. CASE ~Flush(m, x) /\ ~(m.buffer = <<>> /\ Len(x) > MaxTokens)
  <2> DEFINE q == m.buffer \o x
  <2>1. v = [merged |-> m.merged, buffer |-> q]
    <3>1. v = [m EXCEPT !.buffer = @ \o x]
      BY <1>9 DEF WithSegment
    <3> HIDE DEF v
    <3>2. QED
      BY <1>2, <3>1
  <2>2. /\ q \in Seq(Token) /\ Len(q) = Len(m.buffer) + Len(x)
        /\ ToSet(q) = ToSet(m.buffer) \cup ToSet(x)
    BY <1>4, ConcatFacts
  <2> HIDE DEF q
  <2>3. v.merged = m.merged /\ v.buffer = q
    BY <2>1
  <2> HIDE DEF v
  <2>4. Len(q) <= MaxTokens
    <3>1. CASE m.buffer = <<>>
      <4>1. Len(m.buffer) = 0 /\ ~(Len(x) > MaxTokens)
        BY <1>9, <3>1
      <4>2. QED
        BY <1>5, <2>2, <4>1
    <3>2. CASE m.buffer # <<>>
      <4>1. ~(Len(m.buffer) + Len(x) > MaxTokens)
        BY <1>9, <3>2 DEF Flush
      <4>2. QED
        BY <1>5, <2>2, <4>1
    <3>3. QED
      BY <3>1, <3>2
  <2>5. Fits(g, q) /\ q \in Texts
    BY <2>2, <2>4 DEF Fits, Texts
  <2>6. QED
    BY <1>2, <2>1, <2>2, <2>3, <2>5
<1>10. QED
  BY <1>7, <1>8, <1>9

LEMMA SentencesFacts ==
    ASSUME NEW s \in Seq(Element), NEW doc, doc.parts \in Seq(1..Len(s))
    PROVE  /\ Sentences(s, doc) \in Seq(1..Len(s))
           /\ \A e \in ToSet(doc.parts) : s[e].kind # "blank" => e \in ToSet(Sentences(s, doc))
<1> DEFINE parts == doc.parts
           n == Len(parts)
           P == {i \in DOMAIN parts : s[parts[i]].kind # "blank"}
<1>1. /\ n \in Nat /\ DOMAIN parts = 1..n
      /\ \A e \in ToSet(parts) : \E i \in 1..n : parts[i] = e
  BY SeqFacts
<1>2. P \in SUBSET (1..n) /\ Sentences(s, doc) = Take(parts, P)
  BY <1>1 DEF Sentences
<1>3. Take(parts, P) \in Seq(1..Len(s)) /\ ToSet(Take(parts, P)) = {parts[i] : i \in P}
  <2> DEFINE K == 1..Len(s)
  <2>1. parts \in Seq(K) /\ P \in SUBSET (1..Len(parts))
    BY <1>2
  <2> HIDE DEF P, K
  <2>2. Take(parts, P) \in Seq(K) /\ ToSet(Take(parts, P)) = {parts[i] : i \in P}
    BY <2>1, TakeFacts, ZenonT(30)
  <2>3. QED
    BY <2>2 DEF K
<1>4. ASSUME NEW e \in ToSet(parts), s[e].kind # "blank" PROVE e \in {parts[i] : i \in P}
  <2>1. PICK i \in 1..n : parts[i] = e
    BY <1>1
  <2>2. i \in P
    BY <1>1, <1>4, <2>1
  <2>3. QED
    BY <2>1, <2>2
<1> HIDE DEF P
<1>5. QED
  BY <1>2, <1>3, <1>4

LEMMA SemanticFacts ==
    ASSUME NEW s \in Seq(Element), NEW doc, doc.parts \in Seq(1..Len(s))
    PROVE  LET c == SemanticChunks(s, doc)
               sentences == Sentences(s, doc)
               segments == Segments(s, sentences)
           IN  /\ c \in Seq(ChunkRecord) /\ Tree(c)
               /\ \A i \in 1..Len(c) :
                     Len(c[i].tokens) <= MaxTokens \/ Len(sentences) < 2
                     \/ c[i].tokens \in ToSet(Tail(segments))
               /\ \A t \in ToSet(Tokens(s, doc.parts)) : ~t.blank => Covered(c, t)
<1> DEFINE T == Tokens(s, doc.parts)
           Texts == Seq(Token)
           sentences == Sentences(s, doc)
           g == Segments(s, sentences)
           base == [merged |-> <<>>, buffer |-> <<>>]
           m == FoldLeft(WithSegment, base, g)
           texts == IF m.buffer = <<>> THEN m.merged ELSE Append(m.merged, m.buffer)
           c == SemanticChunks(s, doc)
<1>1. T \in Texts
  BY TokensFacts
<1>2. /\ sentences \in Seq(1..Len(s))
      /\ \A e \in ToSet(doc.parts) : s[e].kind # "blank" => e \in ToSet(sentences)
  BY SentencesFacts
<1>3. c = IF Len(sentences) < 2 THEN Flat(<<T>>) ELSE Flat(texts)
  BY DEF SemanticChunks
<1>4. m = SegmentLoop!Folded(T, base, g)
  BY DEF SegmentLoop!Folded, SegmentTurn, FoldLeft, SegmentLoop!FoldLeft,
         MapThenFoldSet, SegmentLoop!MapThenFoldSet, Max, SegmentLoop!Max
<1> HIDE DEF m, c, sentences
<1>5. /\ g \in Seq(Seq(Token))
      /\ \A e \in ToSet(sentences) : \E w \in ToSet(g) : ToSet(TokensOf(s, e)) \subseteq ToSet(w)
  BY <1>2, SegmentsFacts
<1> HIDE DEF g, T
<1>6. SegmentsDone(T, g, 0, base)
  <2>1. <<>> \in Seq(Texts) /\ <<>> \in Seq(Token) /\ Len(<<>>) = 0 /\ ToSet(<<>>) = {}
    BY DEF ToSet
  <2>2. MaxTokens \in Nat
    BY IngestionAssumption
  <2>3. Fits(g, <<>>)
    BY <2>1, <2>2 DEF Fits
  <2>4. base.merged = <<>> /\ base.buffer = <<>>
    OBVIOUS
  <2>5. base \in [merged : Seq(Seq(Token)), buffer : Seq(Token)]
    BY <2>1
  <2> HIDE DEF base
  <2>6. 1..0 = {}
    OBVIOUS
  <2>7. QED
    BY <2>1, <2>3, <2>4, <2>5, <2>6 DEF SegmentsDone
<1> HIDE DEF base
<1>7. ASSUME NEW i \in 1..Len(g), NEW v, SegmentsDone(T, g, i - 1, v)
      PROVE  SegmentsDone(T, g, i, SegmentTurn(T, v, g[i]))
  BY <1>5, <1>7, WithSegmentFacts DEF SegmentTurn
<1>8. Len(g) \in Nat /\ DOMAIN g = 1..Len(g)
  BY <1>5
<1>9. SegmentsDone(T, g, Len(g), m)
  <2>1. SegmentsDone(T, g, Len(g), SegmentLoop!Folded(T, base, g))
    BY <1>6, <1>7, <1>8, SegmentLoop!LoopRule
  <2>2. QED
    BY <1>4, <2>1
<1>10. /\ texts \in Seq(Texts)
       /\ \A w \in ToSet(texts) : Fits(g, w)
       /\ \A t : t \in ToSet(m.buffer) \/ (\E w \in ToSet(m.merged) : t \in ToSet(w))
             => \E w \in ToSet(texts) : t \in ToSet(w)
  <2>1. /\ m.merged \in Seq(Texts) /\ m.buffer \in Texts
        /\ \A w \in ToSet(m.merged) : Fits(g, w)
        /\ Fits(g, m.buffer)
    BY <1>9 DEF SegmentsDone
  <2> HIDE DEF Texts
  <2>2. CASE m.buffer = <<>>
    BY <2>1, <2>2 DEF ToSet
  <2>3. CASE m.buffer # <<>>
    <3>1. texts = Append(m.merged, m.buffer)
      BY <2>3
    <3>2. /\ Append(m.merged, m.buffer) \in Seq(Texts)
          /\ ToSet(Append(m.merged, m.buffer)) = ToSet(m.merged) \cup {m.buffer}
      BY <2>1, AppendFacts
    <3> HIDE DEF texts
    <3>3. texts \in Seq(Texts) /\ ToSet(texts) = ToSet(m.merged) \cup {m.buffer}
      BY <3>1, <3>2
    <3>4. QED
      BY <2>1, <3>3
  <2>4. QED
    BY <2>2, <2>3
<1> HIDE DEF texts
<1>11. CASE Len(sentences) < 2
  <2>1. c = Flat(<<T>>)
    BY <1>3, <1>11
  <2>2. <<T>> \in Seq(Texts) /\ T \in ToSet(<<T>>)
    <3> HIDE DEF Texts
    <3>1. QED
      BY <1>1 DEF ToSet
  <2>3. /\ Flat(<<T>>) \in Seq(ChunkRecord) /\ Tree(Flat(<<T>>))
        /\ \A t, w : w \in ToSet(<<T>>) /\ t \in ToSet(w) => Covered(Flat(<<T>>), t)
    BY <2>2, FlatFacts
  <2>4. QED
    BY <1>11, <2>1, <2>2, <2>3 DEF c, T, sentences
<1>12. CASE ~(Len(sentences) < 2)
  <2>1. c = Flat(texts)
    BY <1>3, <1>12
  <2>2. /\ c \in Seq(ChunkRecord) /\ Len(c) = Len(texts) /\ Tree(c)
        /\ \A i \in 1..Len(texts) : c[i].tokens = texts[i] /\ texts[i] \in ToSet(texts)
        /\ \A t, w : w \in ToSet(texts) /\ t \in ToSet(w) => Covered(c, t)
    BY <1>10, <2>1, FlatFacts
  <2>3. ASSUME NEW i \in 1..Len(c)
        PROVE  Len(c[i].tokens) <= MaxTokens \/ c[i].tokens \in ToSet(Tail(g))
    BY <1>10, <2>2 DEF Fits
  <2>4. ASSUME NEW t \in ToSet(T), ~t.blank PROVE Covered(c, t)
    <3>1. t.of \in ToSet(doc.parts) /\ t \in ToSet(TokensOf(s, t.of)) /\ s[t.of].kind # "blank"
      BY <2>4, TokensFacts DEF T
    <3>2. PICK w \in ToSet(g) : t \in ToSet(w)
      BY <1>2, <1>5, <3>1
    <3>3. PICK j \in 1..Len(g) : g[j] = w
      <4> HIDE DEF Texts
      <4>1. g \in Seq(Texts)
        BY <1>5 DEF Texts
      <4>2. QED
        BY <4>1, SeqFacts
    <3>4. t \in ToSet(m.buffer) \/ \E u \in ToSet(m.merged) : t \in ToSet(u)
      BY <1>9, <2>4, <3>2, <3>3 DEF SegmentsDone
    <3>5. QED
      BY <1>10, <2>2, <3>4
  <2>5. QED
    BY <2>2, <2>3, <2>4 DEF c, T, sentences, g
<1>13. QED
  BY <1>11, <1>12

-----------------------------------------------------------------------------
(* The chunks of a document, whichever chunker its type has. *)

\* What a hierarchical document loses is what MayBeLost says.
LEMMA HierarchicalCovers ==
    ASSUME NEW s \in Seq(Element), NEW type,
           NEW t \in ToSet(Tokens(s, Parsed(s, type).parts)),
           ~MayBeLost(t, s, Parsed(s, type)), NEW title \in Seq(Token)
    PROVE  Covered(HierarchicalChunks(s, Parsed(s, type), title), t)
<1> DEFINE doc == Parsed(s, type)
           c == HierarchicalChunks(s, doc, title)
           T == Tokens(s, doc.parts)
<1>1. /\ doc.parts \in Seq(1..Len(s)) /\ doc.sections \in Seq(Section)
      /\ doc.sections # <<>> =>
            /\ doc.sections = Sections(s)
            /\ \A e \in ToSet(doc.parts) : s[e].kind \in {"title", "sentence", "table"}
  BY ParsedFacts
<1>2. t \in ToSet(T) /\ ~MayBeLost(t, s, doc)
  OBVIOUS
<1> HIDE DEF doc
<1>3. /\ \A x \in ToSet(First(T, PreviewTokens)) : Covered(c, x)
      /\ \A section \in ToSet(SectionsOf(s, doc)) :
            \A x \in ToSet(section.content) : ~x.blank => Covered(c, x)
      /\ doc.sections = <<>> => \A x \in ToSet(T) : ~x.blank => Covered(c, x)
  BY <1>1, HierarchicalFacts
<1>4. ~t.blank
  BY <1>2 DEF MayBeLost
<1>5. /\ t.of \in ToSet(doc.parts) /\ t \in ToSet(TokensOf(s, t.of))
      /\ t.of \in 1..Len(s)
  <2>1. t.of \in ToSet(doc.parts) /\ t \in ToSet(TokensOf(s, t.of))
    BY <1>1, <1>2, TokensFacts
  <2>2. ToSet(doc.parts) \subseteq 1..Len(s)
    BY <1>1, SeqFacts
  <2>3. QED
    BY <2>1, <2>2
<1> HIDE DEF T, c
<1>6. CASE doc.sections = <<>> \/ t \in ToSet(First(T, PreviewTokens))
  BY <1>2, <1>3, <1>4, <1>6 DEF c, doc
<1>7. CASE doc.sections # <<>> /\ t \notin ToSet(First(T, PreviewTokens))
  <2>1. s[t.of].kind # "table" /\ \E e \in 1..t.of : s[e].kind = "title"
    BY <1>2, <1>7 DEF MayBeLost, T
  <2>2. s[t.of].kind \in {"title", "sentence"}
    BY <1>1, <1>5, <1>7, <2>1
  <2>3. PICK section \in ToSet(Sections(s)) : ToSet(TokensOf(s, t.of)) \subseteq ToSet(section.content)
    BY <1>5, <2>1, <2>2, SectionsFacts
  <2>4. SectionsOf(s, doc) = Sections(s)
    BY <1>1, <1>7 DEF SectionsOf
  <2>5. Covered(c, t)
    BY <1>3, <1>4, <1>5, <2>3, <2>4
  <2>6. QED
    BY <2>5 DEF c, doc
<1>8. QED
  BY <1>6, <1>7

\* OversizedOnlyByTopicOrTitles, of one chunk.
SizeFits(chunk, s, type, title) ==
    Len(chunk.tokens) > Ceiling(type, chunk.level) =>
        LET doc == Parsed(s, type)
            sentences == Sentences(s, doc)
        IN  \/ /\ Strategy(type) = "semantic"
               /\ Len(sentences) < 2 \/ chunk.tokens \in ToSet(Tail(Segments(s, sentences)))
            \/ /\ Strategy(type) = "hierarchical" /\ chunk.level = 0
               /\ Len(chunk.tokens) <= Len(Header(doc, title)) + PreviewTokens

\* _chunk(): a list that is a tree, of chunks that fit, with all of a text that
\* is not blank but for what may be lost.
LEMMA ChunkedFacts ==
    ASSUME NEW s \in Seq(Element), NEW type, NEW title \in Seq(Token)
    PROVE  LET c == Chunked(s, type, title)
               doc == Parsed(s, type)
               T == Tokens(s, doc.parts)
           IN  /\ c \in Seq(ChunkRecord) /\ Tree(c)
               /\ \A k \in 1..Len(c) : SizeFits(c[k], s, type, title)
               /\ ~Blank(T) =>
                     /\ Len(c) >= 1
                     /\ \A t \in ToSet(T) : Covered(c, t) \/ MayBeLost(t, s, doc)
<1> DEFINE doc == Parsed(s, type)
           T == Tokens(s, doc.parts)
           c == Chunked(s, type, title)
<1>1. /\ doc.parts \in Seq(1..Len(s)) /\ doc.sections \in Seq(Section)
      /\ T \in Seq(Token)
  BY ParsedFacts
<1>2. CASE Blank(T)
  <2>1. c = <<>>
    BY <1>2 DEF Chunked
  <2>2. c \in Seq(ChunkRecord) /\ Len(c) = 0 /\ 1..Len(c) = {}
    BY <2>1
  <2>3. QED
    BY <1>2, <2>2 DEF Tree
<1>3. CASE ~Blank(T)
  <2>1. SUFFICES /\ c \in Seq(ChunkRecord) /\ Tree(c)
                 /\ \A k \in 1..Len(c) : SizeFits(c[k], s, type, title)
                 /\ \A t \in ToSet(T) : Covered(c, t) \/ MayBeLost(t, s, doc)
    <3>1. ASSUME c \in Seq(ChunkRecord), \A t \in ToSet(T) : Covered(c, t) \/ MayBeLost(t, s, doc)
          PROVE  Len(c) >= 1
      <4>1. PICK i \in 1..Len(T) : ~T[i].blank
        BY <1>1, <1>3 DEF Blank
      <4>2. T[i] \in ToSet(T)
        BY <1>1, <4>1, SeqFacts
      <4>3. CASE Covered(c, T[i])
        BY <3>1, <4>3 DEF Covered
      <4>4. CASE MayBeLost(T[i], s, doc)
        <5>1. doc.sections # <<>>
          BY <4>1, <4>4 DEF MayBeLost
        <5>2. type = "pdf"
          BY <5>1 DEF Parsed
        <5>3. c = HierarchicalChunks(s, doc, title)
          BY <1>3, <5>2 DEF Chunked, Strategy
        <5> HIDE DEF doc, c
        <5>4. QED
          BY <1>1, <5>3, HierarchicalFacts
      <4>5. QED
        BY <3>1, <4>2, <4>3, <4>4
    <3> HIDE DEF doc, c, T
    <3>2. QED
      BY <1>3, <3>1 DEF doc, c, T
  <2>2. CASE Strategy(type) = "hierarchical"
    <3>1. c = HierarchicalChunks(s, doc, title)
      BY <1>3, <2>2 DEF Chunked
    <3>2. \A t \in ToSet(T) : Covered(c, t) \/ MayBeLost(t, s, doc)
      BY <3>1, HierarchicalCovers
    <3> HIDE DEF doc, T, c
    <3>3. /\ c \in Seq(ChunkRecord) /\ Tree(c)
          /\ \A k \in 1..Len(c) : HierarchicalSize(c[k], doc, title)
      BY <1>1, <3>1, HierarchicalFacts
    <3>4. ASSUME NEW k \in 1..Len(c) PROVE SizeFits(c[k], s, type, title)
      <4>1. c[k] \in ChunkRecord /\ HierarchicalSize(c[k], doc, title)
        BY <3>3
      <4>2. Ceiling(type, c[k].level) = <<PreviewTokens, ParentTokens, ChildTokens>>[c[k].level + 1]
        BY <2>2 DEF Ceiling
      <4>3. Len(c[k].tokens) \in Nat
        BY <4>1 DEF ChunkRecord
      <4>4. PreviewTokens \in Nat /\ ParentTokens \in Nat /\ ChildTokens \in Nat
        BY IngestionAssumption
      <4>5. CASE c[k].level = 0
        BY <2>2, <4>1, <4>5 DEF SizeFits, HierarchicalSize, doc
      <4>6. CASE c[k].level # 0
        <5>1. ~(Len(c[k].tokens) > Ceiling(type, c[k].level))
          BY <4>1, <4>2, <4>3, <4>4, <4>6 DEF HierarchicalSize
        <5>2. QED
          BY <5>1 DEF SizeFits
      <4>7. QED
        BY <4>5, <4>6
    <3>5. QED
      BY <3>2, <3>3, <3>4
  <2>3. CASE Strategy(type) = "semantic"
    <3>1. c = SemanticChunks(s, doc)
      BY <1>3, <2>3 DEF Chunked
    <3> DEFINE sentences == Sentences(s, doc)
               g == Segments(s, sentences)
    <3> HIDE DEF T, c
    <3>2. /\ c \in Seq(ChunkRecord) /\ Tree(c)
          /\ \A i \in 1..Len(c) :
                Len(c[i].tokens) <= MaxTokens \/ Len(sentences) < 2
                \/ c[i].tokens \in ToSet(Tail(g))
          /\ \A t \in ToSet(T) : ~t.blank => Covered(c, t)
      <4> HIDE DEF doc
      <4>1. QED
        BY <1>1, <3>1, SemanticFacts DEF T
    <3>3. ASSUME NEW k \in 1..Len(c) PROVE SizeFits(c[k], s, type, title)
      <4>1. c[k] \in ChunkRecord
        BY <3>2
      <4>2. Ceiling(type, c[k].level) = MaxTokens
        BY <2>3 DEF Ceiling
      <4>3. Len(c[k].tokens) \in Nat /\ MaxTokens \in Nat
        BY <4>1, IngestionAssumption DEF ChunkRecord
      <4>4. \/ ~(Len(c[k].tokens) > MaxTokens)
            \/ Len(sentences) < 2 \/ c[k].tokens \in ToSet(Tail(g))
        BY <3>2, <4>3
      <4>5. QED
        BY <2>3, <4>2, <4>4 DEF SizeFits
    <3>4. QED
      BY <3>2, <3>3 DEF MayBeLost
  <2>4. CASE Strategy(type) \notin {"hierarchical", "semantic"}
    <3>1. c = FixedChunks(s, doc)
      BY <1>3, <2>4 DEF Chunked
    <3> HIDE DEF doc, T, c
    <3>2. /\ c \in Seq(ChunkRecord) /\ Tree(c)
          /\ \A i \in 1..Len(c) : Len(c[i].tokens) <= FixedSize
          /\ \A t \in ToSet(T) : ~t.blank => Covered(c, t)
      BY <1>1, <3>1, FixedFacts DEF T
    <3>3. ASSUME NEW k \in 1..Len(c) PROVE SizeFits(c[k], s, type, title)
      <4>1. c[k] \in ChunkRecord
        BY <3>2
      <4>2. Ceiling(type, c[k].level) = FixedSize
        BY <2>4 DEF Ceiling, Strategy
      <4>3. Len(c[k].tokens) \in Nat /\ FixedSize \in Nat
        BY <4>1, IngestionAssumption DEF ChunkRecord
      <4>4. QED
        BY <3>2, <4>2, <4>3 DEF SizeFits
    <3>4. QED
      BY <3>2, <3>3 DEF MayBeLost
  <2>5. QED
    BY <2>2, <2>3, <2>4
<1>4. QED
  BY <1>2, <1>3

-----------------------------------------------------------------------------
(* Type correctness. *)

\* A job is for an upload or for the first message of the topic.
HasWork == inline = None => topic # <<>>

\* The message at the head of the topic is of a document, and so is every job.
LEMMA HeadTyped ==
    ASSUME TypeOK, HasWork
    PROVE  /\ Doc \in Docs
           /\ topic # <<>> => topic[1] \in Message /\ Tail(topic) \in Seq(Message)
<1>1. topic # <<>> => topic[1] \in Message /\ Tail(topic) \in Seq(Message)
  BY DEF TypeOK
<1>2. CASE inline = None
  BY <1>1, <1>2 DEF HasWork, Message, Doc
<1>3. CASE inline # None
  BY <1>1, <1>3 DEF TypeOK, Doc
<1>4. QED
  BY <1>2, <1>3

LEMMA CommitTyped ==
    ASSUME TypeOK, HasWork, NEW w \in BOOLEAN, Commit(w)
    PROVE  /\ inline' \in Docs \cup {None} /\ (step' = "idle" => inline' = None)
           /\ step' \in {"idle", "parse", "embed", "store"}
           /\ raw' \in Seq(Element) /\ chunks' \in Seq(ChunkRecord)
           /\ vectors' \in Seq(Nat \cup {None})
           /\ done' \in Nat /\ tries' \in 0..(EmbedRetries - 1)
           /\ topic' \in Seq(Message)
           /\ wrote' \in [Docs -> BOOLEAN]
<1>1. topic' \in Seq(Message)
  BY HeadTyped DEF Commit, HasWork, TypeOK
<1>2. wrote' \in [Docs -> BOOLEAN]
  BY DEF Commit, TypeOK
<1>3. QED
  BY <1>1, <1>2, IngestionAssumption DEF Commit, EndJob, TypeOK

LEMMA LeftTyped ==
    ASSUME NEW h \in Holdings, NEW after \in StoreStops
    PROVE  Left(h, after) \in Holdings /\ Finished(h) \in Holdings
<1> USE DEF Holdings, Shows, Written, Replaced, Retired
<1>1. Replaced(h) \in Holdings /\ Written(Replaced(h)) \in Holdings
  OBVIOUS
<1>2. ASSUME NEW g \in Holdings, NEW what \in {"part", "whole"} PROVE Shows(g, what) \in Holdings
  OBVIOUS
<1>3. Finished(h) \in Holdings
  BY <1>1, <1>2 DEF Finished
<1>4. Left(h, after) \in Holdings
  BY <1>1, <1>2 DEF Left, StoreStops
<1>5. QED
  BY <1>3, <1>4

\* What a round of the reconciliation publishes are messages.
LEMMA RequeueTyped ==
    ASSUME TypeOK, NEW q \in Selections, NEW n \in 0..Len(q), Requeue(q, n)
    PROVE  /\ [i \in 1..n |-> [doc |-> q[i], retry |-> 0]] \in Seq(Message)
           /\ topic' \in Seq(Message)
<1>1. IsFiniteSet(StaleDocs)
  BY IngestionAssumption, FS_Subset DEF StaleDocs
<1>2. Least(Limit, Cardinality(StaleDocs)) \in Nat
  BY <1>1, FS_CardinalityType, IngestionAssumption DEF Least
<1>3. q \in Seq(StaleDocs) /\ Len(q) \in Nat
  BY <1>2 DEF Selections
<1>4. \A i \in 1..n : q[i] \in Docs
  BY <1>3 DEF StaleDocs
<1>5. [i \in 1..n |-> [doc |-> q[i], retry |-> 0]] \in Seq(Message)
  BY <1>3, <1>4, IngestionAssumption DEF Message
<1>6. QED
  BY <1>3, <1>5 DEF Requeue, TypeOK

\* Faults stay within their bound.
LEMMA FaultTyped ==
    ASSUME TypeOK, Fault \/ UNCHANGED faults PROVE faults' \in 0..MaxFaults
<1>1. MaxFaults \in Nat /\ faults \in 0..MaxFaults
  BY IngestionAssumption DEF TypeOK
<1>2. QED
  BY <1>1 DEF Fault

\* A message that is published again is one.
LEMMA RetryTyped ==
    ASSUME TypeOK, topic # <<>>, MayRetry
    PROVE  [topic[1] EXCEPT !.retry = @ + 1] \in Message
<1>1. PICK d \in Docs, n \in 0..(MessageRetries - 1) : topic[1] = [doc |-> d, retry |-> n]
  <2>1. topic[1] \in Message
    BY DEF TypeOK
  <2>2. QED
    BY <2>1 DEF Message
<1>2. MessageRetries \in Nat
  BY IngestionAssumption
<1>3. n + 1 \in 0..(MessageRetries - 1)
  BY <1>1, <1>2 DEF MayRetry
<1>4. [topic[1] EXCEPT !.retry = @ + 1] = [doc |-> d, retry |-> n + 1]
  BY <1>1
<1>5. QED
  BY <1>3, <1>4 DEF Message

LEMMA TypeInit == Init => TypeOK
  BY IngestionAssumption DEF Init, TypeOK, Types, Holdings

LEMMA FetchedTyped == ASSUME NEW d \in Docs PROVE Fetched(d) \subseteq Seq(Element)
  BY IngestionAssumption DEF Fetched

LEMMA FetchTyped == ASSUME TypeOK, Fetch PROVE TypeOK'
<1>1. Doc \in Docs
  BY HeadTyped DEF Fetch, At, HasWork
<1>2. raw' \in Seq(Element)
  BY <1>1, FetchedTyped DEF Fetch
<1>3. QED
  BY <1>2 DEF Fetch, TypeOK

LEMMA InlineTyped == ASSUME TypeOK, NEW d \in Docs, Inline(d) PROVE TypeOK'
<1>1. raw' \in Seq(Element)
  BY FetchedTyped DEF Inline
<1>2. QED
  BY <1>1 DEF Inline, TypeOK

\* A worker that has not begun has no upload to process.
LEMMA IdleWorker ==
    ASSUME TypeOK, At("idle") PROVE inline = None /\ topic # <<>> /\ Doc = topic[1].doc
  BY DEF TypeOK, At, Doc

LEMMA FetchFailsTyped ==
    ASSUME TypeOK, FetchFailsTransiently \/ FetchFailsForGood PROVE TypeOK'
<1>1. topic # <<>> /\ HasWork /\ UNCHANGED <<docType, gone, stored>>
  BY IdleWorker DEF FetchFailsTransiently, FetchFailsForGood, HasWork
<1>2. faults' \in 0..MaxFaults
  BY FaultTyped DEF FetchFailsTransiently, FetchFailsForGood, FetchError
<1>3. CASE Commit(FALSE)
  BY <1>1, <1>2, <1>3, CommitTyped DEF TypeOK, ChunkRecord
<1>4. CASE MayRetry /\ topic' = Append(Tail(topic), [topic[1] EXCEPT !.retry = @ + 1])
              /\ UNCHANGED <<job, wrote>>
  <2>1. [topic[1] EXCEPT !.retry = @ + 1] \in Message
    BY <1>1, <1>4, RetryTyped
  <2>2. topic' \in Seq(Message)
    <3>1. Tail(topic) \in Seq(Message)
      BY <1>1, HeadTyped
    <3>2. QED
      BY <1>4, <2>1, <3>1
  <2>3. QED
    BY <1>1, <1>2, <1>4, <2>2 DEF job, TypeOK
<1>5. QED
  BY <1>3, <1>4 DEF FetchFailsTransiently, FetchFailsForGood

\* The title of an upload is a text.
LEMMA TitleTyped == ASSUME TypeOK PROVE Title \in Seq(Token)
<1> DEFINE n == IF inline = None THEN 0 ELSE UploadTitle[inline]
           f == [k \in 1..n |-> [of |-> 0, nth |-> k, blank |-> FALSE]]
<1>1. n \in Nat
  BY IngestionAssumption DEF TypeOK
<1>2. Title = f
  BY DEF Title
<1> HIDE DEF n
<1>3. \A k \in 1..n : [of |-> 0, nth |-> k, blank |-> FALSE] \in Token
  BY <1>1 DEF Token
<1>4. f \in [1..n -> Token]
  BY <1>3
<1> HIDE DEF f
<1>5. QED
  BY <1>1, <1>2, <1>4, SeqFromFunction

LEMMA ParseTyped == ASSUME TypeOK, ParseAndChunk PROVE TypeOK'
<1>1. HasWork /\ UNCHANGED <<docType, gone, stored, faults>>
  BY DEF ParseAndChunk, At, HasWork
<1>2. CASE Commit(FALSE)
  BY <1>1, <1>2, CommitTyped DEF TypeOK, ChunkRecord
<1>3. CASE /\ step' = "embed" /\ chunks' = Chunked(raw, docType[Doc], Title)
           /\ vectors' = [i \in DOMAIN chunks' |-> None]
           /\ UNCHANGED <<topic, inline, raw, done, tries, wrote>>
  <2>1. Doc \in Docs
    BY <1>1, HeadTyped
  <2>2. chunks' \in Seq(ChunkRecord)
    BY <1>3, <2>1, ChunkedFacts, TitleTyped DEF TypeOK
  <2>3. vectors' \in Seq(Nat \cup {None})
    BY <1>3, <2>2
  <2>4. QED
    BY <1>1, <1>3, <2>2, <2>3 DEF TypeOK, ChunkRecord
<1>4. QED
  BY <1>2, <1>3 DEF ParseAndChunk

\* The end of a batch is a position in the list, whatever the batch size.
LEMMA BatchEndTyped ==
    ASSUME TypeOK
    PROVE  /\ BatchEnd \in Nat /\ Len(chunks) \in Nat /\ BatchEnd <= Len(chunks)
           /\ BatchEnd = Len(chunks) \/ BatchEnd = done + BatchSize
  BY IngestionAssumption DEF TypeOK, BatchEnd, Least

LEMMA EmbedTyped == ASSUME TypeOK, EmbedBatch \/ EmbedFails PROVE TypeOK'
<1> DEFINE V == Nat \cup {None}
<1>1. /\ HasWork /\ UNCHANGED <<docType, gone, stored>>
      /\ Len(vectors) \in Nat /\ DOMAIN vectors = 1..Len(vectors)
      /\ \A i \in DOMAIN vectors : vectors[i] \in Nat \cup {None}
  <2>1. vectors \in Seq(V)
    BY DEF TypeOK
  <2> HIDE DEF V
  <2>2. Len(vectors) \in Nat /\ DOMAIN vectors = 1..Len(vectors)
        /\ \A i \in DOMAIN vectors : vectors[i] \in V
    BY <2>1
  <2>3. QED
    BY <2>2 DEF EmbedBatch, EmbedFails, At, HasWork, V
<1> HIDE DEF V
<1>2. CASE EmbedBatch
  <2>1. vectors' \in Seq(Nat \cup {None})
    BY <1>1, <1>2 DEF EmbedBatch
  <2>2. QED
    BY <1>1, <1>2, <2>1, BatchEndTyped, IngestionAssumption DEF EmbedBatch, TypeOK
<1>3. CASE EmbedFails
  <2>1. faults' \in 0..MaxFaults
    BY <1>3, FaultTyped DEF EmbedFails
  <2>2. CASE Commit(FALSE)
    BY <1>1, <2>1, <2>2, CommitTyped DEF TypeOK, ChunkRecord
  <2>3. CASE /\ tries + 1 < EmbedRetries /\ tries' = tries + 1 /\ done' = DoneAfterFailure
             /\ \/ UNCHANGED vectors
                \/ \E k \in DOMAIN vectors : InBatch(k) /\ vectors' = Misplaced(k)
             /\ UNCHANGED <<topic, inline, step, raw, chunks, wrote>>
    <3>1. \A k \in DOMAIN vectors : Misplaced(k) \in Seq(Nat \cup {None})
      BY <1>1 DEF Misplaced
    <3>2. vectors' \in Seq(Nat \cup {None})
      BY <2>3, <3>1 DEF TypeOK
    <3>3. tries' \in 0..(EmbedRetries - 1) /\ done' \in Nat
      BY <2>3, IngestionAssumption DEF TypeOK, DoneAfterFailure
    <3>4. QED
      BY <1>1, <2>1, <2>3, <3>2, <3>3 DEF TypeOK
  <2>4. QED
    BY <1>3, <2>2, <2>3 DEF EmbedFails
<1>4. QED
  BY <1>2, <1>3

LEMMA StoreTyped ==
    ASSUME TypeOK, StoreSucceeds \/ \E after \in StoreStops : StoreFails(after) PROVE TypeOK'
<1>1. HasWork /\ UNCHANGED <<docType, gone>>
  BY DEF StoreSucceeds, StoreFails, At, HasWork
<1>2. faults' \in 0..MaxFaults
  BY FaultTyped DEF StoreSucceeds, StoreFails
<1>3. Doc \in Docs /\ stored \in [Docs -> Holdings] /\ stored[Doc] \in Holdings
  BY <1>1, HeadTyped DEF TypeOK
<1>4. stored' \in [Docs -> Holdings] /\ \E w \in BOOLEAN : Commit(w)
  <2>1. CASE StoreSucceeds
    <3>1. stored' = [stored EXCEPT ![Doc] = Finished(stored[Doc])]
      BY <2>1 DEF StoreSucceeds
    <3>2. "begun" \in StoreStops
      BY DEF StoreStops
    <3>3. Finished(stored[Doc]) \in Holdings
      BY <1>3, <3>2, LeftTyped
    <3>4. Commit(TRUE)
      BY <2>1 DEF StoreSucceeds
    <3>5. QED
      BY <1>3, <3>1, <3>3, <3>4
  <2>2. ASSUME NEW after \in StoreStops, StoreFails(after)
        PROVE  stored' \in [Docs -> Holdings] /\ \E w \in BOOLEAN : Commit(w)
    <3>1. stored' = [stored EXCEPT ![Doc] = Left(stored[Doc], after)]
      BY <2>2 DEF StoreFails
    <3>2. Left(stored[Doc], after) \in Holdings
      BY <1>3, LeftTyped
    <3>3. Commit(WroteRows(after))
      BY <2>2 DEF StoreFails
    <3>4. \E w \in BOOLEAN : Commit(w)
      <4>1. WroteRows(after) \in BOOLEAN
        BY DEF WroteRows
      <4>2. QED
        BY <3>3, <4>1, Zenon
    <3>5. QED
      BY <1>3, <3>1, <3>2, <3>4
  <2>3. QED
    BY <2>1, <2>2
<1>5. QED
  BY <1>1, <1>2, <1>4, CommitTyped DEF TypeOK, ChunkRecord

LEMMA CrashTyped == ASSUME TypeOK, Crash PROVE TypeOK'
<1>1. PICK after \in StoreStops :
         /\ stored' = [stored EXCEPT ![Doc] = Left(@, after)]
         /\ wrote' = IF inline = None THEN wrote ELSE [wrote EXCEPT ![Doc] = WroteRows(after)]
  BY DEF Crash
<1>2. Doc \in Docs
  BY HeadTyped DEF Crash, At, HasWork
<1>3. stored' \in [Docs -> Holdings]
  BY <1>1, <1>2, LeftTyped DEF TypeOK
<1>4. wrote' \in [Docs -> BOOLEAN]
  <2>1. WroteRows(after) \in BOOLEAN
    BY DEF WroteRows
  <2>2. QED
    BY <1>1, <2>1, Zenon DEF TypeOK
<1>5. QED
  BY <1>3, <1>4, IngestionAssumption DEF Crash, EndJob, Fault, TypeOK

\* Every round publishes some of what it has selected.
LEMMA ReconciliationRound ==
    ASSUME TypeOK, RunOnce \/ RunOnceFails
    PROVE  \E q \in Selections, n \in Nat : n \in 0..Len(q) /\ Requeue(q, n)
<1>1. CASE RunOnce
  <2>1. PICK q \in Selections : Requeue(q, Len(q))
    BY <1>1 DEF RunOnce
  <2>2. Len(q) \in Nat
    <3>1. IsFiniteSet(StaleDocs)
      BY IngestionAssumption, FS_Subset DEF StaleDocs
    <3>2. Least(Limit, Cardinality(StaleDocs)) \in Nat
      BY <3>1, FS_CardinalityType, IngestionAssumption DEF Least
    <3>3. QED
      BY <3>2 DEF Selections
  <2>3. QED
    BY <2>1, <2>2
<1>2. CASE RunOnceFails
  BY <1>2 DEF RunOnceFails
<1>3. QED
  BY <1>1, <1>2

LEMMA ReconciliationTyped == ASSUME TypeOK, RunOnce \/ RunOnceFails PROVE TypeOK'
<1>1. PICK q \in Selections, n \in Nat : n \in 0..Len(q) /\ Requeue(q, n)
  BY ReconciliationRound
<1>2. topic' \in Seq(Message) /\ UNCHANGED <<docType, gone, job, stored, wrote>>
  BY <1>1, RequeueTyped DEF Requeue
<1>3. faults' \in 0..MaxFaults
  BY FaultTyped DEF RunOnce, RunOnceFails
<1>4. QED
  BY <1>2, <1>3 DEF TypeOK, job

LEMMA TypeStep == ASSUME TypeOK, [Next]_vars PROVE TypeOK'
<1>1. CASE Job
  BY <1>1, FetchTyped, FetchFailsTyped, ParseTyped, EmbedTyped, StoreTyped DEF Job
<1>2. ASSUME NEW d \in Docs, Submit(d) PROVE TypeOK'
  <2>1. [doc |-> d, retry |-> 0] \in Message
    BY IngestionAssumption DEF Message
  <2>2. topic' \in Seq(Message)
    BY <1>2, <2>1 DEF Submit, TypeOK
  <2>3. QED
    BY <1>2, <2>2 DEF Submit, TypeOK, job
<1>3. ASSUME NEW d \in Docs, Vanish(d) PROVE TypeOK'
  BY <1>3 DEF Vanish, TypeOK, job
<1>4. CASE UNCHANGED vars
  BY <1>4 DEF vars, TypeOK
<1>5. QED
  BY <1>1, <1>2, <1>3, <1>4, CrashTyped, InlineTyped, ReconciliationTyped DEF Next

\* Every handler, of the worker, the embedding service and the reconciliation,
\* leaves the job's local variables, the topic and the stores in their types.
THEOREM TypeCorrect == Spec => []TypeOK
<1>1. TypeOK /\ [Next]_vars => TypeOK'
  BY TypeStep
<1>2. QED
  BY <1>1, TypeInit, PTL DEF Spec

-----------------------------------------------------------------------------
(* The chunks of the job. *)

\* A job that has begun has its document, and between the chunker and the store
\* its chunks are those of a text that is not blank.
ContentInv ==
    /\ step # "idle" => HasWork
    /\ step \in {"idle", "parse"} => chunks = <<>>
    /\ step \in {"embed", "store"} =>
        /\ chunks = Chunked(raw, docType[Doc], Title)
        /\ ~Blank(Tokens(raw, Parsed(raw, docType[Doc]).parts))

LEMMA ContentInit == Init => ContentInv
  BY DEF Init, ContentInv

LEMMA EndJobContent == ASSUME EndJob PROVE ContentInv'
  BY DEF EndJob, ContentInv

\* What is published goes behind the message of the job.
LEMMA SameJob ==
    ASSUME TypeOK, ContentInv, UNCHANGED <<docType, inline, step, raw, chunks>>,
           NEW more \in Seq(Message), topic' = topic \o more
    PROVE  ContentInv'
<1>1. CASE step = "idle"
  BY <1>1 DEF ContentInv
<1>2. CASE step # "idle"
  <2>1. HasWork
    BY <1>2 DEF ContentInv
  <2>2. topic # <<>> => topic' # <<>> /\ topic'[1] = topic[1]
    BY DEF TypeOK
  <2>3. HasWork' /\ Doc' = Doc /\ Title' = Title
    BY <2>1, <2>2 DEF HasWork, Doc, Title
  <2>4. QED
    BY <1>2, <2>3 DEF ContentInv
<1>3. QED
  BY <1>1, <1>2

\* A blank text is refused: by a worker as too short, by the API for want of chunks.
LEMMA BlankRefused ==
    ASSUME NEW s, NEW type, Blank(Tokens(s, Parsed(s, type).parts)) PROVE Refused(s, type)
<1>1. CASE inline = None
  <2>1. TooShort(s, type)
    BY DEF Blank, TooShort
  <2>2. QED
    BY <1>1, <2>1 DEF Refused
<1>2. CASE inline # None
  BY <1>2 DEF Refused, Chunked
<1>3. QED
  BY <1>1, <1>2

LEMMA ParseContent == ASSUME TypeOK, ContentInv, ParseAndChunk PROVE ContentInv'
<1>1. CASE Refused(raw, docType[Doc])
  BY <1>1, EndJobContent DEF ParseAndChunk, Commit
<1>2. CASE ~Refused(raw, docType[Doc])
  <2>1. /\ step' = "embed" /\ chunks' = Chunked(raw, docType[Doc], Title)
        /\ UNCHANGED <<docType, topic, inline, raw>> /\ HasWork
    BY <1>2 DEF ParseAndChunk, At, HasWork
  <2>2. Doc' = Doc /\ HasWork' /\ Title' = Title
    BY <2>1 DEF Doc, HasWork, Title
  <2>3. ~Blank(Tokens(raw, Parsed(raw, docType[Doc]).parts))
    BY <1>2, BlankRefused
  <2>4. QED
    BY <2>1, <2>2, <2>3 DEF ContentInv
<1>3. QED
  BY <1>1, <1>2

LEMMA ContentStep == ASSUME TypeOK, ContentInv, [Next]_vars PROVE ContentInv'
<1>1. ASSUME UNCHANGED <<docType, topic, inline, step, raw, chunks>> PROVE ContentInv'
  <2>1. Doc' = Doc /\ (HasWork' <=> HasWork) /\ Title' = Title
    BY <1>1 DEF Doc, HasWork, Title
  <2>2. QED
    BY <1>1, <2>1 DEF ContentInv
<1>2. CASE Fetch
  BY <1>2 DEF Fetch, At, HasWork, ContentInv
<1>3. ASSUME NEW d \in Docs, Inline(d) PROVE ContentInv'
  BY <1>3, IngestionAssumption DEF Inline, HasWork, ContentInv
<1>4. CASE FetchFailsTransiently
  <2>1. step = "idle"
    BY <1>4 DEF FetchFailsTransiently, At
  <2>2. CASE UNCHANGED job
    BY <2>1, <2>2 DEF job, ContentInv
  <2>3. CASE Commit(FALSE)
    BY <2>3, EndJobContent DEF Commit
  <2>4. QED
    BY <1>4, <2>2, <2>3 DEF FetchFailsTransiently
<1>5. CASE FetchFailsForGood
  BY <1>5, EndJobContent DEF FetchFailsForGood, Commit
<1>6. CASE EmbedBatch
  <2>1. /\ step = "embed" /\ step' \in {"embed", "store"}
        /\ UNCHANGED <<docType, topic, inline, raw, chunks>>
    BY <1>6 DEF EmbedBatch, At
  <2>2. Doc' = Doc /\ (HasWork' <=> HasWork) /\ Title' = Title
    BY <2>1 DEF Doc, HasWork, Title
  <2>3. QED
    BY <2>1, <2>2 DEF ContentInv
<1>7. CASE EmbedFails
  <2>1. CASE Commit(FALSE)
    BY <2>1, EndJobContent DEF Commit
  <2>2. CASE UNCHANGED <<docType, topic, inline, step, raw, chunks>>
    BY <1>1, <2>2
  <2>3. QED
    BY <1>7, <2>1, <2>2 DEF EmbedFails
<1>8. CASE StoreSucceeds \/ \E after \in StoreStops : StoreFails(after)
  BY <1>8, EndJobContent DEF StoreSucceeds, StoreFails, Commit
<1>9. CASE Crash
  BY <1>9, EndJobContent DEF Crash
<1>10. CASE RunOnce \/ RunOnceFails
  <2>1. PICK q \in Selections, n \in Nat : n \in 0..Len(q) /\ Requeue(q, n)
    BY <1>10, ReconciliationRound
  <2>2. [i \in 1..n |-> [doc |-> q[i], retry |-> 0]] \in Seq(Message)
    BY <2>1, RequeueTyped
  <2>3. QED
    BY <2>1, <2>2, SameJob DEF Requeue, job
<1>11. ASSUME NEW d \in Docs, Submit(d) PROVE ContentInv'
  <2>1. [doc |-> d, retry |-> 0] \in Message
    BY IngestionAssumption DEF Message
  <2>2. <<[doc |-> d, retry |-> 0]>> \in Seq(Message)
        /\ topic' = topic \o <<[doc |-> d, retry |-> 0]>>
    BY <1>11, <2>1 DEF Submit, TypeOK
  <2>3. QED
    BY <1>11, <2>2, SameJob DEF Submit, job
<1>12. ASSUME NEW d \in Docs, Vanish(d) PROVE ContentInv'
  BY <1>1, <1>12 DEF Vanish, job
<1>13. CASE UNCHANGED vars
  BY <1>1, <1>13 DEF vars
<1>14. QED
  BY <1>2, <1>3, <1>4, <1>5, <1>6, <1>7, <1>8, <1>9, <1>10, <1>11, <1>12, <1>13, ParseContent
  DEF Next, Job

\* The chunks between the chunker and the store, and what ChunkedFacts says of them.
LEMMA ContentFacts ==
    ASSUME TypeOK, ContentInv, step \in {"embed", "store"}
    PROVE  LET type == docType[Doc]
               doc == Parsed(raw, type)
           IN  /\ chunks \in Seq(ChunkRecord) /\ Len(chunks) >= 1 /\ Tree(chunks)
               /\ \A k \in 1..Len(chunks) : SizeFits(chunks[k], raw, type, Title)
               /\ \A t \in ToSet(Tokens(raw, doc.parts)) :
                     Covered(chunks, t) \/ MayBeLost(t, raw, doc)
<1>1. raw \in Seq(Element)
  BY DEF TypeOK
<1>2. QED
  BY <1>1, ChunkedFacts, TitleTyped DEF ContentInv

\* Chunks as the properties see them.
LEMMA ChunksOf ==
    ASSUME NEW c, c = chunks, c \in Seq(ChunkRecord)
    PROVE  /\ DOMAIN c = 1..Len(c) /\ Chunks = {c[k] : k \in 1..Len(c)}
           /\ \A t : Covered(c, t) => t \in TokensIn(Chunks)
  BY DEF Chunks, TokensIn, Covered

\* Whatever a document consists of, and in whatever order, no chunker leaves out
\* any of it but blank space and what MayBeLost names, and what passes the length
\* check has chunks (_chunk() of the workers, the three classes of chunking/).
THEOREM NothingIsLost == Spec => []NothingLost
<1>1. TypeOK /\ ContentInv /\ [Next]_vars => ContentInv'
  BY ContentStep
<1>2. TypeOK /\ ContentInv => NothingLost
  <2>1. SUFFICES ASSUME TypeOK, ContentInv, At("embed") PROVE NothingLost
    BY DEF NothingLost
  <2>2. step \in {"embed", "store"}
    BY <2>1 DEF At
  <2>3. /\ chunks \in Seq(ChunkRecord) /\ Len(chunks) >= 1
        /\ \A t \in ToSet(Tokens(raw, Parsed(raw, docType[Doc]).parts)) :
              Covered(chunks, t) \/ MayBeLost(t, raw, Parsed(raw, docType[Doc]))
    BY <2>1, <2>2, ContentFacts
  <2>4. chunks # <<>>
    BY <2>3
  <2>5. QED
    BY <2>3, <2>4, ChunksOf DEF NothingLost
<1>3. QED
  BY <1>1, <1>2, TypeCorrect, ContentInit, PTL DEF Spec

\* The list of a hierarchical document is a tree in the order its rows are
\* inserted: a parent comes before its children, one level above, and holds their
\* tokens unless it was cut (HierarchicalChunker.chunk(), _insert_chunks()).
THEOREM ParentsComeFirst == Spec => []ParentsHoldTheirChildren
<1>1. TypeOK /\ ContentInv /\ [Next]_vars => ContentInv'
  BY ContentStep
<1>2. TypeOK /\ ContentInv => ParentsHoldTheirChildren
  <2>1. SUFFICES ASSUME TypeOK, ContentInv PROVE ParentsHoldTheirChildren
    OBVIOUS
  <2>2. CASE step \in {"idle", "parse"}
    <3>1. chunks = <<>>
      BY <2>1, <2>2 DEF ContentInv
    <3>2. DOMAIN chunks = {}
      BY <3>1
    <3>3. QED
      BY <3>2 DEF ParentsHoldTheirChildren
  <2>3. CASE step \in {"embed", "store"}
    <3>1. chunks \in Seq(ChunkRecord) /\ Tree(chunks)
      BY <2>1, <2>3, ContentFacts
    <3>2. DOMAIN chunks = 1..Len(chunks)
      BY <3>1
    <3>3. QED
      BY <3>1, <3>2 DEF Tree, ParentsHoldTheirChildren
  <2>4. QED
    BY <2>1, <2>2, <2>3 DEF TypeOK
<1>3. QED
  BY <1>1, <1>2, TypeCorrect, ContentInit, PTL DEF Spec

\* A chunk is longer than its setting allows for two reasons only: in a semantic
\* document, as the whole of its only sentence or as one topic that
\* _merge_segments() put into a buffer it had just emptied; and as the summary of
\* a hierarchical one, by the titles that _summarize_document() puts above a
\* preview of its size.
THEOREM OversizedIsTopicOrTitles == Spec => []OversizedOnlyByTopicOrTitles
<1>1. TypeOK /\ ContentInv /\ [Next]_vars => ContentInv'
  BY ContentStep
<1>2. TypeOK /\ ContentInv => OversizedOnlyByTopicOrTitles
  <2>1. SUFFICES ASSUME TypeOK, ContentInv, At("embed") PROVE OversizedOnlyByTopicOrTitles
    BY DEF OversizedOnlyByTopicOrTitles
  <2>2. step \in {"embed", "store"}
    BY <2>1 DEF At
  <2>3. /\ chunks \in Seq(ChunkRecord)
        /\ \A k \in 1..Len(chunks) : SizeFits(chunks[k], raw, docType[Doc], Title)
    BY <2>1, <2>2, ContentFacts
  <2>4. \A c \in Chunks : SizeFits(c, raw, docType[Doc], Title)
    BY <2>3, ChunksOf
  <2>5. QED
    BY <2>4 DEF SizeFits, OversizedOnlyByTopicOrTitles
<1>3. QED
  BY <1>1, <1>2, TypeCorrect, ContentInit, PTL DEF Spec

-----------------------------------------------------------------------------
(* Vectors. *)

\* The chunks that count as embedded have the vectors of their own texts,
\* wherever the rest of a failed batch has left its vectors.
EmbedInv ==
    /\ step \in {"idle", "parse"} => done = 0
    /\ step \in {"embed", "store"} =>
        /\ Len(vectors) = Len(chunks)
        /\ done <= Len(chunks)
        /\ \A i \in 1..done : vectors[i] = i
        /\ step = "store" => done = Len(chunks)

LEMMA EmbedInvInit == Init => EmbedInv
  BY DEF Init, EmbedInv

\* A job that ends has embedded nothing.
LEMMA EndJobEmbeds == ASSUME EndJob PROVE EmbedInv'
  BY DEF EndJob, EmbedInv

LEMMA ParseEmbeds ==
    ASSUME TypeOK, EmbedInv, ParseAndChunk PROVE EmbedInv'
<1>1. CASE Commit(FALSE)
  BY <1>1, EndJobEmbeds DEF Commit
<1>2. CASE /\ step' = "embed" /\ vectors' = [i \in DOMAIN chunks' |-> None]
           /\ UNCHANGED done
  <2>1. chunks' \in Seq(ChunkRecord)
    BY ParseTyped DEF TypeOK, ChunkRecord
  <2>2. Len(chunks') \in Nat /\ DOMAIN chunks' = 1..Len(chunks')
    BY <2>1
  <2>3. Len(vectors') = Len(chunks')
    BY <1>2, <2>2
  <2>4. done' = 0
    BY <1>2 DEF ParseAndChunk, At, EmbedInv
  <2>5. QED
    BY <1>2, <2>2, <2>3, <2>4 DEF EmbedInv
<1>3. QED
  BY <1>1, <1>2 DEF ParseAndChunk

\* What a sequence of vectors is, in the terms of the proofs below.
LEMMA VectorsTyped ==
    ASSUME TypeOK
    PROVE  Len(vectors) \in Nat /\ DOMAIN vectors = 1..Len(vectors)
<1> DEFINE V == Nat \cup {None}
<1>1. vectors \in Seq(V)
  BY DEF TypeOK
<1> HIDE DEF V
<1>2. QED
  BY <1>1

LEMMA BatchEmbeds == ASSUME TypeOK, EmbedInv, EmbedBatch PROVE EmbedInv'
<1>1. /\ Len(vectors) = Len(chunks) /\ done \in Nat /\ done <= Len(chunks)
      /\ \A i \in 1..done : vectors[i] = i
  BY DEF EmbedBatch, At, EmbedInv, TypeOK
<1>2. /\ vectors' = [i \in 1..Len(chunks) |-> IF InBatch(i) THEN i ELSE vectors[i]]
      /\ Len(vectors') = Len(chunks) /\ chunks' = chunks
  BY <1>1, VectorsTyped, BatchEndTyped DEF EmbedBatch
<1>3. \A i \in 1..BatchEnd : vectors'[i] = i
  <2>1. TAKE i \in 1..BatchEnd
  <2>2. i \in 1..Len(chunks)
    BY BatchEndTyped
  <2>3. CASE i <= done
    BY <1>1, <1>2, <2>2, <2>3 DEF InBatch
  <2>4. CASE ~(i <= done)
    BY <1>1, <1>2, <2>2, <2>4, BatchEndTyped DEF InBatch
  <2>5. QED
    BY <2>3, <2>4
<1>4. QED
  BY <1>2, <1>3, BatchEndTyped DEF EmbedBatch, EmbedInv

LEMMA FailureEmbeds == ASSUME TypeOK, EmbedInv, EmbedFails PROVE EmbedInv'
<1>1. CASE Commit(FALSE)
  BY <1>1, EndJobEmbeds DEF Commit
<1>2. CASE /\ done' = DoneAfterFailure /\ UNCHANGED <<step, chunks>>
           /\ \/ UNCHANGED vectors
              \/ \E k \in DOMAIN vectors : InBatch(k) /\ vectors' = Misplaced(k)
  <2>1. /\ Len(vectors) = Len(chunks) /\ done \in Nat /\ done <= Len(chunks)
        /\ \A i \in 1..done : vectors[i] = i
    BY DEF EmbedFails, At, EmbedInv, TypeOK
  <2>2. ASSUME NEW k \in DOMAIN vectors, vectors' = Misplaced(k)
        PROVE  Len(vectors') = Len(chunks) /\ \A i \in 1..done : vectors'[i] = i
    <3>1. /\ Len(vectors') = Len(chunks)
          /\ \A i \in 1..Len(chunks) : ~InBatch(i) => vectors'[i] = vectors[i]
      BY <2>1, <2>2, VectorsTyped, BatchEndTyped DEF Misplaced
    <3>2. \A i \in 1..done : i \in 1..Len(chunks) /\ ~InBatch(i)
      BY <2>1, BatchEndTyped DEF InBatch
    <3>3. QED
      BY <2>1, <3>1, <3>2
  <2>3. Len(vectors') = Len(chunks) /\ \A i \in 1..done : vectors'[i] = i
    BY <1>2, <2>1, <2>2
  <2>4. QED
    BY <1>2, <2>1, <2>3 DEF EmbedFails, At, DoneAfterFailure, EmbedInv
<1>3. QED
  BY <1>1, <1>2 DEF EmbedFails

LEMMA EmbedInvStep ==
    ASSUME TypeOK, EmbedInv, [Next]_vars PROVE EmbedInv'
<1>1. ASSUME UNCHANGED <<step, chunks, vectors, done>> PROVE EmbedInv'
  BY <1>1 DEF EmbedInv
<1>2. CASE Fetch \/ \E d \in Docs : Inline(d)
  BY <1>2 DEF Fetch, Inline, At, EmbedInv
<1>3. CASE FetchFailsTransiently \/ FetchFailsForGood
  BY <1>1, <1>3, EndJobEmbeds DEF FetchFailsTransiently, FetchFailsForGood, Commit, job
<1>4. CASE StoreSucceeds \/ \E after \in StoreStops : StoreFails(after)
  BY <1>4, EndJobEmbeds DEF StoreSucceeds, StoreFails, Commit
<1>5. CASE Crash
  BY <1>5, EndJobEmbeds DEF Crash
<1>6. CASE RunOnce \/ RunOnceFails
  BY <1>1, <1>6 DEF RunOnce, RunOnceFails, Requeue, job
<1>7. CASE \E d \in Docs : Submit(d) \/ Vanish(d)
  BY <1>1, <1>7 DEF Submit, Vanish, job
<1>8. CASE UNCHANGED vars
  BY <1>1, <1>8 DEF vars
<1>9. QED
  BY <1>2, <1>3, <1>4, <1>5, <1>6, <1>7, <1>8, ParseEmbeds, BatchEmbeds, FailureEmbeds
  DEF Next, Job

\* When the store begins, the chunks are embedded to the last one, each with the
\* vector of its own text, whatever batches failed or came back short before
\* (embed_chunks(), _embed_batch_with_retry()).
THEOREM OwnVectorsStored == Spec => []OwnVectors
<1>1. TypeOK /\ EmbedInv /\ [Next]_vars => EmbedInv'
  BY EmbedInvStep
<1>2. TypeOK /\ EmbedInv => OwnVectors
  <2>1. SUFFICES ASSUME TypeOK, EmbedInv, At("store") PROVE OwnVectors
    BY DEF OwnVectors
  <2>2. Len(vectors) = Len(chunks) /\ \A i \in 1..Len(vectors) : vectors[i] = i
    BY <2>1 DEF EmbedInv, At
  <2>3. QED
    BY <2>1, <2>2, VectorsTyped DEF OwnVectors
<1>3. QED
  BY <1>1, <1>2, TypeCorrect, EmbedInvInit, PTL DEF Spec

-----------------------------------------------------------------------------
(* What the reconciliation finds. *)

\* What a search finds of an unfinished document has rows that are pending, and
\* a whole version has rows that are 'indexed'.
HoldingsFit(h) ==
    /\ h.shown \in {"part", "mixture"} => h.pending
    /\ h.shown = "whole" => h.live

Reconcilable(d) ==
    /\ HoldingsFit(stored[d])
    /\ Idle(d) /\ stored[d].shown # "whole" /\ ~stored[d].pending => ~wrote[d]

PendingInv == \A d \in Docs : Reconcilable(d)

LEMMA PendingInit == Init => PendingInv
  BY DEF Init, PendingInv, Reconcilable, HoldingsFit

\* Wherever a store stops, the rows fit what a search finds.
LEMMA StopsFit ==
    ASSUME NEW h \in Holdings, HoldingsFit(h)
    PROVE  /\ HoldingsFit(Finished(h))
           /\ Finished(h).shown = "whole" \/ Finished(h).pending
           /\ \A after \in StoreStops :
                 /\ HoldingsFit(Left(h, after))
                 /\ WroteRows(after) => Left(h, after).pending
<1> DEFINE r == Replaced(h)
<1>1. /\ r \in Holdings
      /\ r.shown = "nothing" \/ r.pending
      /\ r.shown # "whole" /\ HoldingsFit(r)
  <2>1. CASE h.live
    BY <2>1 DEF Replaced, Retired, Holdings, HoldingsFit
  <2>2. CASE ~h.live
    BY <2>2 DEF Replaced, Holdings, HoldingsFit
  <2>3. QED
    BY <2>1, <2>2
<1>2. /\ Written(r) \in Holdings /\ Written(r).pending /\ Written(r).shown = r.shown
      /\ HoldingsFit(Written(r))
  BY <1>1 DEF Written, Holdings, HoldingsFit
<1>3. /\ Shows(Written(r), "part").pending
      /\ HoldingsFit(Shows(Written(r), "part"))
  BY <1>1, <1>2 DEF Shows, Holdings, HoldingsFit
<1>4. ASSUME h.live PROVE HoldingsFit([h EXCEPT !.shown = "nothing"])
  BY DEF Holdings, HoldingsFit
<1>5. /\ HoldingsFit(Finished(h))
      /\ Finished(h).shown = "whole" \/ Finished(h).pending
  <2> HIDE DEF r
  <2>1. Finished(h) = [Shows(r, "whole") EXCEPT !.live = TRUE]
    BY DEF Finished, r
  <2>2. QED
    BY <1>1, <2>1 DEF Shows, Holdings, HoldingsFit
<1>6. ASSUME NEW after \in StoreStops
      PROVE  /\ HoldingsFit(Left(h, after))
             /\ WroteRows(after) => Left(h, after).pending
  <2> HIDE DEF r
  <2>1. CASE after = "begun"
    BY <2>1 DEF Left, WroteRows
  <2>2. CASE after = "deleted"
    BY <1>4, <2>2 DEF Left, WroteRows
  <2>3. CASE after = "retired"
    BY <1>1, <2>3 DEF Left, WroteRows, r
  <2>4. CASE after = "written"
    BY <1>2, <2>4 DEF Left, WroteRows, r
  <2>5. CASE after = "upserted"
    BY <1>3, <2>5 DEF Left, WroteRows, r
  <2>6. QED
    BY <2>1, <2>2, <2>3, <2>4, <2>5 DEF StoreStops
<1>7. QED
  BY <1>5, <1>6

\* A document that nobody works on when a job has ended had no work before,
\* unless the job was its.
LEMMA IdleBefore ==
    ASSUME TypeOK, HasWork, NEW d \in Docs, d # Doc,
           topic' = IF inline = None THEN Tail(topic) ELSE topic, Idle(d)'
    PROVE  Idle(d)
<1>1. CASE inline = None
  <2>1. topic' \in Seq(Message) /\ topic # <<>> /\ topic' = Tail(topic) /\ Doc = topic[1].doc
    BY <1>1, HeadTyped DEF HasWork, Doc
  <2>2. \A i \in 1..Len(topic') : topic'[i].doc # d
    <3>1. DOMAIN topic' = 1..Len(topic')
      BY <2>1
    <3>2. QED
      BY <3>1 DEF Idle
  <2>3. ASSUME NEW i \in 1..Len(topic) PROVE topic[i].doc # d
    <3>1. CASE i = 1
      BY <2>1, <3>1
    <3>2. CASE i # 1
      <4>1. topic \in Seq(Message)
        BY DEF TypeOK
      <4>2. i - 1 \in 1..Len(topic') /\ topic'[i - 1] = topic[i]
        BY <2>1, <3>2, <4>1
      <4>3. QED
        BY <2>2, <4>2
    <3>3. QED
      BY <3>1, <3>2
  <2>4. QED
    BY <1>1, <2>3, IngestionAssumption DEF Idle, TypeOK
<1>2. CASE inline # None
  BY <1>2 DEF Idle, Doc
<1>3. QED
  BY <1>1, <1>2

\* What is behind the first message stays, so does the message if it is put last.
LEMMA IdleBeforeMore ==
    ASSUME TypeOK, NEW d \in Docs, NEW more \in Seq(Message),
           topic' = topic \o more, inline' = inline, Idle(d)'
    PROVE  Idle(d)
<1>1. topic \in Seq(Message)
  BY DEF TypeOK
<1>2. \A i \in 1..Len(topic) : i \in DOMAIN topic' /\ topic'[i] = topic[i]
  BY <1>1
<1>3. \A i \in DOMAIN topic' : topic'[i].doc # d
  BY DEF Idle
<1>4. \A i \in 1..Len(topic) : topic[i].doc # d
  BY <1>2, <1>3
<1>5. DOMAIN topic = 1..Len(topic)
  BY <1>1
<1>6. QED
  BY <1>4, <1>5 DEF Idle

LEMMA IdleBeforeRetry ==
    ASSUME TypeOK, topic # <<>>, NEW d \in Docs, NEW m \in Message, m.doc = topic[1].doc,
           topic' = Append(Tail(topic), m), inline' = inline, Idle(d)'
    PROVE  Idle(d)
<1>1. topic \in Seq(Message)
  BY DEF TypeOK
<1>2. /\ Len(topic) \in DOMAIN topic' /\ topic'[Len(topic)] = m
      /\ \A i \in 2..Len(topic) : i - 1 \in DOMAIN topic' /\ topic'[i - 1] = topic[i]
  BY <1>1
<1>3. \A i \in DOMAIN topic' : topic'[i].doc # d
  BY DEF Idle
<1>4. \A i \in 1..Len(topic) : topic[i].doc # d
  <2>1. TAKE i \in 1..Len(topic)
  <2>2. CASE i = 1
    BY <1>2, <1>3, <2>2
  <2>3. CASE i # 1
    <3>1. i \in 2..Len(topic)
      BY <1>1, <2>3
    <3>2. QED
      BY <1>2, <1>3, <3>1
  <2>4. QED
    BY <2>2, <2>3
<1>5. DOMAIN topic = 1..Len(topic)
  BY <1>1
<1>6. QED
  BY <1>4, <1>5 DEF Idle

\* A job that ends without a store.
LEMMA CommitPending ==
    ASSUME TypeOK, PendingInv, HasWork, Commit(FALSE), UNCHANGED stored
    PROVE  PendingInv'
<1>1. SUFFICES ASSUME NEW d \in Docs PROVE Reconcilable(d)'
  BY DEF PendingInv
<1>2. CASE d = Doc
  BY <1>2, HeadTyped DEF Commit, TypeOK, PendingInv, Reconcilable
<1>3. CASE d # Doc
  BY <1>3, IdleBefore DEF Commit, TypeOK, PendingInv, Reconcilable
<1>4. QED
  BY <1>2, <1>3

\* A job that ends with a store, which leaves h and has written if w.
LEMMA StoredPending ==
    ASSUME TypeOK, PendingInv, HasWork, NEW h, NEW w \in BOOLEAN,
           stored' = [stored EXCEPT ![Doc] = h], Commit(w),
           HoldingsFit(h), h.shown # "whole" /\ ~h.pending => ~w
    PROVE  PendingInv'
<1>1. SUFFICES ASSUME NEW d \in Docs PROVE Reconcilable(d)'
  BY DEF PendingInv
<1>2. CASE d = Doc
  <2>1. stored'[d] = h /\ wrote'[d] = w
    BY <1>2 DEF Commit, TypeOK
  <2>2. QED
    BY <2>1, Zenon DEF Reconcilable
<1>3. CASE d # Doc
  <2>1. /\ stored'[d] = stored[d] /\ wrote'[d] = wrote[d]
        /\ Idle(d)' => Idle(d)
    BY <1>3, IdleBefore DEF Commit, TypeOK
  <2>2. Reconcilable(d)
    BY DEF PendingInv
  <2>3. QED
    BY <2>1, <2>2, Zenon DEF Reconcilable
<1>4. QED
  BY <1>2, <1>3

LEMMA StorePending ==
    ASSUME TypeOK, PendingInv, StoreSucceeds \/ \E after \in StoreStops : StoreFails(after)
    PROVE  PendingInv'
<1>1. HasWork /\ Doc \in Docs /\ stored[Doc] \in Holdings /\ HoldingsFit(stored[Doc])
  <2>1. HasWork
    BY DEF StoreSucceeds, StoreFails, At, HasWork
  <2>2. QED
    BY <2>1, HeadTyped DEF TypeOK, PendingInv, Reconcilable
<1>2. CASE StoreSucceeds
  <2>1. stored' = [stored EXCEPT ![Doc] = Finished(stored[Doc])] /\ Commit(TRUE)
    BY <1>2 DEF StoreSucceeds
  <2>2. /\ HoldingsFit(Finished(stored[Doc]))
        /\ Finished(stored[Doc]).shown = "whole" \/ Finished(stored[Doc]).pending
    BY <1>1, StopsFit
  <2>3. QED
    BY <1>1, <2>1, <2>2, StoredPending
<1>3. ASSUME NEW after \in StoreStops, StoreFails(after) PROVE PendingInv'
  <2>1. /\ stored' = [stored EXCEPT ![Doc] = Left(stored[Doc], after)]
        /\ Commit(WroteRows(after))
    BY <1>3 DEF StoreFails
  <2>2. /\ HoldingsFit(Left(stored[Doc], after))
        /\ WroteRows(after) => Left(stored[Doc], after).pending
    BY <1>1, StopsFit
  <2>3. CASE WroteRows(after)
    <3>1. (WroteRows(after)) = TRUE
      BY <2>3
    <3>2. Commit(TRUE)
      BY <2>1, <3>1, Zenon
    <3>3. QED
      BY <1>1, <2>1, <2>2, <2>3, <3>2, StoredPending
  <2>4. CASE ~WroteRows(after)
    <3>1. (WroteRows(after)) = FALSE
      BY <2>4
    <3>2. Commit(FALSE)
      BY <2>1, <3>1, Zenon
    <3>3. QED
      BY <1>1, <2>1, <2>2, <3>2, StoredPending
  <2>5. QED
    BY <2>3, <2>4
<1>4. QED
  BY <1>2, <1>3

\* The message of the worker that dies is still in the topic; an upload is gone.
LEMMA CrashPending ==
    ASSUME TypeOK, PendingInv, Crash PROVE PendingInv'
<1>1. PICK after \in StoreStops :
         /\ stored' = [stored EXCEPT ![Doc] = Left(@, after)]
         /\ wrote' = IF inline = None THEN wrote ELSE [wrote EXCEPT ![Doc] = WroteRows(after)]
  BY DEF Crash
<1>2. HasWork /\ topic' = topic /\ topic \in Seq(Message) /\ inline' = None
  BY DEF Crash, At, HasWork, EndJob, TypeOK
<1>3. Doc \in Docs /\ stored[Doc] \in Holdings /\ HoldingsFit(stored[Doc])
  BY <1>2, HeadTyped DEF TypeOK, PendingInv, Reconcilable
<1>4. /\ HoldingsFit(Left(stored[Doc], after))
      /\ WroteRows(after) => Left(stored[Doc], after).pending
  BY <1>3, StopsFit
<1>5. SUFFICES ASSUME NEW d \in Docs PROVE Reconcilable(d)'
  BY DEF PendingInv
<1>6. CASE d = Doc
  <2>1. stored'[d] = Left(stored[Doc], after)
    BY <1>1, <1>3, <1>6 DEF TypeOK
  <2>2. CASE inline = None
    <3>1. ~Idle(d)'
      BY <1>2, <1>6, <2>2 DEF HasWork, Idle, Doc
    <3>2. QED
      BY <1>4, <2>1, <3>1 DEF Reconcilable
  <2>3. CASE inline # None
    <3>1. wrote'[d] = WroteRows(after)
      BY <1>1, <1>3, <1>6, <2>3, Zenon DEF TypeOK
    <3>2. QED
      BY <1>4, <2>1, <3>1, Zenon DEF Reconcilable
  <2>4. QED
    BY <2>2, <2>3
<1>7. CASE d # Doc
  <2>1. stored'[d] = stored[d] /\ wrote'[d] = wrote[d]
    BY <1>1, <1>7 DEF TypeOK
  <2>2. Idle(d)' => Idle(d)
    BY <1>2, <1>7, IngestionAssumption DEF Idle, Doc
  <2>3. Reconcilable(d)
    BY DEF PendingInv
  <2>4. QED
    BY <2>1, <2>2, <2>3, Zenon DEF Reconcilable
<1>8. QED
  BY <1>6, <1>7

LEMMA PendingStep == ASSUME TypeOK, PendingInv, [Next]_vars PROVE PendingInv'
<1>1. ASSUME UNCHANGED <<stored, wrote>>, \A d \in Docs : Idle(d)' => Idle(d)
      PROVE  PendingInv'
  BY <1>1 DEF PendingInv, Reconcilable
<1>2. ASSUME UNCHANGED <<stored, wrote, topic, inline>> PROVE PendingInv'
  BY <1>1, <1>2 DEF Idle
<1>3. ASSUME NEW more \in Seq(Message), topic' = topic \o more,
             UNCHANGED <<stored, wrote, inline>>
      PROVE  PendingInv'
  BY <1>1, <1>3, IdleBeforeMore
<1>4. CASE Fetch \/ EmbedBatch \/ UNCHANGED vars \/ \E d \in Docs : Vanish(d)
  BY <1>2, <1>4 DEF Fetch, EmbedBatch, vars, Vanish, job
<1>5. CASE FetchFailsTransiently
  <2>1. CASE MayRetry /\ topic' = Append(Tail(topic), [topic[1] EXCEPT !.retry = @ + 1])
             /\ UNCHANGED <<job, wrote>>
    <3>1. topic # <<>> /\ HasWork /\ UNCHANGED stored
      BY <1>5, IdleWorker DEF FetchFailsTransiently, HasWork
    <3>2. /\ [topic[1] EXCEPT !.retry = @ + 1] \in Message
          /\ [topic[1] EXCEPT !.retry = @ + 1].doc = topic[1].doc
      BY <2>1, <3>1, RetryTyped, HeadTyped DEF Message
    <3>3. QED
      BY <1>1, <2>1, <3>1, <3>2, IdleBeforeRetry DEF job
  <2>2. CASE Commit(FALSE)
    BY <1>5, <2>2, CommitPending DEF FetchFailsTransiently, At, HasWork
  <2>3. QED
    BY <1>5, <2>1, <2>2 DEF FetchFailsTransiently
<1>6. CASE FetchFailsForGood
  BY <1>6, CommitPending DEF FetchFailsForGood, At, HasWork
<1>7. CASE ParseAndChunk
  BY <1>2, <1>7, CommitPending DEF ParseAndChunk, At, HasWork
<1>8. CASE EmbedFails
  BY <1>2, <1>8, CommitPending DEF EmbedFails, At, HasWork
<1>9. CASE RunOnce \/ RunOnceFails
  <2>1. PICK q \in Selections, n \in Nat : n \in 0..Len(q) /\ Requeue(q, n)
    BY <1>9, ReconciliationRound
  <2>2. [i \in 1..n |-> [doc |-> q[i], retry |-> 0]] \in Seq(Message)
    BY <2>1, RequeueTyped
  <2>3. QED
    BY <1>3, <2>1, <2>2 DEF Requeue, job
<1>10. ASSUME NEW d \in Docs, Submit(d) PROVE PendingInv'
  <2>1. [doc |-> d, retry |-> 0] \in Message
    BY IngestionAssumption DEF Message
  <2>2. <<[doc |-> d, retry |-> 0]>> \in Seq(Message)
        /\ topic' = topic \o <<[doc |-> d, retry |-> 0]>>
    BY <1>10, <2>1 DEF Submit, TypeOK
  <2>3. QED
    BY <1>3, <1>10, <2>2 DEF Submit, job
<1>11. ASSUME NEW u \in Docs, Inline(u) PROVE PendingInv'
  <2>1. inline = None /\ UNCHANGED <<topic, stored, wrote>>
    BY <1>11 DEF Inline, TypeOK
  <2>2. ASSUME NEW d \in Docs PROVE Idle(d)' => Idle(d)
    BY <2>1, IngestionAssumption DEF Idle
  <2>3. QED
    BY <1>1, <2>1, <2>2
<1>12. QED
  BY <1>4, <1>5, <1>6, <1>7, <1>8, <1>9, <1>10, <1>11, StorePending, CrashPending DEF Next, Job

\* Whatever fails or dies, and wherever: a document that is not searchable as one
\* version, and that nobody is working on, has rows for _run_once() to find, or
\* its last job ended before _write_postgres_batch().
THEOREM UnfinishedStaysPending == Spec => []UnfinishedIsPending
<1>1. TypeOK /\ PendingInv /\ [Next]_vars => PendingInv'
  BY PendingStep
<1>2. PendingInv => UnfinishedIsPending
  BY DEF PendingInv, Reconcilable, UnfinishedIsPending
<1>3. QED
  BY <1>1, <1>2, TypeCorrect, PendingInit, PTL DEF Spec
=============================================================================
