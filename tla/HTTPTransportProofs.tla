------------------------- MODULE HTTPTransportProofs -------------------------
(***************************************************************************)
(* Proofs about the HTTP transport and its dictionary (HTTPTransport.tla)  *)
(* for every number of senders, all payloads, every size of dictionary and *)
(* every ingester that keeps to what the transport expects of it.          *)
(***************************************************************************)
EXTENDS HTTPTransport, FiniteSetTheorems, FunctionTheorems, SequenceTheorems, TLAPS

-----------------------------------------------------------------------------
(* The inductive invariant                                                 *)

\* The ids of a dictionary number its series from 0, without gaps or doubles.
DictOK(d) ==
  /\ d.session \in Nat /\ d.revision \in Nat
  /\ IsFiniteSet(DOMAIN d.ids) /\ DOMAIN d.ids \subseteq Series
  /\ \A x \in DOMAIN d.ids : d.ids[x] \in 0..(Size(d) - 1)
  /\ \A x, y \in DOMAIN d.ids : d.ids[x] = d.ids[y] => x = y

\* An id stands for one series.
Functional(series) == \A e, f \in series : e[1] = f[1] => e = f

\* Every header is a version of its session, and the current dictionary the last.
CodecInv ==
  /\ DictOK(dict)
  /\ \A h \in encoded :
       /\ h.session \in Nat /\ h.revision \in Nat /\ h.session <= dict.session
       /\ Functional(h.series)
       /\ h.session = dict.session =>
            /\ h.revision <= dict.revision
            /\ h.series \subseteq Header(dict).series
            /\ h.revision = dict.revision => h = Header(dict)
  /\ DictionaryVersioned

\* A definition of a session comes from one of its headers.
Defined(headers, session, e) ==
  \E h \in headers : h.session = session /\ e \in h.series

\* A body says what it means in the terms of one of its session's headers.
Backed(headers, b) ==
  /\ b.meant \in Seq(Series) /\ Len(b.refs) = Len(b.meant)
  /\ \A e \in b.defs : Defined(headers, b.session, e)
  /\ \A i \in 1..Len(b.meant) : Defined(headers, b.session, <<b.refs[i], b.meant[i]>>)

\* Requests on their way and the tables of the ingester know no other.
MessageInv ==
  /\ \A s \in Senders : pc[s] \in {"first", "resync"} => Backed(encoded, body[s])
  /\ \A m \in late : Backed(encoded, m[1])
  /\ \A session \in DOMAIN table : \A e \in table[session] : Defined(encoded, session, e)

Replies == {None, Accepted, Partial, Miss} \cup Refusals

SenderInv ==
  /\ reply \in [Senders -> Replies] /\ DOMAIN body = Senders
  /\ \A s \in Senders : pc[s] # "idle" => batch[s] # 0

Inv == TypeOK /\ SenderInv /\ CodecInv /\ MessageInv /\ ResyncSelfContained

\* A request that was made.
Issued(r) ==
  /\ r \in Nat \X Nat
  /\ r[1] \in 1..Len(batches) /\ r[2] \in 1..batches[r[1]].requests

\* Nothing of a request that was accepted is sent again.
Settled(r) ==
  /\ r[2] = batches[r[1]].requests
  /\ \A s \in Senders : r[1] \notin retries[s]

\* Each batch is its client's, and waits for a retry only after its verdict.
OwnerInv ==
  \A s \in Senders :
    /\ batch[s] # 0 => batches[batch[s]].by = s
    /\ \A n \in retries[s] :
         batches[n].by = s /\ (n = batch[s] => pc[s] = "retry")

\* The outstanding request is nobody else's, and accepted when its answer says so;
\* a batch that is about to be sent has no answer yet that it was accepted.
RequestInv ==
  /\ \A r \in accepted \cup unanswered : Issued(r)
  /\ \A m \in late : m[2] \in unanswered
  /\ \A r \in accepted : r \in unanswered \/ Settled(r)
  /\ \A s \in Senders :
       /\ pc[s] = "lock" =>
            \A r \in accepted : r[1] = batch[s] => r \in unanswered
       /\ pc[s] \in {"first", "resync"} =>
            /\ Issued(Request(s)) /\ Request(s) \notin unanswered
            /\ Request(s) \in accepted <=> reply[s] \in {Accepted, Partial}
       /\ pc[s] = "ok" => Request(s) \in accepted

ReplayInv == OwnerInv /\ RequestInv

-----------------------------------------------------------------------------
(* First uses                                                              *)

LEMMA LeastNat ==
  ASSUME NEW T, T \subseteq Nat, T # {}
  PROVE  \E m \in T : \A k \in T : m <= k
<1>1. \E m \in T : \A k \in T : ~(<<k, m>> \in OpToRel(<, Nat))
  BY NatLessThanWellFounded, WFMin
<1>2. PICK m \in T : \A k \in T : ~(<<k, m>> \in OpToRel(<, Nat))
  BY <1>1
<1>3. ASSUME NEW k \in T PROVE m <= k
  <2>1. ~(<<k, m>> \in OpToRel(<, Nat))
    BY <1>2
  <2>2. k \in Nat /\ m \in Nat
    OBVIOUS
  <2>3. ~(k < m)
    BY <2>1, <2>2 DEF OpToRel
  <2>4. QED
    BY <2>2, <2>3
<1>4. QED
  BY <1>3

\* Every series of a payload that is new to the dictionary has a first use, and
\* only one.
LEMMA FirstUse ==
  ASSUME NEW p \in Seq(Series), NEW d, NEW i \in 1..Len(p), p[i] \notin DOMAIN d.ids
  PROVE  \E j \in FirstUses(p, d) : p[j] = p[i]
<1> DEFINE T == {j \in 1..Len(p) : p[j] = p[i]}
<1>1. T \subseteq Nat /\ T # {} /\ Len(p) \in Nat
  BY LenProperties
<1>2. PICK m \in T : \A k \in T : m <= k
  BY <1>1, LeastNat
<1>3. m \in 1..Len(p) /\ p[m] = p[i]
  BY <1>2
<1>4. ASSUME NEW j \in 1..(m - 1) PROVE p[j] # p[m]
  <2>1. j \in 1..Len(p) /\ ~(m <= j)
    BY <1>1, <1>3
  <2>2. QED
    BY <1>2, <1>3, <2>1
<1>5. m \in FirstUses(p, d)
  BY <1>3, <1>4 DEF FirstUses
<1>6. QED
  BY <1>3, <1>5

LEMMA FirstUseUnique ==
  ASSUME NEW p \in Seq(Series), NEW d,
         NEW i \in FirstUses(p, d), NEW j \in FirstUses(p, d), p[i] = p[j]
  PROVE  i = j
<1>1. i \in 1..Len(p) /\ j \in 1..Len(p) /\ Len(p) \in Nat
  BY LenProperties DEF FirstUses
<1>2. ~(i < j)
  <2>1. i < j => i \in 1..(j - 1)
    BY <1>1
  <2>2. QED
    BY <2>1 DEF FirstUses
<1>3. ~(j < i)
  <2>1. j < i => j \in 1..(i - 1)
    BY <1>1
  <2>2. QED
    BY <2>1 DEF FirstUses
<1>4. QED
  BY <1>1, <1>2, <1>3

\* Counting the first uses before one numbers them from 0.
LEMMA Ranks ==
  ASSUME NEW n \in Nat, NEW F, F \subseteq 1..n
  PROVE  /\ IsFiniteSet(F)
         /\ \A i \in F : Cardinality({k \in F : k < i}) \in 0..(Cardinality(F) - 1)
         /\ \A i, j \in F : Cardinality({k \in F : k < i})
                              = Cardinality({k \in F : k < j}) => i = j
<1> DEFINE Before(i) == {k \in F : k < i}
<1>1. IsFiniteSet(F)
  <2>1. 1 \in Int /\ n \in Int /\ F \in SUBSET (1..n)
    OBVIOUS
  <2>2. IsFiniteSet(1..n)
    BY <2>1, FS_Interval
  <2>3. QED
    BY <2>1, <2>2, FS_Subset
<1>2. ASSUME NEW i \in F
      PROVE  IsFiniteSet(Before(i)) /\ Cardinality(Before(i)) \in Nat /\ i \in Int
  <2>1. Before(i) \in SUBSET F /\ i \in Int
    OBVIOUS
  <2> HIDE DEF Before
  <2>2. IsFiniteSet(Before(i))
    BY <1>1, <2>1, FS_Subset
  <2>3. QED
    BY <2>1, <2>2, FS_CardinalityType
<1>3. Cardinality(F) \in Nat
  BY <1>1, FS_CardinalityType
<1>4. ASSUME NEW i \in F PROVE Cardinality(Before(i)) \in 0..(Cardinality(F) - 1)
  <2>1. Before(i) \in SUBSET F /\ i \notin Before(i)
    BY <1>2
  <2>2. Cardinality(Before(i)) <= Cardinality(F) /\ Cardinality(F) # Cardinality(Before(i))
    BY <1>1, <2>1, FS_Subset
  <2>3. QED
    BY <1>2, <1>3, <2>2
<1>5. ASSUME NEW i \in F, NEW j \in F, i < j
      PROVE  Cardinality(Before(i)) # Cardinality(Before(j))
  <2>1. Before(i) \in SUBSET Before(j) /\ i \in Before(j) /\ i \notin Before(i)
    <3>1. \A k \in F : k < i => k < j
      BY <1>5
    <3>2. ~(i < i)
      BY <1>2
    <3>3. QED
      BY <1>5, <3>1, <3>2
  <2>2. IsFiniteSet(Before(j))
    BY <1>2
  <2> HIDE DEF Before
  <2>3. Cardinality(Before(j)) = Cardinality(Before(i)) => Before(j) = Before(i)
    BY <2>1, <2>2, FS_Subset
  <2>4. QED
    BY <2>1, <2>3
<1>6. QED
  BY <1>1, <1>2, <1>4, <1>5

-----------------------------------------------------------------------------
(* The encoder                                                             *)

\* The series a payload adds to a dictionary are as many as its first uses.
LEMMA NewSeries ==
  ASSUME NEW p \in Seq(Series), NEW d, DictOK(d)
  PROVE  LET new == Elements(p) \ DOMAIN d.ids
             F == FirstUses(p, d)
         IN  /\ IsFiniteSet(DOMAIN d.ids \cup Elements(p))
             /\ Cardinality(DOMAIN d.ids \cup Elements(p)) = Size(d) + Cardinality(F)
             /\ Size(d) \in Nat /\ Cardinality(F) \in Nat
             /\ \A x \in new : \E i \in F : p[i] = x
             /\ \A i \in F : p[i] \in new
<1> DEFINE new == Elements(p) \ DOMAIN d.ids
           F == FirstUses(p, d)
           use == [i \in F |-> p[i]]
<1>1. Len(p) \in Nat /\ F \subseteq 1..Len(p)
  BY LenProperties DEF FirstUses
<1>2. IsFiniteSet(F)
  BY <1>1, Ranks
<1>3. \A x \in new : \E i \in F : p[i] = x
  <2> SUFFICES ASSUME NEW x \in new PROVE \E i \in F : p[i] = x
    OBVIOUS
  <2>1. PICK i \in 1..Len(p) : p[i] = x
    BY DEF Elements
  <2>2. QED
    BY <2>1, FirstUse
<1>4. \A i \in F : p[i] \in new
  BY DEF FirstUses, Elements
<1>5. \A i, j \in F : p[i] = p[j] => i = j
  BY FirstUseUnique
<1> HIDE DEF new, F
<1>6. use \in Bijection(F, new)
  <2>1. use \in [F -> new] /\ \A i \in F : use[i] = p[i]
    BY <1>4
  <2> HIDE DEF use
  <2>2. /\ \A i, j \in F : use[i] = use[j] => i = j
        /\ \A x \in new : \E i \in F : use[i] = x
    BY <1>3, <1>5, <2>1
  <2>3. QED
    BY <2>1, <2>2, Fun_IsBij
<1>7. IsFiniteSet(new) /\ Cardinality(new) = Cardinality(F)
  <2>1. ExistsBijection(F, new)
    BY <1>6, Fun_ExistsBij
  <2>2. QED
    BY <1>2, <2>1, FS_Bijection
<1>8. Cardinality(F) \in Nat /\ Size(d) \in Nat /\ IsFiniteSet(DOMAIN d.ids)
  BY <1>2, FS_CardinalityType DEF Size, DictOK
<1>9. /\ IsFiniteSet(DOMAIN d.ids \cup new)
      /\ Cardinality(DOMAIN d.ids \cup new) = Size(d) + Cardinality(F)
  <2>1. DOMAIN d.ids \cap new = {} /\ Cardinality({}) = 0
    BY FS_EmptySet DEF new
  <2>2. Cardinality(DOMAIN d.ids \cup new)
          = Cardinality(DOMAIN d.ids) + Cardinality(new)
              - Cardinality(DOMAIN d.ids \cap new)
    BY <1>7, <1>8, FS_Union
  <2>3. IsFiniteSet(DOMAIN d.ids \cup new)
    BY <1>7, <1>8, FS_Union
  <2>4. Cardinality(DOMAIN d.ids \cup new) = Size(d) + Cardinality(F) - 0
    BY <1>7, <2>1, <2>2 DEF Size
  <2>5. QED
    BY <1>8, <2>3, <2>4
<1>10. DOMAIN d.ids \cup Elements(p) = DOMAIN d.ids \cup new
  BY DEF new
<1>11. QED
  BY <1>3, <1>4, <1>8, <1>9, <1>10 DEF new, F

\* How many series are new before the one first used at i
Rank(p, d, i) == Cardinality({j \in FirstUses(p, d) : j < i})

\* The id of a series: what it was, or the next free one at its first use
\* (line_protocol_v4.go:56-99).
LEMMA Ids ==
  ASSUME NEW p \in Seq(Series), NEW d, DictOK(d)
  PROVE  LET ids == NewIds(p, d) IN
           /\ DOMAIN ids = DOMAIN d.ids \cup Elements(p)
           /\ \A x \in DOMAIN d.ids : ids[x] = d.ids[x]
           /\ \A i \in FirstUses(p, d) : ids[p[i]] = Size(d) + Rank(p, d, i)
<1>1. /\ DOMAIN NewIds(p, d) = DOMAIN d.ids \cup Elements(p)
      /\ \A x \in DOMAIN d.ids : NewIds(p, d)[x] = d.ids[x]
  BY DEF NewIds
<1>2. ASSUME NEW i \in FirstUses(p, d)
      PROVE  NewIds(p, d)[p[i]] = Size(d) + Rank(p, d, i)
  <2>1. p[i] \in Elements(p) /\ p[i] \notin DOMAIN d.ids
    BY DEF FirstUses, Elements
  <2>2. (CHOOSE k \in FirstUses(p, d) : p[k] = p[i]) = i
    <3>1. \A k \in FirstUses(p, d) : p[k] = p[i] => k = i
      BY FirstUseUnique
    <3>2. QED
      BY <3>1
  <2>3. QED
    BY <2>1, <2>2 DEF NewIds, Rank
<1>3. QED
  BY <1>1, <1>2

\* encodeLinePayloadV4 leaves a good dictionary that only grows, and that is
\* another version exactly when there are new series.
LEMMA Encoding ==
  ASSUME NEW p \in Seq(Series), NEW d, DictOK(d)
  PROVE  LET a == Encode(p, d) IN
           /\ DictOK(a) /\ a.session = d.session
           /\ a.revision \in {d.revision, d.revision + 1}
           /\ Header(d).series \subseteq Header(a).series
           /\ a.revision = d.revision => Header(a) = Header(d)
           /\ DOMAIN a.ids = DOMAIN d.ids \cup Elements(p)
<1> DEFINE a == Encode(p, d)
           F == FirstUses(p, d)
           rank(i) == Rank(p, d, i)
           n == Size(d)
<1>1. a.session = d.session /\ a.revision = NextRevision(p, d) /\ a.ids = NewIds(p, d)
  BY DEF Encode
<1>2. /\ DOMAIN a.ids = DOMAIN d.ids \cup Elements(p)
      /\ \A x \in DOMAIN d.ids : a.ids[x] = d.ids[x]
      /\ \A i \in F : a.ids[p[i]] = n + rank(i)
  <2> DEFINE ids == NewIds(p, d)
  <2>1. /\ DOMAIN ids = DOMAIN d.ids \cup Elements(p)
        /\ \A x \in DOMAIN d.ids : ids[x] = d.ids[x]
        /\ \A i \in F : ids[p[i]] = n + rank(i)
    BY Ids
  <2>2. a.ids = ids
    BY <1>1
  <2> HIDE DEF a, F, rank, n, ids
  <2>3. QED
    BY <2>1, <2>2
<1>3. /\ IsFiniteSet(DOMAIN a.ids) /\ Size(a) = n + Cardinality(F)
      /\ n \in Nat /\ Cardinality(F) \in Nat
      /\ \A x \in Elements(p) \ DOMAIN d.ids : \E i \in F : p[i] = x
      /\ \A i \in F : p[i] \in Elements(p) \ DOMAIN d.ids
  <2>1. /\ IsFiniteSet(DOMAIN d.ids \cup Elements(p))
        /\ Cardinality(DOMAIN d.ids \cup Elements(p)) = n + Cardinality(F)
        /\ n \in Nat /\ Cardinality(F) \in Nat
        /\ \A x \in Elements(p) \ DOMAIN d.ids : \E i \in F : p[i] = x
        /\ \A i \in F : p[i] \in Elements(p) \ DOMAIN d.ids
    BY NewSeries
  <2> HIDE DEF a, F, n
  <2>2. Size(a) = Cardinality(DOMAIN d.ids \cup Elements(p))
    BY <1>2 DEF Size
  <2>3. QED
    BY <1>2, <2>1, <2>2
<1>4. /\ \A i \in F : rank(i) \in 0..(Cardinality(F) - 1)
      /\ \A i, j \in F : rank(i) = rank(j) => i = j
  <2>1. Len(p) \in Nat /\ F \subseteq 1..Len(p)
    BY LenProperties DEF FirstUses
  <2>2. QED
    BY <2>1, Ranks DEF Rank
<1>5. /\ \A x \in DOMAIN d.ids : d.ids[x] \in 0..(n - 1)
      /\ \A x, y \in DOMAIN d.ids : d.ids[x] = d.ids[y] => x = y
      /\ DOMAIN d.ids \subseteq Series /\ d.session \in Nat /\ d.revision \in Nat
  BY DEF DictOK
<1>6. a.revision \in Nat /\ a.revision \in {d.revision, d.revision + 1}
  BY <1>1, <1>5 DEF NextRevision
<1>7. Elements(p) \subseteq Series
  BY ElementOfSeq DEF Elements
<1>8. a.revision = d.revision => F = {}
  BY <1>1, <1>5 DEF NextRevision
<1> HIDE DEF a, F, rank, n
<1>9. ASSUME NEW x \in DOMAIN a.ids
      PROVE  \/ x \in DOMAIN d.ids /\ a.ids[x] = d.ids[x] /\ a.ids[x] \in 0..(n - 1)
             \/ \E i \in F : x = p[i] /\ a.ids[x] = n + rank(i)
  <2>1. CASE x \in DOMAIN d.ids
    BY <1>2, <1>5, <2>1
  <2>2. CASE x \notin DOMAIN d.ids
    BY <1>2, <1>3, <2>2
  <2>3. QED
    BY <2>1, <2>2
<1>10. \A x \in DOMAIN a.ids : a.ids[x] \in 0..(Size(a) - 1)
  <2> SUFFICES ASSUME NEW x \in DOMAIN a.ids PROVE a.ids[x] \in 0..(Size(a) - 1)
    OBVIOUS
  <2>1. CASE a.ids[x] \in 0..(n - 1)
    BY <1>3, <2>1
  <2>2. CASE \E i \in F : a.ids[x] = n + rank(i)
    BY <1>3, <1>4, <2>2
  <2>3. QED
    BY <1>9, <2>1, <2>2
<1>11. ASSUME NEW x \in DOMAIN a.ids, NEW y \in DOMAIN a.ids, a.ids[x] = a.ids[y]
       PROVE  x = y
  <2>1. CASE x \in DOMAIN d.ids /\ y \in DOMAIN d.ids
    BY <1>2, <1>5, <1>11, <2>1
  <2>2. ASSUME NEW i \in F, NEW j \in F, x = p[i], y = p[j],
               a.ids[x] = n + rank(i), a.ids[y] = n + rank(j)
        PROVE  x = y
    <3>1. rank(i) \in Nat /\ rank(j) \in Nat
      BY <1>3, <1>4
    <3>2. rank(i) = rank(j)
      BY <1>3, <1>11, <2>2, <3>1
    <3>3. QED
      BY <1>4, <2>2, <3>2
  <2>3. ASSUME NEW u \in 0..(n - 1), NEW i \in F PROVE u # n + rank(i)
    BY <1>3, <1>4
  <2>4. QED
    BY <1>9, <1>11, <2>1, <2>2, <2>3
<1>12. DictOK(a)
  BY <1>1, <1>2, <1>3, <1>5, <1>6, <1>7, <1>10, <1>11 DEF DictOK
<1>13. Header(d).series \subseteq Header(a).series
  BY <1>2 DEF Header
<1>14. a.revision = d.revision => Header(a) = Header(d)
  <2> SUFFICES ASSUME a.revision = d.revision PROVE Header(a) = Header(d)
    OBVIOUS
  <2>1. DOMAIN a.ids = DOMAIN d.ids
    BY <1>2, <1>3, <1>8
  <2>2. {<<a.ids[x], x>> : x \in DOMAIN a.ids} = {<<d.ids[x], x>> : x \in DOMAIN d.ids}
    BY <1>2, <2>1
  <2>3. QED
    BY <1>1, <2>2 DEF Header
<1>15. QED
  BY <1>1, <1>2, <1>6, <1>12, <1>13, <1>14 DEF a

-----------------------------------------------------------------------------
(* Versions of the dictionary                                              *)

LEMMA HeaderFunctional ==
  ASSUME NEW d, DictOK(d)
  PROVE  Functional(Header(d).series)
BY DEF DictOK, Header, Functional

LEMMA FreshDictionary ==
  ASSUME DictOK(dict)
  PROVE  LET d == newDictionaryState(dict) IN
           /\ DictOK(d) /\ d.session = dict.session + 1
           /\ d.revision = 0 /\ DOMAIN d.ids = {}
<1> DEFINE d == newDictionaryState(dict)
<1>1. d.session = dict.session + 1 /\ d.revision = 0 /\ DOMAIN d.ids = {}
  BY DEF newDictionaryState
<1> HIDE DEF d
<1>2. DictOK(d)
  BY <1>1, FS_EmptySet DEF DictOK
<1>3. QED
  BY <1>1, <1>2 DEF d

\* A dictionary nothing was encoded with yet.
LEMMA FreshCodec ==
  ASSUME CodecInv, dict' = newDictionaryState(dict), UNCHANGED encoded
  PROVE  CodecInv'
<1>1. DictOK(dict') /\ dict'.session = dict.session + 1 /\ dict.session \in Nat
  BY FreshDictionary DEF CodecInv, DictOK
<1>2. DictionaryVersioned'
  BY DEF CodecInv, DictionaryVersioned
<1>3. \A h \in encoded : h.session <= dict'.session /\ h.session # dict'.session
  BY <1>1 DEF CodecInv
<1>4. QED
  BY <1>1, <1>2, <1>3 DEF CodecInv

\* A payload is encoded with the current dictionary or with a fresh one: the
\* header names a version that no other contents had (line_protocol_v4.go:97-108).
LEMMA EncodeCodec ==
  ASSUME CodecInv, NEW p \in Seq(Series), NEW d \in {dict, newDictionaryState(dict)},
         dict' = Encode(p, d), encoded' = encoded \cup {Header(Encode(p, d))}
  PROVE  CodecInv' /\ dict'.session = d.session
<1> DEFINE H == Header(dict')
<1>1. /\ DictOK(d) /\ d.session \in Nat /\ d.revision \in Nat /\ dict.session \in Nat
      /\ d = dict \/ d.session = dict.session + 1
  BY FreshDictionary DEF CodecInv, DictOK
<1>2. /\ DictOK(dict') /\ dict'.session = d.session
      /\ dict'.revision \in {d.revision, d.revision + 1}
      /\ Header(d).series \subseteq H.series
      /\ dict'.revision = d.revision => H = Header(d)
  BY <1>1, Encoding
<1>3. H.session = dict'.session /\ H.revision = dict'.revision
  BY DEF Header
<1>4. Functional(H.series)
  BY <1>2, HeaderFunctional
<1>5. encoded' = encoded \cup {H}
  OBVIOUS
<1> HIDE DEF H
<1>6. ASSUME NEW h \in encoded
      PROVE  /\ h.session \in Nat /\ h.revision \in Nat
             /\ h.session <= dict'.session /\ Functional(h.series)
             /\ h.session = dict'.session =>
                  /\ h.revision <= dict'.revision
                  /\ h.series \subseteq H.series
                  /\ h.revision = dict'.revision => h = H
  <2>1. /\ h.session \in Nat /\ h.revision \in Nat /\ h.session <= dict.session
        /\ Functional(h.series)
        /\ h.session = dict.session => /\ h.revision <= dict.revision
                                       /\ h.series \subseteq Header(dict).series
                                       /\ h.revision = dict.revision => h = Header(dict)
    BY DEF CodecInv
  <2>2. CASE d = dict
    BY <1>1, <1>2, <2>1, <2>2
  <2>3. CASE d.session = dict.session + 1
    BY <1>1, <1>2, <2>1, <2>3
  <2>4. QED
    BY <1>1, <2>2, <2>3
<1>7. /\ H.session \in Nat /\ H.revision \in Nat
      /\ H.session = dict'.session /\ H.revision = dict'.revision
  BY <1>2, <1>3 DEF DictOK
<1>8. DictionaryVersioned'
  <2> SUFFICES ASSUME NEW g \in encoded \cup {H}, NEW h \in encoded \cup {H},
                      g.session = h.session, g.revision <= h.revision
               PROVE  g.series \subseteq h.series /\ (g.revision = h.revision => g = h)
    BY <1>5 DEF DictionaryVersioned
  <2>1. CASE g \in encoded /\ h \in encoded
    BY <2>1 DEF CodecInv, DictionaryVersioned
  <2>2. CASE h = H
    BY <1>6, <1>7, <2>2
  <2>3. CASE g = H /\ h \in encoded
    <3>1. h.revision <= dict'.revision /\ h.revision \in Nat
      BY <1>6, <1>7, <2>3
    <3>2. h.revision = dict'.revision
      BY <1>7, <2>3, <3>1
    <3>3. QED
      BY <1>6, <1>7, <2>3, <3>2
  <2>4. QED
    BY <2>1, <2>2, <2>3
<1>9. \A h \in encoded' :
        /\ h.session \in Nat /\ h.revision \in Nat
        /\ h.session <= dict'.session /\ Functional(h.series)
        /\ h.session = dict'.session => /\ h.revision <= dict'.revision
                                        /\ h.series \subseteq H.series
                                        /\ h.revision = dict'.revision => h = H
  BY <1>4, <1>5, <1>6, <1>7
<1>10. QED
  BY <1>2, <1>8, <1>9 DEF CodecInv, H

\* Within a session an id has one meaning, in all its versions.
LEMMA OneMeaning ==
  ASSUME CodecInv, NEW session, NEW e, NEW f,
         Defined(encoded, session, e), Defined(encoded, session, f), e[1] = f[1]
  PROVE  e = f
<1>1. PICK g \in encoded : g.session = session /\ e \in g.series
  BY DEF Defined
<1>2. PICK h \in encoded : h.session = session /\ f \in h.series
  BY DEF Defined
<1>3. /\ g.revision \in Nat /\ h.revision \in Nat
      /\ Functional(g.series) /\ Functional(h.series)
  BY DEF CodecInv
<1>4. g.series \subseteq h.series \/ h.series \subseteq g.series
  BY <1>1, <1>2, <1>3 DEF CodecInv, DictionaryVersioned
<1>5. QED
  BY <1>1, <1>2, <1>3, <1>4 DEF Functional

-----------------------------------------------------------------------------
(* Bodies and the ingester                                                 *)

\* What the encoder writes into a body.
LEMMA BodyMeaning ==
  ASSUME NEW p \in Seq(Series), NEW d, DictOK(d)
  PROVE  LET b == Body(p, d)
             series == Header(Encode(p, d)).series
         IN  /\ b.session = d.session /\ b.meant = p /\ Len(b.refs) = Len(p)
             /\ b.defs \subseteq series
             /\ \A i \in 1..Len(p) : <<b.refs[i], p[i]>> \in series
             /\ DOMAIN d.ids = {} =>
                  \A i \in 1..Len(p) : \E e \in b.defs : e[1] = b.refs[i]
<1> DEFINE a == Encode(p, d)
           b == Body(p, d)
<1>1. DOMAIN a.ids = DOMAIN d.ids \cup Elements(p) /\ a.session = d.session
  BY Encoding
<1>2. /\ b.session = a.session /\ b.meant = p
      /\ b.defs = {<<a.ids[p[i]], p[i]>> : i \in FirstUses(p, d)}
      /\ b.refs = [i \in 1..Len(p) |-> a.ids[p[i]]]
  BY DEF Body
<1>3. Header(a).series = {<<a.ids[x], x>> : x \in DOMAIN a.ids}
  BY DEF Header
<1> HIDE DEF a, b
<1>4. Len(p) \in Nat /\ \A i \in 1..Len(p) : p[i] \in DOMAIN a.ids
  BY <1>1, LenProperties DEF Elements
<1>5. FirstUses(p, d) \subseteq 1..Len(p)
  BY DEF FirstUses
<1>6. Len(b.refs) = Len(p) /\ \A i \in 1..Len(p) : b.refs[i] = a.ids[p[i]]
  BY <1>2, <1>4
<1>7. /\ b.defs \subseteq Header(a).series
      /\ \A i \in 1..Len(p) : <<b.refs[i], p[i]>> \in Header(a).series
  BY <1>2, <1>3, <1>4, <1>5, <1>6
<1>8. ASSUME DOMAIN d.ids = {}, NEW i \in 1..Len(p)
      PROVE  \E e \in b.defs : e[1] = b.refs[i]
  <2>1. PICK j \in FirstUses(p, d) : p[j] = p[i]
    BY <1>8, FirstUse
  <2>2. <<a.ids[p[j]], p[j]>> \in b.defs
    BY <1>2
  <2>3. QED
    BY <1>6, <2>1, <2>2
<1>9. QED
  BY <1>1, <1>2, <1>6, <1>7, <1>8 DEF a, b

\* Headers are only added.
LEMMA StillBacked ==
  ASSUME NEW headers, NEW more, headers \subseteq more
  PROVE  /\ \A session, e : Defined(headers, session, e) => Defined(more, session, e)
         /\ \A b : Backed(headers, b) => Backed(more, b)
<1>1. ASSUME NEW session, NEW e, Defined(headers, session, e)
      PROVE  Defined(more, session, e)
  BY <1>1 DEF Defined
<1>2. ASSUME NEW b, Backed(headers, b) PROVE Backed(more, b)
  BY <1>1, <1>2 DEF Backed
<1>3. QED
  BY <1>1, <1>2

\* What the ingester knows of a session, with the definitions of a body of it.
LEMMA MergedDefined ==
  ASSUME NEW b, Backed(encoded, b),
         \A session \in DOMAIN table : \A e \in table[session] : Defined(encoded, session, e)
  PROVE  \A e \in Merged(b) : Defined(encoded, b.session, e)
BY DEF Merged, Known, Backed

\* The ingester reads what the sender meant in every event it can resolve, with
\* whatever it still knows of the session.
LEMMA ReadAsMeant ==
  ASSUME CodecInv, NEW b, Backed(encoded, b), Resolvable(b), NEW i \in 1..Len(b.refs),
         \A session \in DOMAIN table : \A e \in table[session] : Defined(encoded, session, e)
  PROVE  Reading(b, i) = b.meant[i]
<1> DEFINE e == CHOOSE e \in Merged(b) : e[1] = b.refs[i]
           f == <<b.refs[i], b.meant[i]>>
<1>1. e \in Merged(b) /\ e[1] = b.refs[i]
  BY DEF Resolvable
<1>2. i \in 1..Len(b.meant)
  BY DEF Backed
<1>3. Defined(encoded, b.session, f)
  BY <1>2 DEF Backed
<1>4. Defined(encoded, b.session, e)
  BY <1>1, MergedDefined
<1>5. f[1] = b.refs[i] /\ f[2] = b.meant[i] /\ Reading(b, i) = e[2]
  BY DEF Reading
<1> HIDE DEF e, f
<1>6. e = f
  BY <1>1, <1>3, <1>4, <1>5, OneMeaning
<1>7. QED
  BY <1>5, <1>6

\* A body is taken, of the outstanding request or a late one.
LEMMA IngestKeeps ==
  ASSUME NEW b, NEW request, Backed(encoded, b), Ingest(b, request), UNCHANGED encoded,
         \A session \in DOMAIN table : \A e \in table[session] : Defined(encoded, session, e)
  PROVE  \A session \in DOMAIN table' :
           \A e \in table'[session] : Defined(encoded', session, e)
<1>1. \A e \in Merged(b) : Defined(encoded, b.session, e)
  BY MergedDefined
<1>2. /\ DOMAIN table' = DOMAIN table \cup {b.session}
      /\ \A x \in DOMAIN table' :
           table'[x] = IF x = b.session THEN Merged(b) ELSE table[x]
  BY DEF Ingest
<1>3. \A session \in DOMAIN table' : \A e \in table'[session] : Defined(encoded, session, e)
  BY <1>1, <1>2
<1>4. \A session, e : Defined(encoded, session, e) => Defined(encoded', session, e)
  BY StillBacked
<1>5. QED
  BY <1>3, <1>4

-----------------------------------------------------------------------------
(* Steps of send                                                           *)

States == {"idle", "lock", "first", "resync"} \cup Verdicts

Batches == [payload : Payloads, by : Senders, requests : Nat]

\* What the senders look like to the other parts of the invariant.
LEMMA SenderTypes ==
  ASSUME Inv
  PROVE  /\ pc \in [Senders -> States] /\ batch \in [Senders -> 0..Len(batches)]
         /\ batches \in Seq(Batches) /\ Len(batches) \in Nat
         /\ retries \in [Senders -> SUBSET (1..Len(batches))]
         /\ reply \in [Senders -> Replies] /\ DOMAIN body = Senders
         /\ Nobody \notin Senders /\ Payloads \subseteq Seq(Series)
         /\ \A s \in Senders : pc[s] # "idle" => batch[s] \in 1..Len(batches)
<1>1. batches \in Seq(Batches) /\ Len(batches) \in Nat
  BY LenProperties DEF Inv, TypeOK, Batches
<1>2. QED
  BY <1>1, TransportAssumption DEF Inv, TypeOK, SenderInv, States

\* The answers, told apart by their status; a 2xx means accepted.
LEMMA ReplyFields ==
  /\ None.status = 0 /\ None.code = "none"
  /\ Accepted.status = 204 /\ Accepted.code = "none"
  /\ Partial.status = 204 /\ Partial.code = "none"
  /\ Miss.status = 409 /\ Miss.code = "unknown_series_dictionary"
  /\ \A r \in Refusals : r.status \in {400, 401, 409, 413, 503}
BY DEF None, Accepted, Partial, Miss, Refusals, TooLarge, Answer


\* A worker calls Send with a batch, which may be new.
LEMMA CallKeeps ==
  ASSUME Inv, NEW s \in Senders, NEW n \in 1..Len(batches'), Call(s, n),
         batches' \in Seq(Batches), Len(batches) <= Len(batches'),
         retries' \in [Senders -> SUBSET (1..Len(batches'))]
  PROVE  Inv'
<1>1. /\ pc' = [pc EXCEPT ![s] = IF s \in Misconfigured THEN "drop" ELSE "lock"]
      /\ batch' = [batch EXCEPT ![s] = n]
      /\ UNCHANGED <<mu, dict, body, reply, late, table, encoded>>
  BY DEF Call
<1>2. sends' \in 0..MaxSends
  BY TransportAssumption DEF Call, Inv, TypeOK
<1>3. Len(batches) \in Nat /\ Len(batches') \in Nat
  BY SenderTypes, LenProperties
<1>4. /\ pc' \in [Senders -> States] /\ batch' \in [Senders -> 0..Len(batches')]
      /\ pc'[s] \in {"drop", "lock"} /\ batch'[s] = n
      /\ \A t \in Senders : t # s => pc'[t] = pc[t] /\ batch'[t] = batch[t]
  <2>1. 0..Len(batches) \subseteq 0..Len(batches')
    BY <1>3
  <2>2. n \in 0..Len(batches')
    BY <1>3
  <2>3. batch \in [Senders -> 0..Len(batches')]
    BY <2>1, SenderTypes
  <2>4. QED
    BY <1>1, <2>2, <2>3, SenderTypes DEF States, Verdicts
<1>5. \A t \in Senders : pc'[t] \in {"first", "resync"} => pc'[t] = pc[t] /\ t # s
  BY <1>4
<1>6. TypeOK'
  BY <1>1, <1>2, <1>4, <1>5 DEF Inv, TypeOK, States, Size, Batches
<1>7. SenderInv'
  BY <1>1, <1>3, <1>4 DEF Inv, SenderInv
<1>8. CodecInv'
  BY <1>1 DEF Inv, CodecInv, DictionaryVersioned
<1>9. MessageInv' /\ ResyncSelfContained'
  BY <1>1, <1>5, StillBacked DEF Inv, MessageInv, ResyncSelfContained
<1>10. QED
  BY <1>6, <1>7, <1>8, <1>9 DEF Inv

LEMMA NewBatch ==
  ASSUME Inv, NEW s \in Senders, NEW p \in Payloads, SendNew(s, p)
  PROVE  /\ batches' \in Seq(Batches) /\ Len(batches') = Len(batches) + 1
         /\ \A n \in 1..Len(batches) : batches'[n] = batches[n]
         /\ batches'[Len(batches) + 1] = [payload |-> p, by |-> s, requests |-> 0]
<1> DEFINE b == [payload |-> p, by |-> s, requests |-> 0]
<1>1. b \in Batches /\ batches' = Append(batches, b)
  BY DEF Batches, SendNew
<1> HIDE DEF b
<1>2. QED
  BY <1>1, SenderTypes, AppendProperties DEF b

LEMMA SendNewKeeps ==
  ASSUME Inv, NEW s \in Senders, NEW p \in Payloads, SendNew(s, p)
  PROVE  Inv'
<1>1. batches' \in Seq(Batches) /\ Len(batches') = Len(batches) + 1
  BY NewBatch
<1>2. Len(batches) \in Nat /\ Call(s, Len(batches) + 1) /\ retries' = retries
  BY SenderTypes DEF SendNew
<1>3. /\ Len(batches) + 1 \in 1..Len(batches') /\ Len(batches) <= Len(batches')
      /\ 1..Len(batches) \subseteq 1..Len(batches')
  BY <1>1, <1>2
<1>4. retries' \in [Senders -> SUBSET (1..Len(batches'))]
  BY <1>2, <1>3, SenderTypes
<1>5. QED
  BY <1>1, <1>2, <1>3, <1>4, CallKeeps

LEMMA SendAgainKeeps ==
  ASSUME Inv, NEW s \in Senders, SendAgain(s)
  PROVE  Inv'
<1>1. PICK n \in retries[s] : /\ Call(s, n) /\ batches' = batches
                              /\ retries' = [retries EXCEPT ![s] = @ \ {n}]
  BY DEF SendAgain
<1>2. n \in 1..Len(batches') /\ Len(batches) \in Nat
  BY <1>1, SenderTypes
<1>3. retries' \in [Senders -> SUBSET (1..Len(batches'))]
  BY <1>1, SenderTypes
<1>4. QED
  BY <1>1, <1>2, <1>3, SenderTypes, CallKeeps

\* A request is counted with its batch.
LEMMA Counted ==
  ASSUME Inv, NEW n \in 1..Len(batches), batches' = [batches EXCEPT ![n].requests = @ + 1]
  PROVE  /\ batches' \in Seq(Batches) /\ Len(batches') = Len(batches)
         /\ batches'[n].requests = batches[n].requests + 1
         /\ \A m \in 1..Len(batches) :
              /\ batches[m].requests \in Nat
              /\ batches'[m].by = batches[m].by /\ batches'[m].payload = batches[m].payload
              /\ m # n => batches'[m] = batches[m]
<1> DEFINE b == [batches[n] EXCEPT !.requests = @ + 1]
<1>1. batches \in Seq(Batches) /\ \A m \in 1..Len(batches) : batches[m] \in Batches
  BY SenderTypes, ElementOfSeq
<1>2. /\ b \in Batches /\ b.requests = batches[n].requests + 1
      /\ b.by = batches[n].by /\ b.payload = batches[n].payload
  <2>1. ASSUME NEW r \in Batches
        PROVE  LET c == [r EXCEPT !.requests = @ + 1]
               IN  /\ c \in Batches /\ c.requests = r.requests + 1
                   /\ c.by = r.by /\ c.payload = r.payload
    BY DEF Batches
  <2>2. QED
    BY <1>1, <2>1
<1>3. batches' = [batches EXCEPT ![n] = b]
  OBVIOUS
<1> HIDE DEF b
<1>4. /\ batches' \in Seq(Batches) /\ Len(batches') = Len(batches)
      /\ \A m \in 1..Len(batches) : batches'[m] = IF m = n THEN b ELSE batches[m]
  BY <1>1, <1>2, <1>3, ExceptSeq
<1>5. \A m \in 1..Len(batches) : batches[m].requests \in Nat
  BY <1>1 DEF Batches
<1>6. QED
  BY <1>2, <1>4, <1>5

\* A payload is encoded and posted by the one who holds the mutex.
LEMMA PostKeeps ==
  ASSUME Inv, NEW s \in Senders, NEW d \in {dict, newDictionaryState(dict)},
         NEW next \in {"first", "resync"}, next = "resync" => d = newDictionaryState(dict),
         Post(s, d, next), pc[s] # "idle", mu \in {Nobody, s}, mu' = s,
         UNCHANGED <<sends, batch, late, table>>
  PROVE  Inv'
<1> DEFINE p == batches[batch[s]].payload
<1>1. batch[s] \in 1..Len(batches) /\ batches[batch[s]] \in Batches
  BY SenderTypes, ElementOfSeq
<1>2. /\ dict' = Encode(p, d) /\ encoded' = encoded \cup {Header(Encode(p, d))}
      /\ body' = [body EXCEPT ![s] = Body(p, d)]
      /\ pc' = [pc EXCEPT ![s] = next] /\ reply' = [reply EXCEPT ![s] = None]
      /\ batches' = [batches EXCEPT ![batch[s]].requests = @ + 1]
      /\ retries' = retries /\ p \in Seq(Series)
  BY <1>1, SenderTypes DEF Post, Batches
<1> HIDE DEF p
<1>3. DictOK(d)
  BY FreshDictionary DEF Inv, CodecInv
<1>4. CodecInv'
  BY <1>2, EncodeCodec DEF Inv
<1>5. /\ pc' \in [Senders -> States] /\ pc'[s] = next
      /\ reply' \in [Senders -> Replies] /\ reply'[s] = None
      /\ DOMAIN body' = Senders /\ body'[s] = Body(p, d)
      /\ \A t \in Senders :
           t # s => pc'[t] = pc[t] /\ reply'[t] = reply[t] /\ body'[t] = body[t]
  BY <1>2, SenderTypes DEF States, Replies
<1>6. \A t \in Senders : t # s => pc[t] \notin {"first", "resync"}
  BY SenderTypes DEF Inv, TypeOK
<1>7. TypeOK'
  <2>1. \A t \in Senders : pc'[t] \in {"first", "resync"} => mu' = t
    BY <1>5, <1>6
  <2>2. /\ dict'.session \in Nat /\ dict'.revision \in Nat
        /\ DOMAIN dict'.ids \subseteq Series
        /\ \A x \in DOMAIN dict'.ids : dict'.ids[x] \in 0..(Size(dict') - 1)
    BY <1>4 DEF CodecInv, DictOK
  <2>3. sends' \in 0..MaxSends
    BY DEF Inv, TypeOK
  <2>4. batches' \in Seq(Batches) /\ Len(batches') = Len(batches)
    BY <1>1, <1>2, Counted
  <2>5. /\ retries' \in [Senders -> SUBSET (1..Len(batches'))]
        /\ batch' \in [Senders -> 0..Len(batches')]
    BY <1>2, <2>4, SenderTypes
  <2>6. QED
    BY <1>5, <2>1, <2>2, <2>3, <2>4, <2>5 DEF TypeOK, States, Batches
<1>8. SenderInv'
  BY <1>5, SenderTypes DEF Inv, SenderInv
<1>9. Backed(encoded', Body(p, d)) /\ (next = "resync" =>
          \A i \in 1..Len(Body(p, d).refs) :
            \E e \in Body(p, d).defs : e[1] = Body(p, d).refs[i])
  <2> DEFINE b == Body(p, d)
             H == Header(Encode(p, d))
  <2>1. /\ b.session = d.session /\ b.meant = p /\ Len(b.refs) = Len(p)
        /\ b.defs \subseteq H.series
        /\ \A i \in 1..Len(p) : <<b.refs[i], p[i]>> \in H.series
        /\ DOMAIN d.ids = {} =>
             \A i \in 1..Len(p) : \E e \in b.defs : e[1] = b.refs[i]
    BY <1>2, <1>3, BodyMeaning
  <2>2. H \in encoded' /\ H.session = d.session
    BY <1>2, <1>3, Encoding DEF Header
  <2>3. next = "resync" => DOMAIN d.ids = {}
    BY FreshDictionary DEF Inv, CodecInv
  <2> HIDE DEF b, H
  <2>4. \A e \in H.series : \E h \in encoded' : h.session = d.session /\ e \in h.series
    BY <2>2
  <2>5. Backed(encoded', b)
    BY <1>2, <2>1, <2>4 DEF Backed, Defined
  <2>6. QED
    BY <2>1, <2>3, <2>5 DEF b
<1>10. encoded \subseteq encoded'
  BY <1>2
<1>11. MessageInv'
  <2>1. \A t \in Senders : pc'[t] \in {"first", "resync"} => Backed(encoded', body'[t])
    BY <1>5, <1>6, <1>9
  <2>2. /\ \A m \in late' : Backed(encoded', m[1])
        /\ \A session \in DOMAIN table' : \A e \in table'[session] : Defined(encoded', session, e)
    BY <1>10, StillBacked DEF Inv, MessageInv
  <2>3. QED
    BY <2>1, <2>2 DEF MessageInv
<1>12. ResyncSelfContained'
  BY <1>5, <1>6, <1>9 DEF ResyncSelfContained
<1>13. QED
  BY <1>4, <1>7, <1>8, <1>11, <1>12 DEF Inv

LEMMA LockKeeps ==
  ASSUME Inv, NEW s \in Senders, Lock(s)
  PROVE  Inv'
<1>1. ensureDictionary(dict) \in {dict, newDictionaryState(dict)}
  BY DEF ensureDictionary
<1>2. QED
  BY <1>1, PostKeeps DEF Lock

\* send returns: with the verdict, and a dictionary that is kept or replaced.
LEMMA UnlockKeeps ==
  ASSUME Inv, NEW s \in Senders, NEW d \in {dict, newDictionaryState(dict)},
         NEW verdict \in Verdicts, pc[s] \in {"first", "resync"}, Unlock(s, verdict, d),
         \A m \in late' : m \in late \/ m = <<body[s], Request(s)>>,
         UNCHANGED <<sends, batch, table>>
  PROVE  Inv'
<1>1. /\ mu' = Nobody /\ dict' = d /\ UNCHANGED <<batches, encoded>>
      /\ pc' = [pc EXCEPT ![s] = verdict]
      /\ body' = [body EXCEPT ![s] = NoBody]
      /\ reply' = [reply EXCEPT ![s] = None]
  BY DEF Unlock
<1>2. CodecInv'
  <2>1. CASE d = dict
    BY <1>1, <2>1 DEF Inv, CodecInv, DictionaryVersioned
  <2>2. CASE d = newDictionaryState(dict)
    BY <1>1, <2>2, FreshCodec DEF Inv
  <2>3. QED
    BY <2>1, <2>2
<1>3. /\ pc' \in [Senders -> States] /\ pc'[s] = verdict
      /\ reply' \in [Senders -> Replies] /\ DOMAIN body' = Senders
      /\ \A t \in Senders :
           t # s => pc'[t] = pc[t] /\ reply'[t] = reply[t] /\ body'[t] = body[t]
  BY <1>1, SenderTypes DEF States, Replies
<1>4. \A t \in Senders : pc'[t] \notin {"first", "resync"}
  <2>1. mu = s /\ \A t \in Senders : pc[t] \in {"first", "resync"} => mu = t
    BY DEF Inv, TypeOK
  <2>2. QED
    BY <1>3, <2>1 DEF Verdicts
<1>5. TypeOK'
  <2>1. /\ dict'.session \in Nat /\ dict'.revision \in Nat
        /\ DOMAIN dict'.ids \subseteq Series
        /\ \A x \in DOMAIN dict'.ids : dict'.ids[x] \in 0..(Size(dict') - 1)
    BY <1>2 DEF CodecInv, DictOK
  <2>2. retries' \in [Senders -> SUBSET (1..Len(batches'))]
    <3>1. batch[s] \in 1..Len(batches)
      BY SenderTypes
    <3>2. QED
      BY <1>1, <3>1, SenderTypes DEF Unlock
  <2>3. sends' \in 0..MaxSends /\ batches' \in Seq(Batches) /\ batch' \in [Senders -> 0..Len(batches')]
    BY <1>1, SenderTypes DEF Inv, TypeOK
  <2>4. QED
    BY <1>1, <1>3, <1>4, <2>1, <2>2, <2>3 DEF TypeOK, States, Batches
<1>6. SenderInv'
  BY <1>3, SenderTypes DEF Inv, SenderInv
<1>7. MessageInv'
  BY <1>1, <1>4, StillBacked DEF Inv, MessageInv
<1>8. ResyncSelfContained'
  BY <1>4 DEF ResyncSelfContained
<1>9. QED
  BY <1>2, <1>5, <1>6, <1>7, <1>8 DEF Inv

\* Only a 2xx is nil.
LEMMA VerdictOfReply ==
  ASSUME NEW r \in Replies, r # None
  PROVE  /\ Verdict(r) \in Verdicts
         /\ Verdict(r) = "ok" <=> r \in {Accepted, Partial}
<1> USE DEF Verdict, Stops, shouldStopOnStatus, shouldStopOnResponseCode,
            shouldRetryTransport, Verdicts
<1>1. CASE r \in {Accepted, Partial}
  <2>1. r.status \in 200..299 /\ r.status = 204 /\ r.code = "none"
    BY <1>1, ReplyFields
  <2>2. Verdict(r) = "ok"
    BY <2>1
  <2>3. QED
    BY <1>1, <2>2
<1>2. CASE r.status \in {400, 401, 409, 413, 503}
  <2>1. r.status \notin 200..299 /\ r.status # 204
    BY <1>2
  <2>2. Verdict(r) \in {"stop", "retry", "drop"}
    BY <2>1
  <2>3. QED
    BY <2>1, <2>2, ReplyFields
<1>3. r \in {Accepted, Partial} \/ r.status \in {400, 401, 409, 413, 503}
  BY ReplyFields DEF Replies
<1>4. QED
  BY <1>1, <1>2, <1>3

\* What a response leads to: a resync, or the return of send.
LEMMA ResponseCases ==
  ASSUME Inv, NEW s \in Senders, Response(s)
  PROVE  /\ mu = s /\ pc[s] \in {"first", "resync"} /\ reply[s] \in Replies \ {None}
         /\ UNCHANGED <<sends, batch, late, table, accepted, unanswered>>
         /\ \/ /\ reply[s] = Miss /\ UNCHANGED mu
               /\ Post(s, newDictionaryState(dict), "resync")
            \/ \E d \in {dict, newDictionaryState(dict)} : Unlock(s, Verdict(reply[s]), d)
<1>1. CASE pc[s] = "first" /\ reply[s] = Miss
  BY <1>1, SenderTypes DEF Response, ResyncDictionary, Inv, TypeOK
<1>2. CASE ~(pc[s] = "first" /\ reply[s] = Miss)
  <2> DEFINE d == IF reply[s].status = 413 THEN newDictionaryState(dict) ELSE dict
  <2>1. Unlock(s, Verdict(reply[s]), d) /\ d \in {dict, newDictionaryState(dict)}
    BY <1>2 DEF Response
  <2> HIDE DEF d
  <2>2. QED
    BY <2>1, SenderTypes DEF Response, Inv, TypeOK
<1>3. QED
  BY <1>1, <1>2

LEMMA ResponseKeeps ==
  ASSUME Inv, NEW s \in Senders, Response(s)
  PROVE  Inv'
<1>1. CASE Post(s, newDictionaryState(dict), "resync") /\ UNCHANGED mu
  BY <1>1, ResponseCases, PostKeeps
<1>2. CASE \E d \in {dict, newDictionaryState(dict)} : Unlock(s, Verdict(reply[s]), d)
  <2>1. PICK d \in {dict, newDictionaryState(dict)} : Unlock(s, Verdict(reply[s]), d)
    BY <1>2
  <2>2. Verdict(reply[s]) \in Verdicts
    BY ResponseCases, VerdictOfReply
  <2>3. QED
    BY <2>1, <2>2, ResponseCases, UnlockKeeps
<1>3. QED
  BY <1>1, <1>2, ResponseCases

LEMMA FailKeeps ==
  ASSUME Inv, NEW s \in Senders, Fail(s)
  PROVE  Inv'
<1>1. \A m \in late' : m \in late \/ m = <<body[s], Request(s)>>
  BY DEF Fail, GiveUp
<1>2. QED
  BY <1>1, UnlockKeeps DEF Fail, Verdicts

-----------------------------------------------------------------------------
(* Steps of the ingester                                                   *)

\* The answer to the outstanding request, which is a 2xx if it was accepted.
LEMMA ProcessCases ==
  ASSUME Inv, NEW s \in Senders, Process(s)
  PROVE  /\ pc[s] \in {"first", "resync"} /\ reply[s] = None
         /\ UNCHANGED <<mu, dict, sends, batches, retries, pc, batch, body, late, encoded,
                        unanswered>>
         /\ \E r \in Replies \ {None} :
              /\ reply' = [reply EXCEPT ![s] = r]
              /\ \/ r \in {Accepted, Partial} /\ Ingest(body[s], Request(s))
                 \/ r \notin {Accepted, Partial} /\ UNCHANGED <<table, accepted>>
<1>1. CASE Ingest(body[s], Request(s))
           /\ \E r \in {Accepted, Partial} : reply' = [reply EXCEPT ![s] = r]
  <2>1. PICK r \in {Accepted, Partial} : reply' = [reply EXCEPT ![s] = r]
    BY <1>1
  <2>2. r \in Replies \ {None}
    BY ReplyFields DEF Replies
  <2>3. QED
    BY <1>1, <2>1, <2>2 DEF Process, clients
<1>2. CASE \E r \in {Miss} \cup Refusals : /\ reply' = [reply EXCEPT ![s] = r]
                                           /\ UNCHANGED <<table, accepted>>
  <2>1. PICK r \in {Miss} \cup Refusals : /\ reply' = [reply EXCEPT ![s] = r]
                                          /\ UNCHANGED <<table, accepted>>
    BY <1>2
  <2>2. r \in Replies \ {None} /\ r \notin {Accepted, Partial}
    BY ReplyFields DEF Replies
  <2>3. QED
    BY <2>1, <2>2 DEF Process, clients
<1>3. QED
  BY <1>1, <1>2 DEF Process

LEMMA ProcessKeeps ==
  ASSUME Inv, NEW s \in Senders, Process(s)
  PROVE  Inv'
<1>1. /\ UNCHANGED <<mu, dict, sends, batches, retries, pc, batch, body, late, encoded>>
      /\ Backed(encoded, body[s])
  BY ProcessCases DEF Inv, MessageInv
<1>2. PICK r \in Replies : /\ reply' = [reply EXCEPT ![s] = r]
                           /\ Ingest(body[s], Request(s)) \/ UNCHANGED table
  BY ProcessCases
<1>3. \A session \in DOMAIN table' : \A e \in table'[session] : Defined(encoded', session, e)
  <2>1. CASE Ingest(body[s], Request(s))
    BY <1>1, <2>1, IngestKeeps DEF Inv, MessageInv
  <2>2. CASE UNCHANGED table
    BY <1>1, <2>2, StillBacked DEF Inv, MessageInv
  <2>3. QED
    BY <1>2, <2>1, <2>2
<1>4. MessageInv'
  BY <1>1, <1>3, StillBacked DEF Inv, MessageInv
<1>5. TypeOK' /\ SenderInv'
  BY <1>1, <1>2, SenderTypes DEF Inv, TypeOK, SenderInv, Size
<1>6. CodecInv' /\ ResyncSelfContained'
  BY <1>1 DEF Inv, CodecInv, DictionaryVersioned, ResyncSelfContained
<1>7. QED
  BY <1>4, <1>5, <1>6 DEF Inv

\* A step that touches neither the transport nor its clients.
LEMMA OutsideKeeps ==
  ASSUME Inv, UNCHANGED <<mu, dict, sends, clients, senders, encoded>>, late' \subseteq late,
         \A session \in DOMAIN table' : \A e \in table'[session] : Defined(encoded', session, e)
  PROVE  Inv'
<1>1. UNCHANGED <<batches, retries, pc, batch, body, reply>>
  BY DEF senders, clients
<1>2. TypeOK' /\ SenderInv'
  BY <1>1 DEF Inv, TypeOK, SenderInv, Size
<1>3. CodecInv' /\ ResyncSelfContained'
  BY <1>1 DEF Inv, CodecInv, DictionaryVersioned, ResyncSelfContained
<1>4. MessageInv'
  BY <1>1, StillBacked DEF Inv, MessageInv
<1>5. QED
  BY <1>2, <1>3, <1>4 DEF Inv

LEMMA ProcessLateKeeps == ASSUME Inv, ProcessLate PROVE Inv'
<1>1. PICK m \in late : /\ late' = late \ {m}
                        /\ Ingest(m[1], m[2]) \/ UNCHANGED <<table, accepted>>
  BY DEF ProcessLate
<1>2. CASE Ingest(m[1], m[2])
  BY <1>1, <1>2, IngestKeeps, OutsideKeeps DEF Inv, MessageInv, ProcessLate
<1>3. CASE UNCHANGED table
  <2>1. \A session \in DOMAIN table' : \A e \in table'[session] : Defined(encoded', session, e)
    BY <1>3, StillBacked DEF Inv, MessageInv, ProcessLate
  <2>2. QED
    BY <1>1, <2>1, OutsideKeeps DEF ProcessLate
<1>4. QED
  BY <1>1, <1>2, <1>3

LEMMA ForgetKeeps == ASSUME Inv, Forget PROVE Inv'
<1>1. /\ DOMAIN table' \subseteq DOMAIN table
      /\ \A x \in DOMAIN table' : table'[x] = table[x]
  BY DEF Forget
<1>2. \A session \in DOMAIN table' : \A e \in table'[session] : Defined(encoded', session, e)
  BY <1>1, StillBacked DEF Inv, MessageInv, Forget
<1>3. QED
  BY <1>2, OutsideKeeps DEF Forget

-----------------------------------------------------------------------------
(* What is sent again                                                      *)

LEMMA SameRequest ==
  ASSUME NEW q, NEW r, Issued(q), Issued(r), q[1] = r[1], q[2] = r[2]
  PROVE  q = r
BY DEF Issued

\* Two clients send two batches.
LEMMA OwnBatch ==
  ASSUME Inv, OwnerInv, NEW s \in Senders, NEW t \in Senders, s # t,
         pc[s] # "idle", pc[t] # "idle"
  PROVE  batch[s] # batch[t]
BY DEF Inv, SenderInv, OwnerInv

\* Only one request is outstanding.
LEMMA OneOutstanding ==
  ASSUME Inv, NEW s \in Senders, NEW t \in Senders,
         pc[s] \in {"first", "resync"}, pc[t] \in {"first", "resync"}
  PROVE  s = t
BY DEF Inv, TypeOK

LEMMA SendNewReplay ==
  ASSUME Inv, ReplayInv, NEW s \in Senders, NEW p \in Payloads, SendNew(s, p)
  PROVE  ReplayInv'
<1> DEFINE n == Len(batches) + 1
<1>1. /\ pc' = [pc EXCEPT ![s] = IF s \in Misconfigured THEN "drop" ELSE "lock"]
      /\ batch' = [batch EXCEPT ![s] = n]
      /\ UNCHANGED <<retries, reply, late, accepted, unanswered>>
  BY DEF SendNew, Call
<1>2. /\ Len(batches) \in Nat /\ Len(batches') = Len(batches) + 1
      /\ \A m \in 1..Len(batches) : m # n /\ m \in 1..Len(batches') /\ batches'[m] = batches[m]
      /\ batches'[n].by = s
  <2>1. /\ Len(batches) \in Nat /\ Len(batches') = n
        /\ \A m \in 1..Len(batches) : batches'[m] = batches[m]
        /\ batches'[n].by = s
    <3>1. Len(batches) \in Nat /\ Len(batches') = n
      BY SenderTypes, NewBatch
    <3>2. /\ \A m \in 1..Len(batches) : batches'[m] = batches[m]
          /\ batches'[n] = [payload |-> p, by |-> s, requests |-> 0]
      BY NewBatch
    <3>3. QED
      BY <3>1, <3>2
  <2>2. \A m \in 1..Len(batches) : m # n /\ m \in 1..n
    BY <2>1
  <2>3. QED
    BY <2>1, <2>2
<1>3. /\ pc'[s] \in {"drop", "lock"} /\ batch'[s] = n
      /\ \A t \in Senders : t # s => pc'[t] = pc[t] /\ batch'[t] = batch[t]
  BY <1>1, SenderTypes
<1>4. \A t \in Senders : batch[t] # 0 => batch[t] \in 1..Len(batches)
  BY <1>2, SenderTypes
<1> HIDE DEF n
<1>5. OwnerInv'
  <2>1. \A t \in Senders : batch'[t] # 0 => batches'[batch'[t]].by = t
    BY <1>2, <1>3, <1>4 DEF ReplayInv, OwnerInv
  <2>2. ASSUME NEW t \in Senders, NEW m \in retries[t]
        PROVE  batches'[m].by = t /\ (m = batch'[t] => pc'[t] = "retry")
    <3>1. m \in 1..Len(batches)
      BY SenderTypes
    <3>2. QED
      BY <1>2, <1>3, <3>1 DEF ReplayInv, OwnerInv
  <2>3. QED
    BY <1>1, <2>1, <2>2 DEF OwnerInv
<1>6. \A r : Issued(r) => r[1] # n /\ Issued(r)' /\ (Settled(r) => Settled(r)')
  BY <1>1, <1>2 DEF Issued, Settled
<1>7. \A t \in Senders : t # s /\ pc[t] # "idle" => Request(t)' = Request(t)
  BY <1>2, <1>3, SenderTypes DEF Request
<1>8. RequestInv'
  <2>1. /\ \A r \in accepted \cup unanswered : Issued(r)'
        /\ \A m \in late' : m[2] \in unanswered'
        /\ \A r \in accepted : r \in unanswered \/ Settled(r)'
    BY <1>1, <1>6 DEF ReplayInv, RequestInv
  <2>2. ASSUME NEW t \in Senders
        PROVE  /\ pc'[t] = "lock" =>
                    \A r \in accepted : r[1] = batch'[t] => r \in unanswered
               /\ pc'[t] \in {"first", "resync"} =>
                    /\ Issued(Request(t))' /\ Request(t)' \notin unanswered
                    /\ Request(t)' \in accepted <=> reply'[t] \in {Accepted, Partial}
               /\ pc'[t] = "ok" => Request(t)' \in accepted
    <3>1. CASE t = s
      BY <1>3, <1>6, <3>1 DEF ReplayInv, RequestInv
    <3>2. CASE t # s
      <4>1. pc[t] # "idle" => (Issued(Request(t)) => Issued(Request(t))')
        BY <1>6, <1>7, <3>2 DEF Issued
      <4>2. QED
        BY <1>1, <1>3, <1>7, <3>2, <4>1 DEF ReplayInv, RequestInv
    <3>3. QED
      BY <3>1, <3>2
  <2>3. QED
    BY <1>1, <2>1, <2>2 DEF RequestInv
<1>9. QED
  BY <1>5, <1>8 DEF ReplayInv

LEMMA SendAgainReplay ==
  ASSUME Inv, ReplayInv, NEW s \in Senders, SendAgain(s)
  PROVE  ReplayInv'
<1>1. PICK n \in retries[s] : /\ Call(s, n) /\ batches' = batches
                              /\ retries' = [retries EXCEPT ![s] = @ \ {n}]
  BY DEF SendAgain
<1>2. /\ pc'[s] \in {"drop", "lock"} /\ batch'[s] = n
      /\ \A t \in Senders : t # s => pc'[t] = pc[t] /\ batch'[t] = batch[t]
      /\ UNCHANGED <<reply, late, accepted, unanswered>>
  BY <1>1, SenderTypes DEF Call
<1>3. \A t \in Senders : retries'[t] \subseteq retries[t] /\ n \notin retries'[s]
  BY <1>1, SenderTypes
<1>4. OwnerInv'
  BY <1>1, <1>2, <1>3 DEF ReplayInv, OwnerInv
<1>5. \A r : (Issued(r) => Issued(r)') /\ (Settled(r) => Settled(r)')
  BY <1>1, <1>3 DEF Issued, Settled
<1>6. \A t \in Senders : t # s => Request(t)' = Request(t)
  BY <1>1, <1>2 DEF Request
<1>7. \A r \in accepted : r[1] = n => r \in unanswered
  BY DEF ReplayInv, RequestInv, Settled
<1>8. RequestInv'
  <2>1. /\ \A r \in accepted \cup unanswered : Issued(r)'
        /\ \A m \in late' : m[2] \in unanswered'
        /\ \A r \in accepted : r \in unanswered \/ Settled(r)'
    BY <1>2, <1>5 DEF ReplayInv, RequestInv
  <2>2. ASSUME NEW t \in Senders
        PROVE  /\ pc'[t] = "lock" =>
                    \A r \in accepted : r[1] = batch'[t] => r \in unanswered
               /\ pc'[t] \in {"first", "resync"} =>
                    /\ Issued(Request(t))' /\ Request(t)' \notin unanswered
                    /\ Request(t)' \in accepted <=> reply'[t] \in {Accepted, Partial}
               /\ pc'[t] = "ok" => Request(t)' \in accepted
    <3>1. CASE t = s
      BY <1>2, <1>7, <3>1
    <3>2. CASE t # s
      <4>1. Issued(Request(t)) => Issued(Request(t))'
        BY <1>1, <1>6, <3>2 DEF Issued
      <4>2. QED
        BY <1>2, <1>6, <3>2, <4>1 DEF ReplayInv, RequestInv
    <3>3. QED
      BY <3>1, <3>2
  <2>3. QED
    BY <1>2, <2>1, <2>2 DEF RequestInv
<1>9. QED
  BY <1>4, <1>8 DEF ReplayInv

\* A new request of a batch: none before it was answered with a 2xx.
LEMMA PostReplay ==
  ASSUME Inv, ReplayInv, NEW s \in Senders, NEW d, NEW next \in {"first", "resync"},
         Post(s, d, next),
         pc[s] = "lock" \/ (pc[s] \in {"first", "resync"} /\ reply[s] = Miss),
         \A t \in Senders : t # s => pc[t] \notin {"first", "resync"},
         UNCHANGED <<batch, late, accepted, unanswered>>
  PROVE  ReplayInv'
<1> DEFINE n == batch[s]
           k == batches[n].requests
<1>1. /\ n \in 1..Len(batches) /\ k \in Nat
      /\ Len(batches') = Len(batches) /\ batches'[n].requests = k + 1
      /\ \A m \in 1..Len(batches) : batches'[m].by = batches[m].by /\ batches[m].requests \in Nat
      /\ \A m \in 1..Len(batches) : m # n => batches'[m] = batches[m]
  <2>1. n \in 1..Len(batches) /\ batches' = [batches EXCEPT ![n].requests = @ + 1]
    BY SenderTypes DEF Post
  <2> HIDE DEF n
  <2>2. QED
    BY <2>1, Counted
<1>2. /\ pc'[s] = next /\ reply'[s] = None
      /\ \A t \in Senders : t # s => pc'[t] = pc[t] /\ reply'[t] = reply[t]
      /\ retries' = retries
  BY SenderTypes DEF Post
<1>3. Request(s) = <<n, k>> /\ Request(s)' = <<n, k + 1>>
  BY <1>1 DEF Request
<1>4. ASSUME NEW r \in accepted, r[1] = n PROVE r \in unanswered
  <2>1. CASE pc[s] = "lock"
    BY <1>4, <2>1 DEF ReplayInv, RequestInv
  <2>2. CASE pc[s] \in {"first", "resync"} /\ reply[s] = Miss
    <3>1. Issued(r) /\ Issued(Request(s)) /\ Request(s) \notin accepted
      BY <2>2, ReplyFields DEF ReplayInv, RequestInv
    <3>2. r[2] = k => r = Request(s)
      BY <1>3, <1>4, <3>1, SameRequest
    <3>3. QED
      BY <1>4, <3>1, <3>2 DEF ReplayInv, RequestInv, Settled
  <2>3. QED
    BY <2>1, <2>2
<1>5. OwnerInv'
  <2>1. \A t \in Senders : batch[t] # 0 => batch[t] \in 1..Len(batches)
    BY SenderTypes
  <2>2. \A t \in Senders : retries[t] \subseteq 1..Len(batches)
    BY SenderTypes
  <2>3. n \notin retries[s]
    BY DEF ReplayInv, OwnerInv
  <2>4. \A m \in 1..Len(batches) : batches'[m].by = batches[m].by
    BY <1>1
  <2> HIDE DEF k
  <2>5. \A t \in Senders : batch'[t] # 0 => batches'[batch'[t]].by = t
    BY <2>1, <2>4 DEF ReplayInv, OwnerInv
  <2>6. ASSUME NEW t \in Senders, NEW m \in retries'[t]
        PROVE  batches'[m].by = t /\ (m = batch'[t] => pc'[t] = "retry")
    <3>1. m \in retries[t] /\ m \in 1..Len(batches)
      BY <1>2, <2>2
    <3>2. batches'[m].by = t
      BY <2>4, <3>1 DEF ReplayInv, OwnerInv
    <3>3. m = batch[t] => t # s
      BY <2>3, <3>1
    <3>4. QED
      BY <1>2, <3>1, <3>2, <3>3 DEF ReplayInv, OwnerInv
  <2>7. QED
    BY <2>5, <2>6 DEF OwnerInv
<1>6. ASSUME NEW r, Issued(r)
      PROVE  Issued(r)' /\ r # <<n, k + 1>> /\ (r[1] # n /\ Settled(r) => Settled(r)')
  <2>1. /\ r \in Nat \X Nat /\ r[1] \in 1..Len(batches) /\ r[2] \in 1..batches[r[1]].requests
    BY <1>6 DEF Issued
  <2> HIDE DEF n, k
  <2>2. CASE r[1] = n
    <3>1. batches[r[1]].requests = k
      BY <2>2 DEF n, k
    <3>2. r[2] \in 1..(k + 1) /\ r[2] # k + 1
      BY <1>1, <2>1, <3>1
    <3>3. QED
      BY <1>1, <2>1, <2>2, <3>2 DEF Issued
  <2>3. CASE r[1] # n
    <3>1. batches'[r[1]] = batches[r[1]]
      BY <1>1, <2>1, <2>3
    <3>2. QED
      BY <1>1, <1>2, <2>1, <2>3, <3>1 DEF Issued, Settled
  <2>4. QED
    BY <2>2, <2>3
<1>7. <<n, k + 1>> \in Nat \X Nat /\ n \in 1..Len(batches') /\ k + 1 \in 1..batches'[n].requests
  BY <1>1, SenderTypes
<1>8. ASSUME NEW t \in Senders, t # s, pc[t] # "idle"
      PROVE  Request(t)' = Request(t) /\ batch[t] # n
  <2>1. batch[t] # n /\ batch[t] \in 1..Len(batches)
    BY <1>8, OwnBatch, SenderTypes DEF ReplayInv
  <2>2. QED
    BY <1>1, <2>1 DEF Request
<1> HIDE DEF n, k
<1>9. RequestInv'
  <2>1. /\ \A r \in accepted \cup unanswered : Issued(r)'
        /\ \A m \in late' : m[2] \in unanswered'
        /\ \A r \in accepted : r \in unanswered \/ Settled(r)'
    BY <1>4, <1>6 DEF ReplayInv, RequestInv
  <2>2. ASSUME NEW t \in Senders
        PROVE  /\ pc'[t] = "lock" =>
                    \A r \in accepted : r[1] = batch[t] => r \in unanswered
               /\ pc'[t] \in {"first", "resync"} =>
                    /\ Issued(Request(t))' /\ Request(t)' \notin unanswered
                    /\ Request(t)' \in accepted <=> reply'[t] \in {Accepted, Partial}
               /\ pc'[t] = "ok" => Request(t)' \in accepted
    <3>1. CASE t = s
      <4>1. Request(s)' \notin accepted \cup unanswered
        BY <1>3, <1>6 DEF ReplayInv, RequestInv
      <4>2. None \notin {Accepted, Partial}
        BY ReplyFields
      <4>3. Issued(Request(s))'
        BY <1>3, <1>7 DEF Issued
      <4>4. QED
        BY <1>2, <3>1, <4>1, <4>2, <4>3
    <3>2. CASE t # s
      BY <1>2, <1>8, <3>2 DEF ReplayInv, RequestInv
    <3>3. QED
      BY <3>1, <3>2
  <2>3. QED
    BY <2>1, <2>2 DEF RequestInv
<1>10. QED
  BY <1>5, <1>9 DEF ReplayInv

LEMMA LockReplay ==
  ASSUME Inv, ReplayInv, NEW s \in Senders, Lock(s)
  PROVE  ReplayInv'
<1>1. \A t \in Senders : pc[t] \notin {"first", "resync"}
  BY TransportAssumption DEF Lock, Inv, TypeOK
<1>2. QED
  BY <1>1, PostReplay DEF Lock

\* send returns: with nil for what was accepted, and with an error that is retried
\* only if the answer did not say so.
LEMMA UnlockReplay ==
  ASSUME Inv, ReplayInv, NEW s \in Senders, NEW d, NEW verdict \in Verdicts,
         pc[s] \in {"first", "resync"}, Unlock(s, verdict, d), UNCHANGED <<batch, accepted>>,
         unanswered' \in {unanswered, unanswered \cup {Request(s)}},
         \A m \in late' : m[2] \in unanswered',
         verdict = "ok" => Request(s) \in accepted,
         verdict = "retry" /\ Request(s) \in accepted => Request(s) \in unanswered'
  PROVE  ReplayInv'
<1>1. /\ pc'[s] = verdict /\ \A t \in Senders : t # s => pc'[t] = pc[t] /\ reply'[t] = reply[t]
      /\ batches' = batches
      /\ \A t \in Senders : t # s => retries'[t] = retries[t]
      /\ verdict # "retry" => retries' = retries
      /\ \A n \in retries'[s] : n \in retries[s] \/ (n = batch[s] /\ verdict = "retry")
  BY SenderTypes DEF Unlock
<1>2. batch[s] \in 1..Len(batches) /\ \A t \in Senders : Request(t)' = Request(t)
  BY <1>1, SenderTypes DEF Request
<1>3. verdict \notin {"lock", "first", "resync"}
  BY DEF Verdicts
<1>4. OwnerInv'
  <2>1. \A t \in Senders : batch'[t] # 0 => batches'[batch'[t]].by = t
    BY <1>1 DEF ReplayInv, OwnerInv
  <2>2. ASSUME NEW t \in Senders, NEW n \in retries'[t]
        PROVE  batches'[n].by = t /\ (n = batch'[t] => pc'[t] = "retry")
    <3>1. CASE t # s
      BY <1>1, <2>2, <3>1 DEF ReplayInv, OwnerInv
    <3>2. CASE t = s /\ n \in retries[s]
      BY <1>1, <3>2 DEF ReplayInv, OwnerInv
    <3>3. CASE t = s /\ n = batch[s] /\ verdict = "retry"
      <4>1. batch[s] # 0
        BY <1>2, SenderTypes
      <4>2. QED
        BY <1>1, <2>1, <3>3, <4>1
    <3>4. QED
      BY <1>1, <2>2, <3>1, <3>2, <3>3
  <2>3. QED
    BY <2>1, <2>2 DEF OwnerInv
<1>5. \A r : Issued(r) => Issued(r)'
  BY <1>1 DEF Issued
<1>6. Issued(Request(s)) /\ Request(s) \notin unanswered
  BY DEF ReplayInv, RequestInv
<1>7. ASSUME NEW r \in accepted PROVE r \in unanswered' \/ Settled(r)'
  <2>1. CASE r \in unanswered
    BY <2>1
  <2>2. CASE Settled(r) /\ verdict # "retry"
    BY <1>1, <2>2 DEF Settled
  <2>3. CASE Settled(r) /\ verdict = "retry" /\ r[1] # batch[s]
    BY <1>1, <2>3 DEF Settled
  <2>4. CASE Settled(r) /\ verdict = "retry" /\ r[1] = batch[s]
    <3>1. Issued(r) /\ r[1] = Request(s)[1] /\ r[2] = Request(s)[2]
      BY <2>4 DEF Settled, Request, ReplayInv, RequestInv
    <3>2. r = Request(s)
      BY <1>6, <3>1, SameRequest
    <3>3. QED
      BY <2>4, <3>2
  <2>5. QED
    BY <2>1, <2>2, <2>3, <2>4 DEF ReplayInv, RequestInv
<1>8. RequestInv'
  <2>1. \A r \in accepted' \cup unanswered' : Issued(r)'
    BY <1>5, <1>6 DEF ReplayInv, RequestInv
  <2>2. ASSUME NEW t \in Senders
        PROVE  /\ pc'[t] = "lock" =>
                    \A r \in accepted : r[1] = batch[t] => r \in unanswered'
               /\ pc'[t] \in {"first", "resync"} =>
                    /\ Issued(Request(t))' /\ Request(t)' \notin unanswered'
                    /\ Request(t)' \in accepted <=> reply'[t] \in {Accepted, Partial}
               /\ pc'[t] = "ok" => Request(t)' \in accepted
    <3>1. CASE t = s
      BY <1>1, <1>2, <1>3, <3>1
    <3>2. CASE t # s
      <4>1. pc[t] \notin {"first", "resync"}
        BY <3>2, OneOutstanding
      <4>2. QED
        BY <1>1, <1>2, <3>2, <4>1 DEF ReplayInv, RequestInv
    <3>3. QED
      BY <3>1, <3>2
  <2>3. QED
    BY <1>7, <2>1, <2>2 DEF RequestInv
<1>9. QED
  BY <1>4, <1>8 DEF ReplayInv

LEMMA ResponseReplay ==
  ASSUME Inv, ReplayInv, NEW s \in Senders, Response(s)
  PROVE  ReplayInv'
<1>1. /\ pc[s] \in {"first", "resync"} /\ reply[s] \in Replies \ {None}
      /\ UNCHANGED <<batch, late, accepted, unanswered>>
  BY ResponseCases
<1>2. CASE reply[s] = Miss /\ Post(s, newDictionaryState(dict), "resync")
  <2>1. \A t \in Senders : t # s => pc[t] \notin {"first", "resync"}
    BY <1>1, OneOutstanding
  <2>2. QED
    BY <1>1, <1>2, <2>1, PostReplay
<1>3. CASE \E d \in {dict, newDictionaryState(dict)} : Unlock(s, Verdict(reply[s]), d)
  <2> DEFINE v == Verdict(reply[s])
  <2>1. v \in Verdicts /\ (v = "ok" <=> reply[s] \in {Accepted, Partial})
    BY <1>1, VerdictOfReply
  <2>2. Request(s) \in accepted <=> reply[s] \in {Accepted, Partial}
    BY <1>1 DEF ReplayInv, RequestInv
  <2>3. \A m \in late' : m[2] \in unanswered'
    BY <1>1 DEF ReplayInv, RequestInv
  <2>4. PICK d \in {dict, newDictionaryState(dict)} : Unlock(s, v, d)
    BY <1>3
  <2> HIDE DEF v
  <2>5. QED
    BY <1>1, <2>1, <2>2, <2>3, <2>4, UnlockReplay
<1>4. QED
  BY <1>2, <1>3, ResponseCases

LEMMA FailReplay ==
  ASSUME Inv, ReplayInv, NEW s \in Senders, Fail(s)
  PROVE  ReplayInv'
<1>1. unanswered' = unanswered \cup {Request(s)}
  BY DEF Fail, GiveUp
<1>2. ASSUME NEW m \in late' PROVE m[2] \in unanswered'
  <2>1. m \in late \/ m = <<body[s], Request(s)>>
    BY DEF Fail, GiveUp
  <2>2. QED
    BY <1>1, <2>1 DEF ReplayInv, RequestInv
<1>3. "retry" \in Verdicts /\ "retry" # "ok"
  BY DEF Verdicts
<1>4. QED
  BY <1>1, <1>2, <1>3, UnlockReplay DEF Fail

\* The ingester accepts requests that are outstanding or without an answer, and
\* the clients' part stays as it is.
LEMMA AcceptReplay ==
  ASSUME Inv, ReplayInv, UNCHANGED <<batches, retries, pc, batch, unanswered>>,
         late' \subseteq late, NEW r, accepted' \in {accepted, accepted \cup {r}},
         r \in accepted' => \/ r \in unanswered
                            \/ \E s \in Senders : /\ r = Request(s)
                                                  /\ pc[s] \in {"first", "resync"},
         \A s \in Senders : pc[s] \in {"first", "resync"} =>
           (Request(s) \in accepted' <=> reply'[s] \in {Accepted, Partial})
  PROVE  ReplayInv'
<1>1. OwnerInv'
  BY DEF ReplayInv, OwnerInv
<1>2. \A q : (Issued(q) => Issued(q)') /\ (Settled(q) => Settled(q)')
  BY DEF Issued, Settled
<1>3. \A s \in Senders : Request(s)' = Request(s)
  BY DEF Request
<1>4. ASSUME NEW q \in accepted'
      PROVE  Issued(q)' /\ (q \in unanswered \/ Settled(q)') /\
             \A s \in Senders : pc[s] = "lock" /\ q[1] = batch[s] => q \in unanswered
  <2>1. CASE q \in accepted \/ q \in unanswered
    BY <1>2, <2>1 DEF ReplayInv, RequestInv
  <2>2. CASE \E s \in Senders : q = Request(s) /\ pc[s] \in {"first", "resync"}
    <3>1. PICK s \in Senders : q = Request(s) /\ pc[s] \in {"first", "resync"}
      BY <2>2
    <3>2. Issued(q)'
      BY <1>2, <3>1 DEF ReplayInv, RequestInv
    <3>3. batch[s] \in 1..Len(batches) /\ batches[batch[s]].by = s
      BY <3>1, SenderTypes DEF ReplayInv, OwnerInv, Inv, SenderInv
    <3>4. q[1] = batch[s] /\ q[2] = batches[batch[s]].requests
      BY <3>1 DEF Request
    <3>5. \A t \in Senders : q[1] \notin retries[t]
      BY <3>1, <3>3, <3>4 DEF ReplayInv, OwnerInv
    <3>6. Settled(q)'
      BY <3>4, <3>5 DEF Settled
    <3>7. \A t \in Senders : pc[t] = "lock" => q[1] # batch[t]
      BY <3>1, <3>4, OwnBatch DEF ReplayInv
    <3>8. QED
      BY <3>2, <3>6, <3>7
  <2>3. QED
    BY <1>4, <2>1, <2>2
<1>5. RequestInv'
  <2>1. /\ \A q \in accepted' \cup unanswered' : Issued(q)'
        /\ \A m \in late' : m[2] \in unanswered'
        /\ \A q \in accepted' : q \in unanswered' \/ Settled(q)'
    BY <1>2, <1>4 DEF ReplayInv, RequestInv
  <2>2. ASSUME NEW t \in Senders
        PROVE  /\ pc'[t] = "lock" =>
                    \A q \in accepted' : q[1] = batch'[t] => q \in unanswered'
               /\ pc'[t] \in {"first", "resync"} =>
                    /\ Issued(Request(t))' /\ Request(t)' \notin unanswered'
                    /\ Request(t)' \in accepted' <=> reply'[t] \in {Accepted, Partial}
               /\ pc'[t] = "ok" => Request(t)' \in accepted'
    <3>1. pc'[t] = "lock" => \A q \in accepted' : q[1] = batch'[t] => q \in unanswered'
      BY <1>4
    <3>2. pc'[t] \in {"first", "resync"} =>
            /\ Issued(Request(t))' /\ Request(t)' \notin unanswered'
            /\ Request(t)' \in accepted' <=> reply'[t] \in {Accepted, Partial}
      BY <1>2, <1>3 DEF ReplayInv, RequestInv, Issued
    <3>3. pc'[t] = "ok" => Request(t)' \in accepted'
      BY <1>3 DEF ReplayInv, RequestInv
    <3>4. QED
      BY <3>1, <3>2, <3>3
  <2>3. QED
    BY <2>1, <2>2 DEF RequestInv
<1>6. QED
  BY <1>1, <1>5 DEF ReplayInv

LEMMA ProcessReplay ==
  ASSUME Inv, ReplayInv, NEW s \in Senders, Process(s)
  PROVE  ReplayInv'
<1>1. /\ pc[s] \in {"first", "resync"} /\ reply[s] = None
      /\ UNCHANGED <<batches, retries, pc, batch, late, unanswered>>
  BY ProcessCases
<1>2. PICK r \in Replies :
        /\ reply' = [reply EXCEPT ![s] = r]
        /\ \/ r \in {Accepted, Partial} /\ accepted' = accepted \cup {Request(s)}
           \/ r \notin {Accepted, Partial} /\ accepted' = accepted
  BY ProcessCases DEF Ingest
<1>3. Request(s) \notin accepted
  BY <1>1, ReplyFields DEF ReplayInv, RequestInv
<1>4. reply'[s] = r
  BY <1>2, SenderTypes
<1>5. \A t \in Senders : pc[t] \in {"first", "resync"} =>
        (Request(t) \in accepted' <=> reply'[t] \in {Accepted, Partial})
  BY <1>1, <1>2, <1>3, <1>4, OneOutstanding
<1>6. QED
  BY <1>1, <1>2, <1>5, AcceptReplay

LEMMA ProcessLateReplay ==
  ASSUME Inv, ReplayInv, ProcessLate
  PROVE  ReplayInv'
<1>1. PICK m \in late : /\ late' = late \ {m}
                        /\ Ingest(m[1], m[2]) \/ UNCHANGED <<table, accepted>>
  BY DEF ProcessLate
<1>2. accepted' \in {accepted, accepted \cup {m[2]}} /\ m[2] \in unanswered
  BY <1>1 DEF Ingest, ReplayInv, RequestInv
<1>3. UNCHANGED <<batches, retries, pc, batch, reply, unanswered>>
  BY DEF ProcessLate, clients, senders
<1>4. \A t \in Senders : pc[t] \in {"first", "resync"} =>
        (Request(t) \in accepted' <=> reply'[t] \in {Accepted, Partial})
  BY <1>2, <1>3 DEF ReplayInv, RequestInv
<1>5. QED
  BY <1>1, <1>2, <1>3, <1>4, AcceptReplay

\* Nothing that the clients or the history know changes.
LEMMA StutterReplay ==
  ASSUME ReplayInv, UNCHANGED <<clients, senders, late, accepted, unanswered>>
  PROVE  ReplayInv'
<1>1. UNCHANGED <<batches, retries, pc, batch, reply>>
  BY DEF clients, senders
<1>2. OwnerInv'
  BY <1>1 DEF ReplayInv, OwnerInv
<1>3. RequestInv'
  BY <1>1 DEF ReplayInv, RequestInv, Issued, Settled, Request
<1>4. QED
  BY <1>2, <1>3 DEF ReplayInv

-----------------------------------------------------------------------------
(* Theorems                                                                *)

LEMMA TransportInit == Init => Inv /\ ReplayInv
<1> SUFFICES ASSUME Init PROVE Inv /\ ReplayInv
  OBVIOUS
<1>1. /\ dict.session = 0 /\ dict.revision = 0 /\ DOMAIN dict.ids = {}
      /\ encoded = {} /\ late = {} /\ DOMAIN table = {}
      /\ accepted = {} /\ unanswered = {} /\ batches = <<>>
      /\ \A s \in Senders : pc[s] = "idle" /\ batch[s] = 0 /\ retries[s] = {}
  BY DEF Init
<1>2. DictOK(dict)
  BY <1>1, FS_EmptySet DEF DictOK
<1>3. CodecInv /\ MessageInv /\ ResyncSelfContained
  BY <1>1, <1>2 DEF CodecInv, DictionaryVersioned, MessageInv, ResyncSelfContained
<1>4. TypeOK
  <2>1. batches \in Seq([payload : Payloads, by : Senders, requests : Nat])
    BY <1>1, EmptySeq
  <2>2. QED
    BY <1>1, <2>1, TransportAssumption DEF Init, TypeOK
<1>5. SenderInv
  BY <1>1 DEF Init, SenderInv, Replies
<1>6. ReplayInv
  BY <1>1 DEF ReplayInv, OwnerInv, RequestInv
<1>7. QED
  BY <1>3, <1>4, <1>5, <1>6 DEF Inv

LEMMA TransportInv == Spec => [](Inv /\ ReplayInv)
<1>1. Inv /\ ReplayInv /\ [Next]_vars => Inv' /\ ReplayInv'
  <2> SUFFICES ASSUME Inv, ReplayInv, [Next]_vars PROVE Inv' /\ ReplayInv'
    OBVIOUS
  <2>1. CASE \E s \in Senders : \E p \in Payloads : SendNew(s, p)
    BY <2>1, SendNewKeeps, SendNewReplay
  <2>2. CASE \E s \in Senders : SendAgain(s) \/ Lock(s)
    BY <2>2, SendAgainKeeps, SendAgainReplay, LockKeeps, LockReplay
  <2>3. CASE \E s \in Senders : Response(s) \/ Fail(s)
    BY <2>3, ResponseKeeps, ResponseReplay, FailKeeps, FailReplay
  <2>4. CASE \E s \in Senders : Process(s)
    BY <2>4, ProcessKeeps, ProcessReplay
  <2>5. CASE ProcessLate
    BY <2>5, ProcessLateKeeps, ProcessLateReplay
  <2>6. CASE Forget
    BY <2>6, ForgetKeeps, StutterReplay DEF Forget
  <2>7. CASE UNCHANGED vars
    <3>1. UNCHANGED <<mu, dict, sends, clients, senders, encoded, late, table, accepted,
                      unanswered>>
      BY <2>7 DEF vars, clients, senders
    <3>2. \A session \in DOMAIN table' : \A e \in table'[session] : Defined(encoded', session, e)
      BY <3>1, StillBacked DEF Inv, MessageInv
    <3>3. QED
      BY <3>1, <3>2, OutsideKeeps, StutterReplay
  <2>8. QED
    BY <2>1, <2>2, <2>3, <2>4, <2>5, <2>6, <2>7 DEF Next, Quiet
<1>2. QED
  BY <1>1, TransportInit, PTL DEF Spec

\* Whatever requests are lost, delayed, repeated or refused, in whatever order
\* they arrive and whatever the ingester forgets, every event of a body that it can
\* resolve, and so every event it takes, means the series that was recorded
\* (transport.go:214-247, line_protocol_v4.go:56-99).
THEOREM TransportNoMisattribution == Spec => []NoMisattribution
<1>1. Inv => NoMisattribution
  <2> SUFFICES ASSUME Inv, NEW b \in OnTheWire, Resolvable(b), NEW i \in 1..Len(b.refs)
               PROVE  Reading(b, i) = b.meant[i]
    BY DEF NoMisattribution
  <2>1. Backed(encoded, b)
    BY DEF Inv, MessageInv, OnTheWire
  <2>2. QED
    BY <2>1, ReadAsMeant DEF Inv, MessageInv
<1>2. QED
  BY <1>1, TransportInv, PTL

\* Session and revision identify the dictionary, and revisions only add to it
\* (line_protocol_v4.go:97-108).
THEOREM TransportVersioned == Spec => []DictionaryVersioned
<1>1. Inv => DictionaryVersioned
  BY DEF Inv, CodecInv
<1>2. QED
  BY <1>1, TransportInv, PTL

\* The request after a dictionary miss defines every series it refers to, for
\* every payload (transport.go:232-246).
THEOREM TransportResync == Spec => []ResyncSelfContained
<1>1. Inv => ResyncSelfContained
  BY DEF Inv
<1>2. QED
  BY <1>1, TransportInv, PTL

\* A batch that was accepted, in whole or in part, is sent again only if the answer
\* that said so never came, and nil is returned for what was accepted
\* (transport.go:223-247, 303-321, client.go:455-478).
THEOREM TransportReplay == Spec => []ReplayOnlyUnanswered
<1>1. Inv /\ ReplayInv => ReplayOnlyUnanswered
  BY DEF Inv, ReplayInv, RequestInv, Settled, ReplayOnlyUnanswered
<1>2. QED
  BY <1>1, TransportInv, PTL

=============================================================================
