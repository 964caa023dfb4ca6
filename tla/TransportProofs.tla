--------------------------- MODULE TransportProofs ----------------------------
(***************************************************************************)
(* The transport keeps the order of the hub: what is received, what is on   *)
(* the connection, what writePump holds and what waits in the send channel  *)
(* of a client are four stretches of the hub's log, one behind the other.   *)
(***************************************************************************)
EXTENDS Transport, SequenceTheorems, TLAPS

Precedes(log, m, n) == \E j, k \in 1..Len(log) : j < k /\ log[j] = m /\ log[k] = n

Ahead(log, A, C) == \A m \in A, n \in C : Precedes(log, m, n)

\* The messages of `done` come before those of the frames w, these before the ones
\* being written, x, and these before the ones queued, s.
Piped(log, done, w, x, s) ==
  /\ done \cup ToSet(x) \cup ToSet(s) \subseteq ToSet(log)
  /\ Ahead(log, done, ToSet(x)) /\ Ahead(log, done, ToSet(s))
  /\ Ahead(log, ToSet(x), ToSet(s))
  /\ \A j, k \in 1..Len(s) : j < k => Precedes(log, s[j], s[k])
  /\ \A a \in 1..Len(w) :
       /\ ToSet(w[a]) \subseteq ToSet(log)
       /\ Ahead(log, done, ToSet(w[a]))
       /\ Ahead(log, ToSet(w[a]), ToSet(x)) /\ Ahead(log, ToSet(w[a]), ToSet(s))
  /\ \A a, b \in 1..Len(w) : a < b => Ahead(log, ToSet(w[a]), ToSet(w[b]))

Injective(log) == \A j, k \in 1..Len(log) : log[j] = log[k] => j = k

Received(r) == IF entrance[r] = <<>> THEN {} ELSE {Last(entrance[r])}

\* The channel of a client is closed at most once, and not while it is registered.
ClientOK(r) == closed[r] <= 1 /\ (r \in clients => closed[r] = 0)

IInv == /\ TypeOK
        /\ Injective(hubLog) /\ outbound \cap ToSet(hubLog) = {}
        /\ \A r \in Receivers :
             /\ ClientOK(r)
             /\ Piped(hubLog, Received(r), wire[r], writing[r], send[r])

------------------------------------------------------------------------------
(* Sequences as sets of what they hold.                                     *)

LEMMA InToSet ==
  ASSUME NEW S, NEW s \in Seq(S)
  PROVE  \A m : m \in ToSet(s) <=> \E k \in 1..Len(s) : s[k] = m
<1>1. DOMAIN s = 1..Len(s)
  OBVIOUS
<1> QED  BY <1>1 DEF ToSet

LEMMA ToSetEmpty == ToSet(<<>>) = {}
BY DEF ToSet

LEMMA ToSetAppend ==
  ASSUME NEW S, NEW s \in Seq(S), NEW m \in S
  PROVE  ToSet(Append(s, m)) = ToSet(s) \cup {m}
<1>1. /\ Append(s, m) \in Seq(S) /\ Len(Append(s, m)) = Len(s) + 1
      /\ \A k \in 1..Len(s) : Append(s, m)[k] = s[k]
      /\ Append(s, m)[Len(s) + 1] = m /\ Len(s) \in Nat
  BY AppendProperties, LenProperties
<1>2. \A n : n \in ToSet(Append(s, m)) <=> \E k \in 1..Len(s) + 1 : Append(s, m)[k] = n
  <2>1. \A n : n \in ToSet(Append(s, m)) <=>
               \E k \in 1..Len(Append(s, m)) : Append(s, m)[k] = n
    BY <1>1, InToSet
  <2> QED  BY <1>1, <2>1
<1>3. \A n : n \in ToSet(s) <=> \E k \in 1..Len(s) : s[k] = n
  BY InToSet
<1>4. 1..Len(s) + 1 = 1..Len(s) \cup {Len(s) + 1}
  BY <1>1
<1> HIDE DEF ToSet
<1> QED  BY <1>1, <1>2, <1>3, <1>4

LEMMA ToSetConcat ==
  ASSUME NEW S, NEW s \in Seq(S), NEW u \in Seq(S)
  PROVE  ToSet(s \o u) \subseteq ToSet(s) \cup ToSet(u)
<1> SUFFICES ASSUME NEW m \in ToSet(s \o u) PROVE m \in ToSet(s) \cup ToSet(u)
  OBVIOUS
<1>1. /\ s \o u \in Seq(S) /\ Len(s \o u) = Len(s) + Len(u)
      /\ \A k \in 1..Len(s) + Len(u) :
           (s \o u)[k] = IF k <= Len(s) THEN s[k] ELSE u[k - Len(s)]
      /\ Len(s) \in Nat /\ Len(u) \in Nat
  BY ConcatProperties, LenProperties
<1>2. PICK k \in 1..Len(s) + Len(u) : (s \o u)[k] = m
  BY <1>1, InToSet
<1>3. CASE k <= Len(s)
  BY <1>1, <1>2, <1>3, InToSet
<1>4. CASE k > Len(s)
  <2>1. k - Len(s) \in 1..Len(u) /\ u[k - Len(s)] = m
    BY <1>1, <1>2, <1>4
  <2> QED  BY <2>1, InToSet
<1> QED  BY <1>1, <1>3, <1>4

LEMMA ToSetHeadTail ==
  ASSUME NEW S, NEW s \in Seq(S), s # <<>>
  PROVE  /\ Head(s) = s[1] /\ Tail(s) \in Seq(S) /\ 1 \in 1..Len(s)
         /\ Len(Tail(s)) = Len(s) - 1 /\ Len(s) \in Nat
         /\ \A k \in 1..Len(Tail(s)) : k + 1 \in 1..Len(s) /\ Tail(s)[k] = s[k + 1]
         /\ ToSet(Tail(s)) \subseteq ToSet(s)
         /\ Head(s) \in ToSet(s)
<1>1. /\ Head(s) = s[1] /\ Tail(s) \in Seq(S) /\ 1 \in 1..Len(s)
      /\ Len(Tail(s)) = Len(s) - 1 /\ Len(s) \in Nat
      /\ \A k \in 1..Len(Tail(s)) : k + 1 \in 1..Len(s) /\ Tail(s)[k] = s[k + 1]
  BY HeadTailProperties, EmptySeq, LenProperties
<1>2. ToSet(Tail(s)) \subseteq ToSet(s)
  <2> SUFFICES ASSUME NEW m \in ToSet(Tail(s)) PROVE m \in ToSet(s)
    OBVIOUS
  <2>1. PICK k \in 1..Len(Tail(s)) : Tail(s)[k] = m
    BY <1>1, InToSet
  <2>2. k + 1 \in 1..Len(s) /\ s[k + 1] = m
    BY <1>1, <2>1
  <2> QED  BY <2>2, InToSet
<1>3. Head(s) \in ToSet(s)
  BY <1>1, InToSet
<1> QED  BY <1>1, <1>2, <1>3

LEMMA ToSetOne == ASSUME NEW m PROVE ToSet(<<m>>) = {m}
BY DEF ToSet

------------------------------------------------------------------------------
(* What moves through a connection stays in order.                          *)

\* The hub appends a message it has not seen: everything older precedes it.
LEMMA LogGrows ==
  ASSUME NEW log \in Seq(Msgs), NEW m \in Msgs
  PROVE  /\ \A n, o : Precedes(log, n, o) => Precedes(Append(log, m), n, o)
         /\ \A n \in ToSet(log) : Precedes(Append(log, m), n, m)
         /\ Injective(log) /\ m \notin ToSet(log) => Injective(Append(log, m))
<1>1. /\ Len(Append(log, m)) = Len(log) + 1 /\ Len(log) \in Nat
      /\ \A k \in 1..Len(log) : Append(log, m)[k] = log[k]
      /\ Append(log, m)[Len(log) + 1] = m
  BY AppendProperties, LenProperties
<1>2. \A n, o : Precedes(log, n, o) => Precedes(Append(log, m), n, o)
  BY <1>1 DEF Precedes
<1>3. ASSUME NEW n \in ToSet(log) PROVE Precedes(Append(log, m), n, m)
  <2>1. PICK k \in 1..Len(log) : log[k] = n
    BY InToSet
  <2>2. /\ k \in 1..Len(Append(log, m)) /\ Len(log) + 1 \in 1..Len(Append(log, m))
        /\ k < Len(log) + 1
        /\ Append(log, m)[k] = n /\ Append(log, m)[Len(log) + 1] = m
    BY <1>1, <2>1
  <2> QED  BY <2>2 DEF Precedes
<1>4. ASSUME Injective(log), m \notin ToSet(log) PROVE Injective(Append(log, m))
  <2>1. \A k \in 1..Len(log) : log[k] # m
    BY <1>4, InToSet
  <2> QED  BY <1>1, <1>4, <2>1 DEF Injective
<1> QED  BY <1>2, <1>3, <1>4

LEMMA PipedGrows ==
  ASSUME NEW log \in Seq(Msgs), NEW m \in Msgs,
         NEW done, NEW w, NEW x, NEW s, Piped(log, done, w, x, s)
  PROVE  Piped(Append(log, m), done, w, x, s)
<1>1. ToSet(log) \subseteq ToSet(Append(log, m))
  BY ToSetAppend
<1>2. \A A, C : Ahead(log, A, C) => Ahead(Append(log, m), A, C)
  BY LogGrows DEF Ahead
<1>3. \A n, o : Precedes(log, n, o) => Precedes(Append(log, m), n, o)
  BY LogGrows
<1> QED  BY <1>1, <1>2, <1>3 DEF Piped

LEMMA PipedSends ==
  ASSUME NEW log \in Seq(Msgs), NEW m \in Msgs,
         NEW done, NEW w, NEW x, NEW s \in Seq(Msgs), Piped(log, done, w, x, s)
  PROVE  Piped(Append(log, m), done, w, x, Append(s, m))
<1> DEFINE l == Append(log, m)
           u == Append(s, m)
<1>1. Piped(l, done, w, x, s)
  BY PipedGrows
<1>2. ToSet(l) = ToSet(log) \cup {m} /\ ToSet(u) = ToSet(s) \cup {m}
  BY ToSetAppend
<1>3. \A n \in ToSet(log) : Precedes(l, n, m)
  BY LogGrows
<1>4. /\ done \subseteq ToSet(log) /\ ToSet(x) \subseteq ToSet(log)
      /\ ToSet(s) \subseteq ToSet(log)
      /\ \A a \in 1..Len(w) : ToSet(w[a]) \subseteq ToSet(log)
  BY DEF Piped
<1>5. /\ Len(u) = Len(s) + 1 /\ Len(s) \in Nat
      /\ \A k \in 1..Len(s) : u[k] = s[k] /\ s[k] \in ToSet(log)
      /\ u[Len(s) + 1] = m
  <2>1. /\ Len(u) = Len(s) + 1 /\ Len(s) \in Nat
        /\ \A k \in 1..Len(s) : u[k] = s[k]
        /\ u[Len(s) + 1] = m
    BY AppendProperties, LenProperties
  <2>2. \A k \in 1..Len(s) : s[k] \in ToSet(s)
    BY InToSet
  <2> QED  BY <1>4, <2>1, <2>2
<1> HIDE DEF l, u
<1>6. \A A : A \subseteq ToSet(log) /\ Ahead(l, A, ToSet(s)) => Ahead(l, A, ToSet(u))
  BY <1>2, <1>3 DEF Ahead
<1>7. \A j, k \in 1..Len(u) : j < k => Precedes(l, u[j], u[k])
  <2> SUFFICES ASSUME NEW j \in 1..Len(u), NEW k \in 1..Len(u), j < k
               PROVE  Precedes(l, u[j], u[k])
    OBVIOUS
  <2>1. j \in 1..Len(s)
    BY <1>5
  <2>2. CASE k = Len(s) + 1
    BY <1>3, <1>5, <2>1, <2>2
  <2>3. CASE k \in 1..Len(s)
    BY <1>1, <1>5, <2>1, <2>3 DEF Piped
  <2> QED  BY <1>5, <2>2, <2>3
<1>8. /\ Ahead(l, done, ToSet(u)) /\ Ahead(l, ToSet(x), ToSet(u))
      /\ \A a \in 1..Len(w) : Ahead(l, ToSet(w[a]), ToSet(u))
  <2>1. /\ Ahead(l, done, ToSet(s)) /\ Ahead(l, ToSet(x), ToSet(s))
        /\ \A a \in 1..Len(w) : Ahead(l, ToSet(w[a]), ToSet(s))
    BY <1>1 DEF Piped
  <2> QED  BY <1>4, <1>6, <2>1
<1>9. /\ done \cup ToSet(x) \cup ToSet(u) \subseteq ToSet(l)
      /\ \A a \in 1..Len(w) : ToSet(w[a]) \subseteq ToSet(l)
  BY <1>2, <1>4
<1> HIDE DEF Ahead
<1> QED  BY <1>1, <1>7, <1>8, <1>9 DEF Piped, l, u

LEMMA PipedTakes ==
  ASSUME NEW log \in Seq(Msgs), NEW done, NEW w, NEW s \in Seq(Msgs), s # <<>>,
         Piped(log, done, w, <<>>, s)
  PROVE  Piped(log, done, w, <<Head(s)>>, Tail(s))
<1>1. /\ ToSet(Tail(s)) \subseteq ToSet(s) /\ Head(s) \in ToSet(s)
      /\ Head(s) = s[1] /\ 1 \in 1..Len(s) /\ Len(s) \in Nat /\ Tail(s) \in Seq(Msgs)
      /\ Len(Tail(s)) = Len(s) - 1
      /\ \A k \in 1..Len(Tail(s)) : k + 1 \in 1..Len(s) /\ Tail(s)[k] = s[k + 1]
  BY ToSetHeadTail
<1>2. \A A : Ahead(log, A, ToSet(s)) => /\ Ahead(log, A, ToSet(Tail(s)))
                                        /\ Ahead(log, A, ToSet(<<Head(s)>>))
  BY <1>1, ToSetOne DEF Ahead
<1>3. \A j, k \in 1..Len(s) : j < k => Precedes(log, s[j], s[k])
  BY DEF Piped
<1>4. Ahead(log, ToSet(<<Head(s)>>), ToSet(Tail(s)))
  <2> SUFFICES ASSUME NEW n \in ToSet(Tail(s)) PROVE Precedes(log, Head(s), n)
    BY ToSetOne DEF Ahead
  <2>1. PICK k \in 1..Len(Tail(s)) : Tail(s)[k] = n
    BY <1>1, InToSet
  <2> QED  BY <1>1, <1>3, <2>1
<1>5. \A j, k \in 1..Len(Tail(s)) : j < k => Precedes(log, Tail(s)[j], Tail(s)[k])
  BY <1>1, <1>3
<1>6. ToSet(<<Head(s)>>) \subseteq ToSet(s)
  BY <1>1, ToSetOne
<1> QED  BY <1>1, <1>2, <1>4, <1>5, <1>6 DEF Piped

\* A new last frame, of what was being written and all that was queued.
LEMMA PipedWrites ==
  ASSUME NEW log \in Seq(Msgs), NEW done, NEW w \in Seq(Seq(Msgs)),
         NEW x \in Seq(Msgs), NEW s \in Seq(Msgs), Piped(log, done, w, x, s)
  PROVE  Piped(log, done, Append(w, x \o s), <<>>, <<>>)
<1> DEFINE f == x \o s
           v == Append(w, f)
<1>1. f \in Seq(Msgs) /\ ToSet(f) \subseteq ToSet(x) \cup ToSet(s)
  BY ToSetConcat, ConcatProperties
<1>2. \A A : Ahead(log, A, ToSet(x)) /\ Ahead(log, A, ToSet(s)) => Ahead(log, A, ToSet(f))
  BY <1>1 DEF Ahead
<1> HIDE DEF f
<1>3. /\ Len(v) = Len(w) + 1 /\ Len(w) \in Nat
      /\ \A a \in 1..Len(w) : v[a] = w[a]
      /\ v[Len(w) + 1] = f
  BY <1>1, AppendProperties, LenProperties
<1> HIDE DEF v
<1>4. \A A : Ahead(log, A, ToSet(<<>>)) /\ Ahead(log, ToSet(<<>>), A)
  BY ToSetEmpty DEF Ahead
<1>5. ToSet(f) \subseteq ToSet(log) /\ Ahead(log, done, ToSet(f))
  BY <1>1, <1>2 DEF Piped
<1>6. \A a \in 1..Len(w) : Ahead(log, ToSet(w[a]), ToSet(f))
  BY <1>2 DEF Piped
<1>7. \A a \in 1..Len(v) : ToSet(v[a]) \subseteq ToSet(log) /\ Ahead(log, done, ToSet(v[a]))
  <2> SUFFICES ASSUME NEW a \in 1..Len(v)
               PROVE  ToSet(v[a]) \subseteq ToSet(log) /\ Ahead(log, done, ToSet(v[a]))
    OBVIOUS
  <2>1. a \in 1..Len(w) \/ a = Len(w) + 1
    BY <1>3
  <2> QED  BY <1>3, <1>5, <2>1 DEF Piped
<1>8. \A a, b \in 1..Len(v) : a < b => Ahead(log, ToSet(v[a]), ToSet(v[b]))
  <2> SUFFICES ASSUME NEW a \in 1..Len(v), NEW b \in 1..Len(v), a < b
               PROVE  Ahead(log, ToSet(v[a]), ToSet(v[b]))
    OBVIOUS
  <2>1. a \in 1..Len(w) /\ (b \in 1..Len(w) \/ b = Len(w) + 1)
    BY <1>3
  <2> QED  BY <1>3, <1>6, <2>1 DEF Piped
<1>9. Len(<<>>) = 0 /\ done \subseteq ToSet(log)
  BY DEF Piped
<1> QED  BY <1>4, <1>7, <1>8, <1>9, ToSetEmpty DEF Piped, f, v

\* The first frame is gone; if it was one message, that message has been received.
LEMMA PipedReceives ==
  ASSUME NEW log \in Seq(Msgs), NEW done, NEW w \in Seq(Seq(Msgs)), w # <<>>,
         NEW x, NEW s, Piped(log, done, w, x, s)
  PROVE  /\ Piped(log, done, Tail(w), x, s)
         /\ \A m \in ToSet(Head(w)) : Piped(log, {m}, Tail(w), x, s)
<1>1. /\ Head(w) = w[1] /\ 1 \in 1..Len(w) /\ Len(w) \in Nat
      /\ Len(Tail(w)) = Len(w) - 1
      /\ \A k \in 1..Len(Tail(w)) : k + 1 \in 1..Len(w) /\ Tail(w)[k] = w[k + 1]
  BY ToSetHeadTail
<1>2. ASSUME NEW d, d \subseteq ToSet(log), Ahead(log, d, ToSet(x)), Ahead(log, d, ToSet(s)),
             \A a \in 1..Len(Tail(w)) : Ahead(log, d, ToSet(w[a + 1]))
      PROVE  Piped(log, d, Tail(w), x, s)
  <2>1. \A a \in 1..Len(Tail(w)) :
          /\ ToSet(Tail(w)[a]) \subseteq ToSet(log)
          /\ Ahead(log, d, ToSet(Tail(w)[a]))
          /\ Ahead(log, ToSet(Tail(w)[a]), ToSet(x)) /\ Ahead(log, ToSet(Tail(w)[a]), ToSet(s))
    BY <1>1, <1>2 DEF Piped
  <2>2. \A a, b \in 1..Len(Tail(w)) :
          a < b => Ahead(log, ToSet(Tail(w)[a]), ToSet(Tail(w)[b]))
    BY <1>1 DEF Piped
  <2>3. /\ ToSet(x) \cup ToSet(s) \subseteq ToSet(log) /\ Ahead(log, ToSet(x), ToSet(s))
        /\ \A j, k \in 1..Len(s) : j < k => Precedes(log, s[j], s[k])
    BY DEF Piped
  <2> QED  BY <1>2, <2>1, <2>2, <2>3 DEF Piped
<1>3. Piped(log, done, Tail(w), x, s)
  BY <1>1, <1>2 DEF Piped
<1>4. ASSUME NEW m \in ToSet(Head(w)) PROVE Piped(log, {m}, Tail(w), x, s)
  <2>1. ToSet(w[1]) \subseteq ToSet(log) /\ Ahead(log, ToSet(w[1]), ToSet(x))
        /\ Ahead(log, ToSet(w[1]), ToSet(s))
    BY <1>1 DEF Piped
  <2>2. \A a \in 1..Len(Tail(w)) : Ahead(log, ToSet(w[1]), ToSet(w[a + 1]))
    BY <1>1 DEF Piped
  <2>3. \A C : Ahead(log, ToSet(w[1]), C) => Ahead(log, {m}, C)
    BY <1>1 DEF Ahead
  <2> QED  BY <1>1, <1>2, <2>1, <2>2, <2>3
<1> QED  BY <1>3, <1>4

\* What the connection, or its client, held is lost.
LEMMA PipedLoses ==
  ASSUME NEW log \in Seq(Msgs), NEW done, NEW w, NEW x, NEW s, Piped(log, done, w, x, s)
  PROVE  /\ Piped(log, done, <<>>, x, s)
         /\ Piped(log, done, <<Closed>>, x, s)
         /\ Piped(log, done, w, <<>>, <<>>)
         /\ Piped(log, done, <<>>, <<>>, <<>>)
<1>1. \A A : Ahead(log, A, {}) /\ Ahead(log, {}, A)
  BY DEF Ahead
<1>2. Piped(log, done, <<>>, x, s)
  BY DEF Piped
<1>3. Piped(log, done, <<Closed>>, x, s)
  <2> DEFINE v == <<Closed>>
  <2>1. Len(v) = 1 /\ v[1] = <<>>
    BY DEF Closed
  <2> HIDE DEF v
  <2>2. \A a \in 1..Len(v) : ToSet(v[a]) = {}
    BY <2>1, ToSetEmpty
  <2>3. Piped(log, done, v, x, s)
    BY <1>1, <2>2 DEF Piped
  <2> QED  BY <2>3 DEF v
<1>4. ASSUME NEW u, Piped(log, done, u, x, s) PROVE Piped(log, done, u, <<>>, <<>>)
  <2>1. \A j, k \in 1..Len(<<>>) : FALSE
    BY EmptySeq
  <2> QED  BY <1>1, <1>4, <2>1, ToSetEmpty DEF Piped
<1> QED  BY <1>2, <1>3, <1>4

------------------------------------------------------------------------------
(* The invariant, action by action.                                         *)

LEMMA InitIInv == Init => IInv
<1> SUFFICES ASSUME Init PROVE IInv
  OBVIOUS
<1>1. <<>> \in Seq(Msgs) /\ <<>> \in Seq(Seq(Msgs)) /\ Len(<<>>) = 0
  BY EmptySeq
<1>2. TypeOK
  BY <1>1, TransportAssumption DEF Init, TypeOK
<1>3. Injective(hubLog) /\ outbound \cap ToSet(hubLog) = {}
  BY <1>1 DEF Init, Injective
<1>4. ASSUME NEW r \in Receivers PROVE ClientOK(r)
  BY DEF Init, ClientOK
<1>5. Piped(<<>>, {}, <<>>, <<>>, <<>>)
  BY <1>1, ToSetEmpty DEF Piped, Ahead
<1>6. ASSUME NEW r \in Receivers PROVE Piped(hubLog, Received(r), wire[r], writing[r], send[r])
  <2>1. hubLog = <<>> /\ Received(r) = {} /\ wire[r] = <<>> /\ writing[r] = <<>> /\ send[r] = <<>>
    BY DEF Init, Received
  <2> QED  BY <1>5, <2>1
<1> QED  BY <1>2, <1>3, <1>4, <1>6 DEF IInv

LEMMA Types ==
  ASSUME IInv, NEW r \in Receivers
  PROVE  /\ hubLog \in Seq(Msgs) /\ send[r] \in Seq(Msgs) /\ writing[r] \in Seq(Msgs)
         /\ wire[r] \in Seq(Seq(Msgs)) /\ entrance[r] \in Seq(Msgs)
         /\ Len(send[r]) \in Nat /\ Len(send[r]) <= SendCap /\ SendCap \in Nat
         /\ closed[r] \in Nat /\ reader[r] \in {"read", "dial", "discard"}
BY TransportAssumption, LenProperties DEF IInv, TypeOK

\* The connection of one receiver changes, and the log of the hub does not.
LEMMA OneConnection ==
  ASSUME IInv, TypeOK', UNCHANGED <<outbound, hubLog>>, NEW r \in Receivers,
         ClientOK(r)',
         Piped(hubLog, Received(r)', wire'[r], writing'[r], send'[r]),
         \A q \in Receivers \ {r} :
           /\ q \in clients' <=> q \in clients
           /\ closed'[q] = closed[q] /\ entrance'[q] = entrance[q]
           /\ wire'[q] = wire[q] /\ writing'[q] = writing[q] /\ send'[q] = send[q]
  PROVE  IInv'
<1>1. ASSUME NEW q \in Receivers \ {r}
      PROVE  ClientOK(q)' /\ Piped(hubLog', Received(q)', wire'[q], writing'[q], send'[q])
  BY DEF IInv, ClientOK, Received
<1>2. \A q \in Receivers :
        ClientOK(q)' /\ Piped(hubLog', Received(q)', wire'[q], writing'[q], send'[q])
  BY <1>1
<1>3. Injective(hubLog') /\ outbound' \cap ToSet(hubLog') = {}
  BY DEF IInv
<1> QED  BY <1>2, <1>3 DEF IInv

LEMMA BroadcastIInv ==
  ASSUME IInv, NEW m \in Msgs, Broadcast(m)
  PROVE  IInv'
<1>1. TypeOK'
  BY DEF IInv, TypeOK, Broadcast, client
<1>2. /\ hubLog' = hubLog /\ outbound' \cap ToSet(hubLog) = {}
      /\ UNCHANGED <<clients, closed, pump, send, writing, wire, reader, entrance>>
  BY DEF Broadcast, IInv, client
<1> QED  BY <1>1, <1>2 DEF IInv, ClientOK, Received

LEMMA HubBroadcastIInv ==
  ASSUME IInv, NEW m \in Msgs, HubBroadcast(m)
  PROVE  IInv'
<1>1. /\ m \notin ToSet(hubLog) /\ hubLog \in Seq(Msgs) /\ Injective(hubLog)
      /\ outbound \subseteq Msgs /\ clients \subseteq Receivers
      /\ outbound' = outbound \ {m} /\ hubLog' = Append(hubLog, m)
      /\ clients' = clients \ Overflowing
      /\ UNCHANGED <<pump, writing, wire, reader, entrance, fails>>
  BY DEF HubBroadcast, IInv, TypeOK
<1>2. hubLog' \in Seq(Msgs) /\ ToSet(hubLog') = ToSet(hubLog) \cup {m} /\ Injective(hubLog')
  BY <1>1, AppendProperties, ToSetAppend, LogGrows
<1>3. outbound' \subseteq Msgs /\ outbound' \cap ToSet(hubLog') = {}
  BY <1>1, <1>2 DEF IInv
<1>4. ASSUME NEW r \in Receivers
      PROVE  /\ closed'[r] = closed[r] + (IF r \in Overflowing THEN 1 ELSE 0)
             /\ send'[r] = IF r \in clients' THEN Append(send[r], m) ELSE send[r]
  BY DEF HubBroadcast
<1>5. ASSUME NEW r \in Receivers
      PROVE  send'[r] \in Seq(Msgs) /\ Len(send'[r]) <= SendCap
  <2>1. CASE r \in clients'
    <3>1. ~(Len(send[r]) >= SendCap)
      BY <1>1, <2>1 DEF Overflowing
    <3>2. Append(send[r], m) \in Seq(Msgs) /\ Len(Append(send[r], m)) = Len(send[r]) + 1
      BY Types, AppendProperties
    <3>3. send'[r] = Append(send[r], m)
      BY <1>4, <2>1
    <3>4. Len(send[r]) \in Nat /\ SendCap \in Nat
      BY Types
    <3>5. Len(send[r]) + 1 <= SendCap
      BY <3>1, <3>4
    <3> QED  BY <3>2, <3>3, <3>5
  <2>2. CASE r \notin clients'
    BY <1>4, <2>2, Types
  <2> QED  BY <2>1, <2>2
<1>6. TypeOK'
  <2>1. closed' \in [Receivers -> Nat] /\ send' \in [Receivers -> Seq(Msgs)]
    <3>1. closed' = [r \in Receivers |-> closed[r] + (IF r \in Overflowing THEN 1 ELSE 0)]
          /\ send' = [r \in Receivers |-> IF r \in clients' THEN Append(send[r], m) ELSE send[r]]
      BY DEF HubBroadcast
    <3>2. \A r \in Receivers : closed'[r] \in Nat
      BY <1>4, Types
    <3> QED  BY <1>5, <3>1, <3>2
  <2> QED  BY <1>1, <1>2, <1>3, <1>5, <2>1 DEF IInv, TypeOK
<1>7. ASSUME NEW r \in Receivers PROVE ClientOK(r)'
  <2>1. closed[r] \in Nat /\ closed[r] <= 1 /\ (r \in clients => closed[r] = 0)
    BY Types DEF IInv, ClientOK
  <2>2. r \in Overflowing => r \in clients
    BY DEF Overflowing
  <2>3. CASE r \in Overflowing
    <3>1. closed'[r] = closed[r] + 1 /\ r \notin clients'
      BY <1>1, <1>4, <2>3
    <3> QED  BY <2>1, <2>2, <2>3, <3>1 DEF ClientOK
  <2>4. CASE r \notin Overflowing
    <3>1. closed'[r] = closed[r] /\ (r \in clients' => r \in clients)
      BY <1>1, <1>4, <2>1, <2>4
    <3> QED  BY <2>1, <3>1 DEF ClientOK
  <2> QED  BY <2>3, <2>4
<1>8. ASSUME NEW r \in Receivers
      PROVE  Piped(hubLog', Received(r)', wire'[r], writing'[r], send'[r])
  <2>1. Piped(hubLog, Received(r), wire[r], writing[r], send[r])
    BY DEF IInv
  <2>2. /\ Piped(hubLog', Received(r), wire[r], writing[r], send[r])
        /\ Piped(hubLog', Received(r), wire[r], writing[r], Append(send[r], m))
    BY <1>1, <2>1, Types, PipedGrows, PipedSends
  <2>3. send'[r] = send[r] \/ send'[r] = Append(send[r], m)
    BY <1>4
  <2>4. Received(r)' = Received(r)
    BY <1>1 DEF Received
  <2> QED  BY <1>1, <2>2, <2>3, <2>4
<1> QED  BY <1>2, <1>3, <1>6, <1>7, <1>8 DEF IInv

LEMMA WritePumpIInv ==
  ASSUME IInv, NEW r \in Receivers, writePump(r)
  PROVE  IInv'
<1>1. /\ ClientOK(r) /\ Piped(hubLog, Received(r), wire[r], writing[r], send[r])
      /\ send \in [Receivers -> Seq(Msgs)] /\ writing \in [Receivers -> Seq(Msgs)]
      /\ wire \in [Receivers -> Seq(Seq(Msgs))]
      /\ \A q \in Receivers : Len(send[q]) <= SendCap
  BY DEF IInv, TypeOK
<1>2. <<>> \in Seq(Msgs) /\ Len(<<>>) = 0 /\ SendCap \in Nat
  BY EmptySeq, TransportAssumption
<1>3. CASE TakeFirst(r)
  <2>1. /\ writing[r] = <<>> /\ send[r] # <<>>
        /\ writing' = [writing EXCEPT ![r] = <<Head(send[r])>>]
        /\ send'    = [send EXCEPT ![r] = Tail(send[r])]
        /\ UNCHANGED <<outbound, hubLog, clients, closed, pump, wire, reader, entrance, fails>>
    BY <1>3 DEF TakeFirst
  <2>2. /\ Head(send[r]) \in Msgs /\ Tail(send[r]) \in Seq(Msgs)
        /\ Len(Tail(send[r])) <= Len(send[r])
        /\ Len(Tail(send[r])) \in Nat /\ Len(send[r]) \in Nat
    BY <1>1, <2>1, HeadTailProperties, LenProperties
  <2>3. <<Head(send[r])>> \in Seq(Msgs)
    BY <2>2
  <2>4. \A q \in Receivers : Len(send'[q]) <= SendCap
    BY <1>1, <1>2, <2>1, <2>2, LenProperties
  <2>5. TypeOK'
    BY <2>1, <2>2, <2>3, <2>4 DEF IInv, TypeOK
  <2>6. ClientOK(r)'
    BY <1>1, <2>1 DEF ClientOK
  <2>7. Piped(hubLog, Received(r), wire[r], <<Head(send[r])>>, Tail(send[r]))
    BY <1>1, <2>1, Types, PipedTakes
  <2> QED  BY <1>1, <2>1, <2>5, <2>6, <2>7, OneConnection DEF Received
<1>4. CASE WriteFrame(r)
  <2> DEFINE f == writing[r] \o send[r]
             w == IF Ended(r) THEN wire[r] ELSE Append(wire[r], f)
  <2>1. /\ wire'    = [wire EXCEPT ![r] = w]
        /\ send'    = [send EXCEPT ![r] = <<>>]
        /\ writing' = [writing EXCEPT ![r] = <<>>]
        /\ UNCHANGED <<outbound, hubLog, clients, closed, pump, reader, entrance, fails>>
    BY <1>4 DEF WriteFrame
  <2>2. w \in Seq(Seq(Msgs))
    <3> DEFINE Frame == Seq(Msgs)
    <3>1. wire[r] \in Seq(Frame) /\ f \in Frame
      BY <1>1, ConcatProperties
    <3> HIDE DEF Frame, f
    <3>2. Append(wire[r], f) \in Seq(Frame)
      BY <3>1, AppendProperties
    <3> QED  BY <3>1, <3>2 DEF Frame
  <2>3. Piped(hubLog, Received(r), w, <<>>, <<>>)
    BY <1>1, Types, PipedWrites, PipedLoses
  <2> HIDE DEF w
  <2>4. TypeOK'
    <3>1. /\ send' \in [Receivers -> Seq(Msgs)] /\ writing' \in [Receivers -> Seq(Msgs)]
          /\ wire' \in [Receivers -> Seq(Seq(Msgs))]
      BY <1>1, <1>2, <2>1, <2>2
    <3>2. \A q \in Receivers : Len(send'[q]) <= SendCap
      BY <1>1, <1>2, <2>1
    <3> QED  BY <2>1, <3>1, <3>2 DEF IInv, TypeOK
  <2>5. ClientOK(r)'
    BY <1>1, <2>1 DEF ClientOK
  <2> QED  BY <1>1, <2>1, <2>3, <2>4, <2>5, OneConnection DEF Received
<1>5. CASE WriteClose(r)
  <2>1. /\ writing[r] = <<>> /\ send[r] = <<>>
        /\ wire' = [wire EXCEPT ![r] = Append(wire[r], Closed)]
        /\ UNCHANGED <<outbound, hubLog, clients, closed, pump, send, writing, reader, entrance, fails>>
    BY <1>5 DEF WriteClose, client
  <2>2. Append(wire[r], Closed) \in Seq(Seq(Msgs))
    BY <1>1, <1>2, AppendProperties DEF Closed
  <2>3. <<>> \o <<>> = <<>>
    BY <1>2, ConcatProperties, EmptySeq
  <2>4. Piped(hubLog, Received(r), Append(wire[r], Closed), <<>>, <<>>)
    BY <1>1, <2>1, <2>3, Types, PipedWrites DEF Closed
  <2>5. TypeOK'
    BY <2>1, <2>2 DEF IInv, TypeOK
  <2>6. ClientOK(r)'
    BY <1>1, <2>1 DEF ClientOK
  <2> QED  BY <1>1, <2>1, <2>4, <2>5, <2>6, OneConnection DEF Received
<1> QED  BY <1>3, <1>4, <1>5 DEF writePump

LEMMA ReceiveLoopIInv ==
  ASSUME IInv, NEW r \in Receivers, receiveLoop(r)
  PROVE  IInv'
<1>1. /\ ClientOK(r) /\ Piped(hubLog, Received(r), wire[r], writing[r], send[r])
      /\ wire \in [Receivers -> Seq(Seq(Msgs))] /\ entrance \in [Receivers -> Seq(Msgs)]
      /\ reader \in [Receivers -> {"read", "dial", "discard"}]
  BY DEF IInv, TypeOK
<1>2. <<>> \in Seq(Seq(Msgs)) /\ ToSet(<<>>) = {}
  BY EmptySeq, ToSetEmpty
<1>3. wire[r] # <<>> =>
        /\ Tail(wire[r]) \in Seq(Seq(Msgs)) /\ Head(wire[r]) \in Seq(Msgs)
        /\ ToSet(Tail(wire[r])) \subseteq ToSet(wire[r]) /\ Head(wire[r]) \in ToSet(wire[r])
        /\ Piped(hubLog, Received(r), Tail(wire[r]), writing[r], send[r])
        /\ \A m \in ToSet(Head(wire[r])) :
             Piped(hubLog, {m}, Tail(wire[r]), writing[r], send[r])
  BY <1>1, ToSetHeadTail, HeadTailProperties, PipedReceives, Types
<1>4. CASE Receive(r)
  <2>1. /\ reader[r] = "read" /\ wire[r] # <<>>
        /\ wire' = [wire EXCEPT ![r] = Tail(wire[r])]
        /\ entrance' = [entrance EXCEPT ![r] =
             IF Len(Head(wire[r])) = 1 THEN entrance[r] \o Head(wire[r]) ELSE entrance[r]]
        /\ UNCHANGED <<outbound, hubLog, clients, closed, pump, send, writing, reader, fails>>
    BY <1>4 DEF Receive, client
  <2>2. ClientOK(r)'
    BY <1>1, <2>1 DEF ClientOK
  <2>3. CASE Len(Head(wire[r])) # 1
    <3>1. entrance' = entrance
      BY <1>1, <2>1, <2>3
    <3>2. TypeOK'
      BY <1>3, <2>1, <3>1 DEF IInv, TypeOK
    <3>3. Received(r)' = Received(r)
      BY <3>1 DEF Received
    <3> QED  BY <1>1, <1>3, <2>1, <2>2, <3>1, <3>2, <3>3, OneConnection
  <2>4. CASE Len(Head(wire[r])) = 1
    <3> DEFINE h == Head(wire[r])
               e == entrance[r]
               m == h[1]
    <3>0. h \in Seq(Msgs) /\ e \in Seq(Msgs) /\ Len(h) = 1 /\ Len(e) \in Nat
      BY <1>1, <1>3, <2>1, <2>4, LenProperties
    <3> HIDE DEF h, e
    <3>1. m \in ToSet(h)
      BY <3>0, InToSet
    <3>2. /\ e \o h \in Seq(Msgs) /\ Len(e \o h) = Len(e) + 1
          /\ (e \o h)[Len(e) + 1] = m
      <4>1. /\ e \o h \in Seq(Msgs) /\ Len(e \o h) = Len(e) + Len(h)
            /\ \A k \in 1..Len(e) + Len(h) :
                 (e \o h)[k] = IF k <= Len(e) THEN e[k] ELSE h[k - Len(e)]
        BY <3>0, ConcatProperties
      <4>2. /\ Len(e) + 1 \in 1..Len(e) + Len(h) /\ ~(Len(e) + 1 <= Len(e))
            /\ Len(e) + 1 - Len(e) = 1
        BY <3>0
      <4> QED  BY <3>0, <4>1, <4>2
    <3>3. entrance'[r] = e \o h /\ \A q \in Receivers \ {r} : entrance'[q] = entrance[q]
      BY <1>1, <2>1, <2>4 DEF e, h
    <3>4. Received(r)' = {m}
      <4>1. Last(e \o h) = m
        BY <3>2 DEF Last
      <4>2. e \o h # <<>>
        BY <3>0, <3>2, EmptySeq
      <4> QED  BY <3>3, <4>1, <4>2 DEF Received
    <3>5. TypeOK'
      BY <1>1, <1>3, <2>1, <2>4, <3>2 DEF IInv, TypeOK, e, h
    <3>6. Piped(hubLog, {m}, Tail(wire[r]), writing[r], send[r])
      BY <1>3, <2>1, <3>1 DEF h
    <3> HIDE DEF m
    <3> QED  BY <1>1, <2>1, <2>2, <3>3, <3>4, <3>5, <3>6, OneConnection
  <2> QED  BY <2>3, <2>4
<1>5. CASE LoseConnection(r)
  <2>1. /\ wire[r] # <<>> /\ Head(wire[r]) = Closed
        /\ reader' = [reader EXCEPT ![r] = "dial"]
        /\ wire'   = [wire EXCEPT ![r] = <<>>]
        /\ UNCHANGED <<outbound, hubLog, clients, closed, pump, send, writing, entrance, fails>>
    BY <1>5 DEF LoseConnection, client
  <2>2. ClientOK(r)'
    BY <1>1, <2>1 DEF ClientOK
  <2>3. TypeOK'
    BY <1>2, <2>1 DEF IInv, TypeOK
  <2>4. Piped(hubLog, Received(r), <<>>, writing[r], send[r])
    BY <1>1, Types, PipedLoses
  <2> QED  BY <1>1, <2>1, <2>2, <2>3, <2>4, OneConnection DEF Received
<1>6. CASE Redial(r)
  <2>1. /\ reader'  = [reader EXCEPT ![r] = "discard"]
        /\ clients' = clients \ {r}
        /\ closed'  = [closed EXCEPT ![r] = 0]
        /\ pump'    = [pump EXCEPT ![r] = FALSE]
        /\ send'    = [send EXCEPT ![r] = <<>>]
        /\ writing' = [writing EXCEPT ![r] = <<>>]
        /\ wire'    = [wire EXCEPT ![r] = <<>>]
        /\ UNCHANGED <<outbound, hubLog, entrance, fails>>
    BY <1>6 DEF Redial
  <2>2. ClientOK(r)'
    BY <1>1, <2>1 DEF ClientOK, IInv, TypeOK
  <2>3. TypeOK'
    <3>1. <<>> \in Seq(Msgs) /\ Len(<<>>) = 0 /\ SendCap \in Nat
      BY EmptySeq, TransportAssumption
    <3>2. /\ send' \in [Receivers -> Seq(Msgs)] /\ writing' \in [Receivers -> Seq(Msgs)]
          /\ wire' \in [Receivers -> Seq(Seq(Msgs))]
          /\ closed' \in [Receivers -> Nat] /\ pump' \in [Receivers -> BOOLEAN]
      BY <1>2, <2>1, <3>1 DEF IInv, TypeOK
    <3>3. \A q \in Receivers : Len(send'[q]) <= SendCap
      BY <2>1, <3>1 DEF IInv, TypeOK
    <3> QED  BY <2>1, <3>2, <3>3 DEF IInv, TypeOK
  <2>4. Piped(hubLog, Received(r), <<>>, <<>>, <<>>)
    BY <1>1, Types, PipedLoses
  <2>5. wire'[r] = <<>> /\ writing'[r] = <<>> /\ send'[r] = <<>>
    BY <2>1 DEF IInv, TypeOK
  <2>6. Received(r)' = Received(r)
    BY <2>1 DEF Received
  <2>7. /\ outbound' = outbound /\ hubLog' = hubLog
        /\ \A q \in Receivers \ {r} :
             /\ q \in clients' <=> q \in clients
             /\ closed'[q] = closed[q] /\ entrance'[q] = entrance[q]
             /\ wire'[q] = wire[q] /\ writing'[q] = writing[q] /\ send'[q] = send[q]
    BY <2>1 DEF IInv, TypeOK
  <2>8. Piped(hubLog, Received(r)', wire'[r], writing'[r], send'[r])
    BY <2>4, <2>5, <2>6
  <2> QED  BY <2>2, <2>3, <2>7, <2>8, OneConnection
<1>7. CASE Discard(r)
  <2>1. /\ wire[r] # <<>> /\ reader[r] = "discard"
        /\ reader' = [reader EXCEPT ![r] = "read"]
        /\ wire' = [wire EXCEPT ![r] = IF Head(wire[r]) = Closed THEN wire[r] ELSE Tail(wire[r])]
        /\ UNCHANGED <<outbound, hubLog, clients, closed, pump, send, writing, entrance, fails>>
    BY <1>7 DEF Discard, client
  <2>2. /\ wire'[r] = wire[r] \/ wire'[r] = Tail(wire[r])
        /\ wire'[r] \in Seq(Seq(Msgs))
    BY <1>1, <1>3, <2>1
  <2>3. ClientOK(r)'
    BY <1>1, <2>1 DEF ClientOK
  <2>4. TypeOK'
    BY <1>1, <1>3, <2>1, <2>2 DEF IInv, TypeOK
  <2>5. Piped(hubLog, Received(r), wire'[r], writing[r], send[r])
    BY <1>1, <1>3, <2>1, <2>2
  <2> QED  BY <1>1, <2>1, <2>3, <2>4, <2>5, OneConnection DEF Received
<1> QED  BY <1>4, <1>5, <1>6, <1>7 DEF receiveLoop

LEMMA ClientIInv ==
  ASSUME IInv, NEW r \in Receivers, Register(r) \/ Unregister(r) \/ Fail(r)
  PROVE  IInv'
<1>1. /\ ClientOK(r) /\ Piped(hubLog, Received(r), wire[r], writing[r], send[r])
      /\ wire \in [Receivers -> Seq(Seq(Msgs))] /\ closed \in [Receivers -> Nat]
      /\ clients \subseteq Receivers
  BY DEF IInv, TypeOK
<1>2. CASE Register(r)
  <2>1. /\ closed[r] = 0 /\ clients' = clients \cup {r}
        /\ pump' = [pump EXCEPT ![r] = TRUE]
        /\ UNCHANGED <<outbound, hubLog, closed, send, writing, wire, reader, entrance, fails>>
    BY <1>2 DEF Register
  <2>2. TypeOK'
    BY <2>1 DEF IInv, TypeOK
  <2>3. ClientOK(r)'
    BY <1>1, <2>1 DEF ClientOK
  <2> QED  BY <1>1, <2>1, <2>2, <2>3, OneConnection DEF Received
<1>3. CASE Unregister(r)
  <2>1. /\ pump'    = [pump EXCEPT ![r] = FALSE]
        /\ clients' = clients \ {r}
        /\ closed'  = [closed EXCEPT ![r] = IF r \in clients THEN closed[r] + 1 ELSE closed[r]]
        /\ UNCHANGED <<outbound, hubLog, send, writing, wire, reader, entrance, fails>>
    BY <1>3 DEF Unregister
  <2>2. TypeOK'
    BY <1>1, <2>1 DEF IInv, TypeOK
  <2>3. ClientOK(r)'
    BY <1>1, <2>1 DEF ClientOK
  <2> QED  BY <1>1, <2>1, <2>2, <2>3, OneConnection DEF Received
<1>4. CASE Fail(r)
  <2>1. /\ fails < MaxFails /\ fails' = fails + 1
        /\ wire' = [wire EXCEPT ![r] = <<Closed>>]
        /\ UNCHANGED <<outbound, hubLog, clients, closed, pump, send, writing, reader, entrance>>
    BY <1>4 DEF Fail, client
  <2>2. <<Closed>> \in Seq(Seq(Msgs))
    BY EmptySeq DEF Closed
  <2>3. TypeOK'
    <3>1. fails' \in 0..MaxFails
      BY <2>1, TransportAssumption DEF IInv, TypeOK
    <3> QED  BY <1>1, <2>1, <2>2, <3>1 DEF IInv, TypeOK
  <2>4. ClientOK(r)'
    BY <1>1, <2>1 DEF ClientOK
  <2>5. Piped(hubLog, Received(r), <<Closed>>, writing[r], send[r])
    BY <1>1, Types, PipedLoses
  <2> QED  BY <1>1, <2>1, <2>3, <2>4, <2>5, OneConnection DEF Received
<1> QED  BY <1>2, <1>3, <1>4

LEMMA NextIInv == IInv /\ [Next]_vars => IInv'
<1> SUFFICES ASSUME IInv, [Next]_vars PROVE IInv'
  OBVIOUS
<1>1. CASE UNCHANGED vars
  <2>1. UNCHANGED <<outbound, hubLog, clients, closed, pump, send, writing, wire, reader,
                    entrance, fails>>
    BY <1>1 DEF vars
  <2> QED  BY <2>1 DEF IInv, TypeOK, ClientOK, Received
<1>2. CASE Next
  BY <1>2, BroadcastIInv, HubBroadcastIInv, WritePumpIInv, ReceiveLoopIInv, ClientIInv DEF Next
<1> QED  BY <1>1, <1>2

\* What the transport keeps, across overflows, failures and redials.
THEOREM TransportInvariant == Spec => []IInv
BY InitIInv, NextIInv, PTL DEF Spec

\* No channel grows past its capacity, and every variable keeps its type.
THEOREM TransportTypeCorrect == Spec => []TypeOK
<1>1. IInv => TypeOK
  BY DEF IInv
<1> QED  BY <1>1, TransportInvariant, PTL

\* hub.run never sends on a closed channel and never closes one twice, whichever of
\* an overflow and the end of the client's readPump it meets first.
THEOREM RegisteredClientsAreOpen == Spec => []RegisteredIsOpen
<1>1. IInv => RegisteredIsOpen
  BY DEF IInv, ClientOK, RegisteredIsOpen
<1> QED  BY <1>1, TransportInvariant, PTL

------------------------------------------------------------------------------
(* The transport is a lossy broadcast that keeps the order of the hub.      *)

LEMMA PlaceInLog ==
  ASSUME NEW log \in Seq(Msgs), Injective(log), NEW k \in 1..Len(log)
  PROVE  (CHOOSE j \in DOMAIN log : log[j] = log[k]) = k
<1>1. DOMAIN log = 1..Len(log)
  OBVIOUS
<1> QED  BY <1>1 DEF Injective

LEMMA LastPlace ==
  ASSUME TypeOK, Injective(hubLog), NEW r \in Receivers, entrance[r] # <<>>,
         NEW k \in 1..Len(hubLog), hubLog[k] = Last(entrance[r])
  PROVE  last[r] = k
<1>1. hubLog \in Seq(Msgs)
  BY DEF TypeOK
<1>2. last[r] = CHOOSE j \in DOMAIN hubLog : hubLog[j] = hubLog[k]
  BY DEF last
<1> QED  BY <1>1, <1>2, PlaceInLog

\* What has been received has a place in the log.
LEMMA ReceivedInLog ==
  ASSUME IInv, NEW r \in Receivers, entrance[r] # <<>>
  PROVE  \E k \in 1..Len(hubLog) : hubLog[k] = Last(entrance[r]) /\ last[r] = k
<1>1. Last(entrance[r]) \in ToSet(hubLog)
  BY DEF IInv, Piped, Received
<1>2. PICK k \in 1..Len(hubLog) : hubLog[k] = Last(entrance[r])
  BY <1>1, Types, InToSet
<1>3. last[r] = k
  BY <1>2, LastPlace DEF IInv
<1> QED  BY <1>2, <1>3

LEMMA StepRefines == IInv /\ IInv' /\ [Next]_vars => [B!Next]_<<hubLog, last, entrance>>
<1> SUFFICES ASSUME IInv, IInv', [Next]_vars
             PROVE  [B!Next]_<<hubLog, last, entrance>>
  OBVIOUS
<1>1. CASE UNCHANGED <<hubLog, entrance>>
  BY <1>1 DEF last
<1>2. ASSUME NEW m \in Msgs, HubBroadcast(m) PROVE B!Publish(m)
  <2>1. /\ hubLog' = Append(hubLog, m) /\ entrance' = entrance
        /\ hubLog \in Seq(Msgs) /\ TypeOK' /\ Injective(hubLog')
    BY <1>2 DEF HubBroadcast, IInv, TypeOK
  <2>2. /\ Len(hubLog') = Len(hubLog) + 1 /\ Len(hubLog) \in Nat
        /\ \A k \in 1..Len(hubLog) : hubLog'[k] = hubLog[k]
    BY <2>1, AppendProperties, LenProperties
  <2>3. ASSUME NEW r \in Receivers PROVE last'[r] = last[r]
    <3>1. CASE entrance[r] = <<>>
      BY <2>1, <3>1 DEF last
    <3>2. CASE entrance[r] # <<>>
      <4>1. PICK k \in 1..Len(hubLog) : hubLog[k] = Last(entrance[r]) /\ last[r] = k
        BY <3>2, ReceivedInLog
      <4>2. hubLog' \in Seq(Msgs) /\ k \in 1..Len(hubLog') /\ hubLog'[k] = Last(entrance'[r])
        BY <2>1, <2>2, <4>1 DEF TypeOK
      <4>3. last'[r] = CHOOSE j \in DOMAIN hubLog' : hubLog'[j] = hubLog'[k]
        BY <2>1, <3>2, <4>2 DEF last
      <4> QED  BY <2>1, <4>1, <4>2, <4>3, PlaceInLog
    <3> QED  BY <3>1, <3>2
  <2>4. last' = last
    BY <2>3 DEF last
  <2> QED  BY <2>1, <2>4 DEF B!Publish
<1>3. ASSUME NEW r \in Receivers, Receive(r), Len(Head(wire[r])) = 1 PROVE B!Deliver(r)
  <2> DEFINE h == Head(wire[r])
             e == entrance[r]
             m == h[1]
  <2>1. /\ wire[r] # <<>> /\ hubLog' = hubLog
        /\ entrance' = [entrance EXCEPT ![r] = e \o h]
        /\ entrance \in [Receivers -> Seq(Msgs)]
        /\ hubLog \in Seq(Msgs) /\ TypeOK' /\ Injective(hubLog')
        /\ Len(hubLog) \in Nat
    BY <1>3, LenProperties DEF Receive, IInv, TypeOK
  <2>2. h \in Seq(Msgs) /\ e \in Seq(Msgs) /\ Len(h) = 1 /\ h = wire[r][1]
        /\ 1 \in 1..Len(wire[r])
    BY <1>3, <2>1, Types, ToSetHeadTail, HeadTailProperties
  <2>3. m \in ToSet(h) /\ m \in Msgs /\ h = <<m>>
    <3> HIDE DEF h
    <3>1. 1 \in 1..Len(h)
      BY <2>2
    <3> QED  BY <2>2, <3>1, InToSet
  <2>4. /\ m \in ToSet(hubLog)
        /\ \A n \in Received(r) : Precedes(hubLog, n, m)
    <3>1. Piped(hubLog, Received(r), wire[r], writing[r], send[r])
      BY DEF IInv
    <3>2. ToSet(h) \subseteq ToSet(hubLog) /\ Ahead(hubLog, Received(r), ToSet(h))
      BY <2>2, <3>1 DEF Piped
    <3> QED  BY <2>3, <3>2 DEF Ahead
  <2> HIDE DEF h, m
  <2>5. e \o h = Append(e, m)
    BY <2>2, <2>3, AppendIsConcat
  <2>6. /\ entrance' = [entrance EXCEPT ![r] = Append(e, m)]
        /\ Append(e, m) # <<>> /\ Last(Append(e, m)) = m
    <3>1. /\ Len(Append(e, m)) = Len(e) + 1 /\ Append(e, m)[Len(e) + 1] = m
          /\ Append(e, m) \in Seq(Msgs) /\ Len(e) \in Nat
      BY <2>2, <2>3, AppendProperties, LenProperties
    <3>2. Append(e, m) # <<>> /\ Last(Append(e, m)) = m
      BY <3>1, EmptySeq DEF Last
    <3> QED  BY <2>1, <2>5, <3>2
  <2>7. PICK k \in 1..Len(hubLog) : hubLog[k] = m /\ k \in last[r] + 1 .. Len(hubLog)
    <3>1. CASE e = <<>>
      <4>1. last[r] = 0
        BY <3>1 DEF last
      <4>2. PICK k \in 1..Len(hubLog) : hubLog[k] = m
        BY <2>1, <2>4, InToSet
      <4> QED  BY <4>1, <4>2
    <3>2. CASE e # <<>>
      <4>1. PICK j, k \in 1..Len(hubLog) : j < k /\ hubLog[j] = Last(e) /\ hubLog[k] = m
        BY <2>4, <3>2 DEF Received, Precedes
      <4>2. last[r] = j
        BY <3>2, <4>1, LastPlace DEF IInv
      <4> QED  BY <2>1, <4>1, <4>2
    <3> QED  BY <3>1, <3>2
  <2>8. last' = [last EXCEPT ![r] = k]
    <3>1. last'[r] = k
      <4>1. entrance'[r] = Append(e, m)
        BY <2>1, <2>6
      <4>2. last'[r] = CHOOSE j \in DOMAIN hubLog : hubLog[j] = hubLog[k]
        BY <2>1, <2>6, <2>7, <4>1 DEF last
      <4> QED  BY <2>1, <2>7, <4>2, PlaceInLog
    <3>2. \A q \in Receivers \ {r} : last'[q] = last[q]
      <4>1. \A q \in Receivers \ {r} : entrance'[q] = entrance[q]
        BY <2>1
      <4> QED  BY <2>1, <4>1 DEF last
    <3>3. last = [q \in Receivers |-> last[q]] /\ last' = [q \in Receivers |-> last'[q]]
      BY DEF last
    <3> QED  BY <3>1, <3>2, <3>3
  <2> QED  BY <2>1, <2>6, <2>7, <2>8 DEF B!Deliver
<1>4. ASSUME NEW r \in Receivers, Receive(r), Len(Head(wire[r])) # 1
      PROVE  UNCHANGED <<hubLog, entrance>>
  BY <1>4 DEF Receive, IInv, TypeOK
<1>5. CASE Next
  <2>1. ASSUME NEW r \in Receivers,
               writePump(r) \/ LoseConnection(r) \/ Redial(r) \/ Discard(r)
               \/ Register(r) \/ Unregister(r) \/ Fail(r)
        PROVE  UNCHANGED <<hubLog, entrance>>
    BY <2>1 DEF writePump, TakeFirst, WriteFrame, WriteClose, LoseConnection, Redial, Discard,
                Register, Unregister, Fail
  <2>2. ASSUME NEW m \in Msgs, Broadcast(m) PROVE UNCHANGED <<hubLog, entrance>>
    BY <2>2 DEF Broadcast
  <2> QED  BY <1>1, <1>2, <1>3, <1>4, <1>5, <2>1, <2>2 DEF Next, receiveLoop, B!Next
<1>6. CASE UNCHANGED vars
  BY <1>1, <1>6 DEF vars
<1> QED  BY <1>5, <1>6

\* Whatever overflows, fails or is lost between Broadcast and MsgEntrance, a node
\* receives the messages of another in the order of its hub, and none twice.
THEOREM TransportKeepsOrder == Spec => ImplementsLossyBroadcast
<1>1. Init => B!Init
  BY DEF Init, B!Init, last
<1> QED
  BY <1>1, StepRefines, TransportInvariant, PTL DEF Spec, ImplementsLossyBroadcast, B!Spec
===============================================================================
