-------------------------- MODULE OutputHubProofs --------------------------
(***************************************************************************)
(* Proofs about OutputHub for any number of pages, actions and lines and   *)
(* any capacity: that the sink's items account for every line, that a page *)
(* which keeps up sees the running action's lines once and in order, and   *)
(* that nothing of an action follows its end.                              *)
(*                                                                         *)
(* What a page was sent and has still to be sent is one sequence, split    *)
(* over its pane, its snapshot and its channel.  Every step but a          *)
(* subscription keeps it, cuts it short or appends one event to it.        *)
(***************************************************************************)
EXTENDS OutputHub, SequenceTheorems, TLAPS

-----------------------------------------------------------------------------
(* Sequences in three parts                                                *)

\* Sent, of a pane p that shows n events of earlier connections, a snapshot r
\* and a channel c.
Parts(p, n, r, c) == SubSeq(p, n + 1, Len(p)) \o r \o c

\* Its length, and its elements.
LEMMA PartsShape ==
    ASSUME NEW T, NEW p \in Seq(T), NEW n \in 0..Len(p), NEW r \in Seq(T), NEW c \in Seq(T)
    PROVE  /\ Parts(p, n, r, c) \in Seq(T)
           /\ Len(Parts(p, n, r, c)) = (Len(p) - n) + Len(r) + Len(c)
           /\ \A i \in 1..Len(Parts(p, n, r, c)) :
                Parts(p, n, r, c)[i] =
                  IF i <= Len(p) - n THEN p[n + i]
                  ELSE IF i <= (Len(p) - n) + Len(r) THEN r[i - (Len(p) - n)]
                  ELSE c[i - ((Len(p) - n) + Len(r))]
<1> DEFINE q == SubSeq(p, n + 1, Len(p))
<1>0. Len(p) \in Nat /\ Len(r) \in Nat /\ Len(c) \in Nat /\ n \in Nat /\ n <= Len(p)
  BY LenProperties
<1>1. /\ q \in Seq(T) /\ Len(q) = Len(p) - n
      /\ \A i \in 1..(Len(p) - n) : q[i] = p[n + i]
  <2>1. \A i \in (n + 1)..Len(p) : p[i] \in T
    BY <1>0, ElementOfSeq
  <2>2. /\ q \in Seq(T)
        /\ Len(q) = IF n + 1 <= Len(p) THEN Len(p) - (n + 1) + 1 ELSE 0
        /\ \A i \in 1..(Len(p) - (n + 1) + 1) : q[i] = p[(n + 1) + i - 1]
    BY <1>0, <2>1, SubSeqProperties
  <2> QED
    BY <1>0, <2>2
<1> HIDE DEF q
<1>2. /\ q \o r \in Seq(T) /\ Len(q \o r) = Len(q) + Len(r)
      /\ \A i \in 1..(Len(q) + Len(r)) :
            (q \o r)[i] = IF i <= Len(q) THEN q[i] ELSE r[i - Len(q)]
  BY <1>1, ConcatProperties
<1>3. /\ (q \o r) \o c \in Seq(T) /\ Len((q \o r) \o c) = Len(q \o r) + Len(c)
      /\ \A i \in 1..(Len(q \o r) + Len(c)) :
            ((q \o r) \o c)[i] = IF i <= Len(q \o r) THEN (q \o r)[i] ELSE c[i - Len(q \o r)]
  BY <1>2, ConcatProperties
<1>4. Parts(p, n, r, c) = (q \o r) \o c
  BY DEF Parts, q
<1>5. Len(q \o r) = (Len(p) - n) + Len(r)
  BY <1>1, <1>2
<1>6. Len(Parts(p, n, r, c)) = (Len(p) - n) + Len(r) + Len(c)
  BY <1>3, <1>4, <1>5
<1>7. ASSUME NEW i \in 1..Len(Parts(p, n, r, c))
      PROVE  Parts(p, n, r, c)[i] =
               IF i <= Len(p) - n THEN p[n + i]
               ELSE IF i <= (Len(p) - n) + Len(r) THEN r[i - (Len(p) - n)]
               ELSE c[i - ((Len(p) - n) + Len(r))]
  <2>1. Parts(p, n, r, c)[i] =
          IF i <= (Len(p) - n) + Len(r) THEN (q \o r)[i] ELSE c[i - ((Len(p) - n) + Len(r))]
    BY <1>3, <1>4, <1>5, <1>6
  <2>2. i <= (Len(p) - n) + Len(r) =>
          (q \o r)[i] = IF i <= Len(p) - n THEN q[i] ELSE r[i - (Len(p) - n)]
    BY <1>0, <1>1, <1>2, <1>6
  <2>3. i <= Len(p) - n => q[i] = p[n + i]
    BY <1>0, <1>1, <1>6
  <2>4. i <= Len(p) - n => i <= (Len(p) - n) + Len(r)
    BY <1>0, <1>6
  <2> QED
    BY <2>1, <2>2, <2>3, <2>4
<1> QED
  BY <1>3, <1>4, <1>6, <1>7

\* q and t are p and r when the head of r has moved to the end of p.
Moved(p, r, q, t) ==
    /\ Len(r) >= 1
    /\ Len(q) = Len(p) + 1 /\ q[Len(p) + 1] = r[1] /\ \A i \in 1..Len(p) : q[i] = p[i]
    /\ Len(t) = Len(r) - 1 /\ \A i \in 1..Len(t) : t[i] = r[i + 1]

\* Such a move from the second part to the first changes nothing of the whole.
LEMMA PartsMove ==
    ASSUME NEW T, NEW p \in Seq(T), NEW n \in 0..Len(p), NEW r \in Seq(T), NEW c \in Seq(T),
           NEW q \in Seq(T), NEW t \in Seq(T), n \in 0..Len(q), Moved(p, r, q, t)
    PROVE  Parts(q, n, t, c) = Parts(p, n, r, c)
<1>1. Len(p) \in Nat /\ Len(r) \in Nat /\ Len(c) \in Nat /\ n \in Nat /\ n <= Len(p)
  BY LenProperties
<1>2. /\ Parts(q, n, t, c) \in Seq(T) /\ Parts(p, n, r, c) \in Seq(T)
      /\ Len(Parts(q, n, t, c)) = (Len(q) - n) + Len(t) + Len(c)
      /\ Len(Parts(p, n, r, c)) = (Len(p) - n) + Len(r) + Len(c)
  BY PartsShape
<1>3. Len(Parts(q, n, t, c)) = Len(Parts(p, n, r, c))
  BY <1>1, <1>2 DEF Moved
<1>4. ASSUME NEW i \in 1..Len(Parts(p, n, r, c))
      PROVE  Parts(q, n, t, c)[i] = Parts(p, n, r, c)[i]
  <2> DEFINE m == Len(p) - n
             l == (Len(p) - n) + Len(r)
  <2>0. m \in Nat /\ l \in Nat /\ i \in Nat /\ i >= 1 /\ i <= l + Len(c)
    <3>1. Len(Parts(p, n, r, c)) = l + Len(c)
      BY <1>2
    <3> QED
      BY <1>1, <3>1
  <2>1. Parts(p, n, r, c)[i] =
          IF i <= m THEN p[n + i] ELSE IF i <= l THEN r[i - m] ELSE c[i - l]
    <3>1. \A j \in 1..Len(Parts(p, n, r, c)) :
            Parts(p, n, r, c)[j] =
              IF j <= Len(p) - n THEN p[n + j]
              ELSE IF j <= (Len(p) - n) + Len(r) THEN r[j - (Len(p) - n)]
              ELSE c[j - ((Len(p) - n) + Len(r))]
      BY PartsShape
    <3> QED
      BY <3>1
  <2>2. Parts(q, n, t, c)[i] =
          IF i <= Len(q) - n THEN q[n + i]
          ELSE IF i <= (Len(q) - n) + Len(t) THEN t[i - (Len(q) - n)]
          ELSE c[i - ((Len(q) - n) + Len(t))]
    <3>1. \A j \in 1..Len(Parts(q, n, t, c)) :
            Parts(q, n, t, c)[j] =
              IF j <= Len(q) - n THEN q[n + j]
              ELSE IF j <= (Len(q) - n) + Len(t) THEN t[j - (Len(q) - n)]
              ELSE c[j - ((Len(q) - n) + Len(t))]
      BY PartsShape
    <3>2. i \in 1..Len(Parts(q, n, t, c))
      BY <1>3
    <3> QED
      BY <3>1, <3>2
  <2>3. Len(q) - n = m + 1 /\ (Len(q) - n) + Len(t) = l
    BY <1>1 DEF Moved
  <2>4. Parts(q, n, t, c)[i] =
          IF i <= m + 1 THEN q[n + i] ELSE IF i <= l THEN t[i - (m + 1)] ELSE c[i - l]
    BY <2>2, <2>3
  <2>5. CASE i <= m
    BY <1>1, <2>0, <2>1, <2>4, <2>5 DEF Moved
  <2>6. CASE i = m + 1
    BY <1>1, <2>0, <2>1, <2>4, <2>6 DEF Moved
  <2>7. CASE i > m + 1 /\ i <= l
    <3>1. i - (m + 1) \in 1..Len(t) /\ (i - (m + 1)) + 1 = i - m
      BY <1>1, <2>0, <2>7 DEF Moved
    <3>2. t[i - (m + 1)] = r[i - m]
      BY <3>1 DEF Moved
    <3> HIDE DEF m, l
    <3> QED
      BY <2>0, <2>1, <2>4, <2>7, <3>2
  <2>8. CASE i > m + 1 /\ i > l
    <3> HIDE DEF m, l
    <3> QED
      BY <2>0, <2>1, <2>4, <2>8
  <2> QED
    <3> HIDE DEF m, l
    <3> QED
      BY <2>0, <2>5, <2>6, <2>7, <2>8
<1> QED
  BY <1>2, <1>3, <1>4, SeqEqual

\* Writing the head of the snapshot is such a move.
LEMMA PartsWriteReplay ==
    ASSUME NEW T, NEW p \in Seq(T), NEW n \in 0..Len(p), NEW r \in Seq(T), NEW c \in Seq(T),
           r # <<>>
    PROVE  /\ Append(p, Head(r)) \in Seq(T) /\ Tail(r) \in Seq(T)
           /\ n \in 0..Len(Append(p, Head(r)))
           /\ Parts(Append(p, Head(r)), n, Tail(r), c) = Parts(p, n, r, c)
<1>1. /\ Head(r) \in T /\ Tail(r) \in Seq(T) /\ Len(Tail(r)) = Len(r) - 1
      /\ \A i \in 1..Len(Tail(r)) : Tail(r)[i] = r[i + 1]
  BY HeadTailProperties
<1>2. PICK t \in Seq(T) : t = Tail(r)
  BY <1>1
<1>3. PICK h \in T : h = Head(r)
  BY <1>1
<1>4. PICK q \in Seq(T) : q = Append(p, h)
  BY AppendProperties
<1>5. Head(r) = r[1] /\ Len(r) >= 1
  BY EmptySeq, LenProperties
<1>6. Len(q) = Len(p) + 1 /\ q[Len(p) + 1] = r[1] /\ \A i \in 1..Len(p) : q[i] = p[i]
  BY <1>3, <1>4, <1>5, AppendProperties
<1>7. n \in 0..Len(q)
  BY <1>6, LenProperties
<1>8. Moved(p, r, q, t)
  BY <1>1, <1>2, <1>5, <1>6 DEF Moved
<1>9. Parts(q, n, t, c) = Parts(p, n, r, c)
  BY <1>7, <1>8, PartsMove
<1> QED
  BY <1>2, <1>3, <1>4, <1>7, <1>9

\* An empty snapshot may as well be the channel.
LEMMA PartsSwap ==
    ASSUME NEW T, NEW p \in Seq(T), NEW n \in 0..Len(p), NEW c \in Seq(T)
    PROVE  Parts(p, n, <<>>, c) = Parts(p, n, c, <<>>)
<1>1. SubSeq(p, n + 1, Len(p)) \in Seq(T)
  BY LenProperties, ElementOfSeq, SubSeqProperties
<1>2. SubSeq(p, n + 1, Len(p)) \o c \in Seq(T)
  BY <1>1, ConcatProperties
<1> QED
  BY <1>1, <1>2, ConcatEmptySeq DEF Parts

\* So does writing the head of the channel once the snapshot is written.
LEMMA PartsWriteEvent ==
    ASSUME NEW T, NEW p \in Seq(T), NEW n \in 0..Len(p), NEW c \in Seq(T), c # <<>>
    PROVE  /\ Append(p, Head(c)) \in Seq(T) /\ Tail(c) \in Seq(T)
           /\ n \in 0..Len(Append(p, Head(c)))
           /\ Parts(Append(p, Head(c)), n, <<>>, Tail(c)) = Parts(p, n, <<>>, c)
<1>1. PICK e \in Seq(T) : e = <<>>
  BY EmptySeq
<1>2. /\ Append(p, Head(c)) \in Seq(T) /\ Tail(c) \in Seq(T)
      /\ n \in 0..Len(Append(p, Head(c)))
      /\ Parts(Append(p, Head(c)), n, Tail(c), e) = Parts(p, n, c, e)
  BY PartsWriteReplay
<1>3. Parts(Append(p, Head(c)), n, <<>>, Tail(c)) = Parts(Append(p, Head(c)), n, Tail(c), <<>>)
  BY <1>2, PartsSwap
<1> QED
  BY <1>1, <1>2, <1>3, PartsSwap

LEMMA LastIndex == \A k \in Nat : \A i \in 1..(k + 1) : i \in 1..k \/ i = k + 1
  OBVIOUS

\* An event put into the channel comes behind the whole.
LEMMA PartsAppend ==
    ASSUME NEW T, NEW p \in Seq(T), NEW n \in 0..Len(p), NEW r \in Seq(T), NEW c \in Seq(T),
           NEW e \in T
    PROVE  Parts(p, n, r, Append(c, e)) = Append(Parts(p, n, r, c), e)
<1>1. PICK d \in Seq(T) :
        /\ d = Append(c, e) /\ Len(d) = Len(c) + 1 /\ d[Len(c) + 1] = e
        /\ \A i \in 1..Len(c) : d[i] = c[i]
  <2>1. /\ Append(c, e) \in Seq(T) /\ Len(Append(c, e)) = Len(c) + 1
        /\ Append(c, e)[Len(c) + 1] = e
        /\ \A i \in 1..Len(c) : Append(c, e)[i] = c[i]
    BY AppendProperties
  <2> QED
    BY <2>1
<1>2. PICK w \in Seq(T) :
        /\ w = Parts(p, n, r, c)
        /\ Len(w) = (Len(p) - n) + Len(r) + Len(c)
        /\ \A i \in 1..Len(w) :
             w[i] = IF i <= Len(p) - n THEN p[n + i]
                    ELSE IF i <= (Len(p) - n) + Len(r) THEN r[i - (Len(p) - n)]
                    ELSE c[i - ((Len(p) - n) + Len(r))]
  <2>1. /\ Parts(p, n, r, c) \in Seq(T)
        /\ Len(Parts(p, n, r, c)) = (Len(p) - n) + Len(r) + Len(c)
        /\ \A i \in 1..Len(Parts(p, n, r, c)) :
             Parts(p, n, r, c)[i] =
               IF i <= Len(p) - n THEN p[n + i]
               ELSE IF i <= (Len(p) - n) + Len(r) THEN r[i - (Len(p) - n)]
               ELSE c[i - ((Len(p) - n) + Len(r))]
    BY PartsShape
  <2> QED
    BY <2>1
<1>3. PICK v \in Seq(T) :
        /\ v = Parts(p, n, r, d)
        /\ Len(v) = (Len(p) - n) + Len(r) + Len(d)
        /\ \A i \in 1..Len(v) :
             v[i] = IF i <= Len(p) - n THEN p[n + i]
                    ELSE IF i <= (Len(p) - n) + Len(r) THEN r[i - (Len(p) - n)]
                    ELSE d[i - ((Len(p) - n) + Len(r))]
  <2>1. /\ Parts(p, n, r, d) \in Seq(T)
        /\ Len(Parts(p, n, r, d)) = (Len(p) - n) + Len(r) + Len(d)
        /\ \A i \in 1..Len(Parts(p, n, r, d)) :
             Parts(p, n, r, d)[i] =
               IF i <= Len(p) - n THEN p[n + i]
               ELSE IF i <= (Len(p) - n) + Len(r) THEN r[i - (Len(p) - n)]
               ELSE d[i - ((Len(p) - n) + Len(r))]
    BY PartsShape
  <2> QED
    BY <2>1
<1>4. PICK u \in Seq(T) :
        /\ u = Append(w, e) /\ Len(u) = Len(w) + 1 /\ u[Len(w) + 1] = e
        /\ \A i \in 1..Len(w) : u[i] = w[i]
  <2>1. /\ Append(w, e) \in Seq(T) /\ Len(Append(w, e)) = Len(w) + 1
        /\ Append(w, e)[Len(w) + 1] = e
        /\ \A i \in 1..Len(w) : Append(w, e)[i] = w[i]
    BY AppendProperties
  <2> QED
    BY <2>1
<1>5. Len(p) \in Nat /\ Len(r) \in Nat /\ Len(c) \in Nat /\ n \in Nat /\ n <= Len(p)
  BY LenProperties
<1>6. /\ Len(v) = Len(w) + 1 /\ Len(w) \in Nat
      /\ Len(w) = (Len(p) - n) + Len(r) + Len(c)
  <2>1. Len(w) = (Len(p) - n) + Len(r) + Len(c) /\ Len(v) = (Len(p) - n) + Len(r) + (Len(c) + 1)
    BY <1>1, <1>2, <1>3
  <2> QED
    BY <1>5, <2>1
<1>7. ASSUME NEW i \in 1..Len(w) PROVE v[i] = u[i]
  <2>1. i \in 1..Len(v) /\ u[i] = w[i]
    BY <1>4, <1>6
  <2>2. CASE i <= (Len(p) - n) + Len(r)
    BY <1>2, <1>3, <2>1, <2>2
  <2>3. CASE ~(i <= (Len(p) - n) + Len(r))
    <3>1. i - ((Len(p) - n) + Len(r)) \in 1..Len(c)
      BY <1>5, <1>6, <2>3
    <3>2. ~(i <= Len(p) - n)
      BY <1>5, <2>3
    <3> QED
      BY <1>1, <1>2, <1>3, <2>1, <2>3, <3>1, <3>2
  <2> QED
    BY <2>2, <2>3
<1>8. v[Len(w) + 1] = e
  <2>1. Len(w) + 1 \in 1..Len(v) /\ (Len(w) + 1) - ((Len(p) - n) + Len(r)) = Len(c) + 1
    BY <1>5, <1>6
  <2>2. ~(Len(w) + 1 <= (Len(p) - n) + Len(r)) /\ ~(Len(w) + 1 <= Len(p) - n)
    BY <1>5, <1>6
  <2> QED
    BY <1>1, <1>3, <2>1, <2>2
<1>9. Len(u) = Len(w) + 1 /\ u[Len(w) + 1] = e
  BY <1>4
<1>10. ASSUME NEW i \in 1..Len(u) PROVE u[i] = v[i]
  <2>1. i \in 1..Len(w) \/ i = Len(w) + 1
    BY <1>6, <1>9, LastIndex
  <2> QED
    BY <1>7, <1>8, <1>9, <2>1
<1>11. Len(u) = Len(v)
  BY <1>6, <1>9
<1> QED
  BY <1>1, <1>2, <1>3, <1>4, <1>10, <1>11, SeqEqual

\* Dropping what is not written yet cuts the whole short.
LEMMA PartsCut ==
    ASSUME NEW T, NEW p \in Seq(T), NEW n \in 0..Len(p), NEW r \in Seq(T), NEW c \in Seq(T)
    PROVE  /\ Len(Parts(p, n, <<>>, <<>>)) <= Len(Parts(p, n, r, c))
           /\ \A i \in 1..Len(Parts(p, n, <<>>, <<>>)) :
                Parts(p, n, <<>>, <<>>)[i] = Parts(p, n, r, c)[i]
<1>1. PICK e \in Seq(T) : e = <<>> /\ Len(e) = 0
  BY EmptySeq
<1>2. Len(p) \in Nat /\ Len(r) \in Nat /\ Len(c) \in Nat /\ n \in Nat /\ n <= Len(p)
  BY LenProperties
<1>3. /\ Len(Parts(p, n, e, e)) = (Len(p) - n) + Len(e) + Len(e)
      /\ Len(Parts(p, n, r, c)) = (Len(p) - n) + Len(r) + Len(c)
  BY PartsShape
<1>4. /\ Len(Parts(p, n, e, e)) = Len(p) - n
      /\ Len(p) - n <= Len(Parts(p, n, r, c))
  BY <1>1, <1>2, <1>3
<1>5. ASSUME NEW i \in 1..Len(Parts(p, n, e, e))
      PROVE  Parts(p, n, e, e)[i] = Parts(p, n, r, c)[i]
  <2>1. i <= Len(p) - n /\ i \in 1..Len(Parts(p, n, r, c))
    BY <1>2, <1>3, <1>4
  <2>2. /\ Parts(p, n, e, e)[i] =
               IF i <= Len(p) - n THEN p[n + i]
               ELSE IF i <= (Len(p) - n) + Len(e) THEN e[i - (Len(p) - n)]
               ELSE e[i - ((Len(p) - n) + Len(e))]
        /\ Parts(p, n, r, c)[i] =
               IF i <= Len(p) - n THEN p[n + i]
               ELSE IF i <= (Len(p) - n) + Len(r) THEN r[i - (Len(p) - n)]
               ELSE c[i - ((Len(p) - n) + Len(r))]
    BY <2>1, PartsShape
  <2> QED
    BY <2>1, <2>2
<1> QED
  BY <1>1, <1>4, <1>5

\* A new connection is sent its snapshot.
LEMMA PartsFresh ==
    ASSUME NEW T, NEW p \in Seq(T), NEW r \in Seq(T)
    PROVE  Parts(p, Len(p), r, <<>>) = r
<1>1. Len(p) \in Nat /\ SubSeq(p, Len(p) + 1, Len(p)) = <<>>
  BY LenProperties, SubSeqEmpty
<1> QED
  BY <1>1, ConcatEmptySeq, EmptySeq DEF Parts

-----------------------------------------------------------------------------
(* Types                                                                   *)

\* Every item is an event, and the events the code makes are events.
LEMMA EventTypes ==
    /\ Items \subseteq Events
    /\ \A id \in Actions, k \in Nat : Line(id, k) \in Items /\ Gap(id, k) \in Items
    /\ \A id \in Actions, kind \in EndKinds : EndOf(id, kind) \in Events
  BY DEF Items, Events, Line, Gap, EndOf

LEMMA ItemSeqs == ASSUME NEW s \in Seq(Items) PROVE s \in Seq(Events)
  BY EventTypes, SeqMonotonic

\* A broadcast puts the event into channels, or marks their pages as too slow.
LEMMA BroadcastTypes ==
    ASSUME TypeOK, NEW event \in Events, broadcast(event)
    PROVE  /\ chan' \in [Browsers -> Seq(Events)] /\ missed' \in [Browsers -> BOOLEAN]
           /\ UNCHANGED <<watch, replay, pane, base>>
<1>1. missed' \in [Browsers -> BOOLEAN]
  BY Zenon DEF broadcast, TypeOK
<1>2. \A b \in Browsers : Append(chan[b], event) \in Seq(Events)
  BY AppendProperties DEF TypeOK
<1>3. chan' \in [Browsers -> Seq(Events)]
  BY <1>2 DEF broadcast, TypeOK
<1> QED
  BY <1>1, <1>3 DEF broadcast

\* Variables keep their types.
LEMMA TypeStep == TypeOK /\ [Next]_vars => TypeOK'
<1> SUFFICES ASSUME TypeOK, [Next]_vars PROVE TypeOK'
  OBVIOUS
<1> USE DEF TypeOK
<1>1. ASSUME NEW b \in Browsers, Open(b) \/ Reconnect(b) PROVE TypeOK'
  <2>1. <<>> \in Seq(Items) /\ <<>> \in Seq(Events) /\ Len(pane[b]) \in Nat /\ 0 \in Nat
    BY LenProperties
  <2>2. UNCHANGED <<hubVars, clientVars, lineVars, post, toBegin>>
    BY <1>1 DEF Open, Reconnect
  <2>3. missed' \in [Browsers -> BOOLEAN]
    BY <1>1 DEF Open, Reconnect, Subscribe
  <2>4. /\ watch' \in [Browsers -> {"off", "on", "lost"}]
        /\ chan' \in [Browsers -> Seq(Events)] /\ replay' \in [Browsers -> Seq(Items)]
        /\ pane' \in [Browsers -> Seq(Events)] /\ base' \in [Browsers -> Nat]
    <3>1. CASE Open(b)
      BY <3>1, <2>1 DEF Open, Subscribe
    <3>2. CASE Reconnect(b)
      BY <3>2, <2>1 DEF Reconnect, Subscribe
    <3> QED
      BY <1>1, <3>1, <3>2
  <2> QED
    BY <2>2, <2>3, <2>4 DEF hubVars, clientVars, lineVars
<1>2. ASSUME NEW b \in Browsers, WriteReplay(b) PROVE TypeOK'
  <2>1. /\ Append(pane[b], Head(replay[b])) \in Seq(Events) /\ Tail(replay[b]) \in Seq(Items)
    BY <1>2, HeadTailProperties, AppendProperties, EventTypes DEF WriteReplay
  <2> QED
    BY <1>2, <2>1 DEF WriteReplay, hubVars, clientVars, lineVars
<1>3. ASSUME NEW b \in Browsers, WriteEvent(b) PROVE TypeOK'
  <2>1. /\ Append(pane[b], Head(chan[b])) \in Seq(Events) /\ Tail(chan[b]) \in Seq(Events)
        /\ <<>> \in Seq(Events)
    BY <1>3, HeadTailProperties, AppendProperties DEF WriteEvent
  <2>2. /\ watch' \in [Browsers -> {"off", "on", "lost"}]
        /\ chan' \in [Browsers -> Seq(Events)] /\ pane' \in [Browsers -> Seq(Events)]
    BY <1>3, <2>1 DEF WriteEvent
  <2> QED
    BY <1>3, <2>2 DEF WriteEvent, hubVars, clientVars, lineVars
<1>4. ASSUME NEW b \in Browsers, NEW why \in {"off", "lost"}, Leave(b, why) PROVE TypeOK'
  <2>1. <<>> \in Seq(Items) /\ <<>> \in Seq(Events)
    OBVIOUS
  <2> QED
    BY <1>4, <2>1 DEF Leave, hubVars, clientVars, lineVars
<1>5. ASSUME NEW id \in Actions, Receive(id) PROVE TypeOK'
  BY <1>5 DEF Receive, hubVars, subVars, lineVars
<1>15. ASSUME NEW id \in Actions, Begin(id) PROVE TypeOK'
  <2>1. active' \in Actions \cup {0} /\ backlog' \in Seq(Items)
    BY <1>15 DEF Begin, StartView
  <2> QED
    BY <1>15, <2>1 DEF Begin, subVars, clientVars, lineVars
<1>6. ASSUME NEW id \in Actions, PushMarker(id) PROVE TypeOK'
  <2>1. Append(sink[id], Gap(id, dropped[id])) \in Seq(Items)
    BY EventTypes, AppendProperties
  <2> QED
    BY <1>6, <2>1 DEF PushMarker, hubVars, subVars
<1>7. ASSUME NEW id \in Actions, PushLine(id) PROVE TypeOK'
  <2>1. Append(sink[id], Line(id, printed[id] + 1)) \in Seq(Items)
    BY EventTypes, AppendProperties
  <2>2. sink' \in [Actions -> Seq(Items)]
    BY <1>7, <2>1 DEF PushLine, LineOrDrop
  <2>3. printed[id] + 1 \in Nat /\ dropped[id] + 1 \in Nat
    OBVIOUS
  <2>4. dropped' \in [Actions -> Nat] /\ printed' \in [Actions -> Nat]
    BY <1>7, <2>3 DEF PushLine, LineOrDrop
  <2>5. stage' \in [Actions -> {"none", "running", "pushing", "recorded", "reported",
                                "closed", "killed"}]
    BY <1>7 DEF PushLine
  <2> QED
    BY <1>7, <2>2, <2>4, <2>5 DEF PushLine, hubVars, subVars
<1>8. ASSUME NEW id \in Actions, LoseReport(id) \/ Close(id) \/ Kill(id) \/ RecordResult(id)
      PROVE  TypeOK'
  BY <1>8 DEF LoseReport, Close, Kill, RecordResult, Stop, hubVars, subVars, lineVars
<1>9. ASSUME NEW id \in Actions, NEW kind \in EndKinds, End(id, kind),
             UNCHANGED <<printed, dropped, lineVars, toBegin>>,
             stage' \in [Actions -> {"none", "running", "pushing", "recorded", "reported",
                                     "closed", "killed"}],
             post' \in [Actions -> {"none", "open", "accepted", "closed"}]
      PROVE  TypeOK'
  <2>1. active' \in Actions \cup {0} /\ backlog' \in Seq(Items)
    <3>1. <<>> \in Seq(Items)
      OBVIOUS
    <3> QED
      BY <1>9, <3>1 DEF End, hubVars
  <2>2. /\ chan' \in [Browsers -> Seq(Events)] /\ missed' \in [Browsers -> BOOLEAN]
        /\ UNCHANGED <<watch, replay, pane, base>>
    BY <1>9, EventTypes, BroadcastTypes DEF End, subVars
  <2> QED
    BY <1>9, <2>1, <2>2 DEF lineVars
<1>10. ASSUME NEW id \in Actions, EndDone(id) PROVE TypeOK'
  BY <1>9, <1>10 DEF EndDone, EndKinds
<1>11. ASSUME NEW id \in Actions, ClosePost(id) \/ CutPost(id) PROVE TypeOK'
  <2>1. post' \in [Actions -> {"none", "open", "accepted", "closed"}]
    BY <1>11 DEF ClosePost, CutPost, EndPost
  <2> QED
    BY <1>9, <1>11, <2>1 DEF ClosePost, CutPost, EndPost, EndKinds, clientVars
<1>12. ASSUME NEW id \in Actions, AcceptPost(id) PROVE TypeOK'
  BY <1>12 DEF AcceptPost, hubVars, subVars, clientVars, lineVars
<1>13. ASSUME NEW id \in Actions, Scan(id) PROVE TypeOK'
  <2>1. Head(sink[id]) \in Items /\ Tail(sink[id]) \in Seq(Items)
    BY <1>13, HeadTailProperties DEF Scan
  <2>2. sink' \in [Actions -> Seq(Items)] /\ told' \in [Actions -> Nat]
    <3>1. Head(sink[id]).n \in Nat
      BY <2>1 DEF Items
    <3>2. Reads(told[id], Head(sink[id])) \in Nat
      BY <3>1 DEF Reads
    <3> QED
      BY <1>13, <2>1, <3>2 DEF Scan
  <2>3. Append(backlog, Head(sink[id])) \in Seq(Items) /\ Head(sink[id]) \in Events
    BY <2>1, AppendProperties, EventTypes
  <2>4. backlog' \in Seq(Items)
    BY <1>13, <2>3 DEF Scan, Publish
  <2>5. /\ chan' \in [Browsers -> Seq(Events)] /\ missed' \in [Browsers -> BOOLEAN]
        /\ UNCHANGED <<watch, replay, pane, base>>
    BY <1>13, <2>3, BroadcastTypes DEF Scan, Publish, subVars
  <2> QED
    BY <1>13, <2>2, <2>4, <2>5 DEF Scan, clientVars
<1>14. CASE UNCHANGED vars
  BY <1>14 DEF vars, hubVars, subVars, clientVars, lineVars
<1> QED
  BY <1>1, <1>2, <1>3, <1>4, <1>5, <1>6, <1>7, <1>8, <1>10, <1>11, <1>12, <1>13, <1>14, <1>15 DEF Next

LEMMA InitType == Init => TypeOK
<1> SUFFICES ASSUME Init PROVE TypeOK
  OBVIOUS
<1>1. <<>> \in Seq(Items) /\ <<>> \in Seq(Events)
  OBVIOUS
<1>2. missed \in [Browsers -> BOOLEAN]
  BY Zenon DEF Init
<1> QED
  BY <1>1, <1>2 DEF Init, TypeOK

\* Every variable keeps its type: no step puts an end into the backlog, a page
\* that connects is sent items only.
THEOREM OutputTypes == Spec => []TypeOK
  BY InitType, TypeStep, PTL DEF Spec

-----------------------------------------------------------------------------
(* The sink                                                                *)

\* A reader of the items s comes from line k to line e, of m printed.
Reader(s, k, m, e) ==
    \E come \in [0..Len(s) -> 0..m] :
        /\ come[0] = k /\ come[Len(s)] = e
        /\ \A i \in 1..Len(s) : Continues(come[i - 1], s[i], come[i])

\* One more item takes him further.
LEMMA ReaderAppend ==
    ASSUME NEW s \in Seq(Items), NEW k \in Nat, NEW m \in Nat, NEW e \in Nat, Reader(s, k, m, e),
           NEW m2 \in Nat, NEW l \in Nat, m <= m2, l <= m2,
           NEW item \in Items, Continues(e, item, l)
    PROVE  Reader(Append(s, item), k, m2, l)
<1>1. PICK come \in [0..Len(s) -> 0..m] :
        /\ come[0] = k /\ come[Len(s)] = e
        /\ \A i \in 1..Len(s) : Continues(come[i - 1], s[i], come[i])
  BY DEF Reader
<1>2. PICK t \in Seq(Items) :
        /\ t = Append(s, item) /\ Len(t) = Len(s) + 1 /\ t[Len(s) + 1] = item
        /\ \A i \in 1..Len(s) : t[i] = s[i]
  BY AppendProperties
<1>3. Len(s) \in Nat
  BY LenProperties
<1> DEFINE on2 == [i \in 0..Len(t) |-> IF i <= Len(s) THEN come[i] ELSE l]
<1>4. on2 \in [0..Len(t) -> 0..m2]
  BY <1>1, <1>2, <1>3
<1>5. on2[0] = k /\ on2[Len(t)] = l
  BY <1>1, <1>2, <1>3
<1>6. ASSUME NEW i \in 1..Len(t) PROVE Continues(on2[i - 1], t[i], on2[i])
  <2>1. CASE i = Len(s) + 1
    <3>1. on2[i - 1] = e /\ t[i] = item /\ on2[i] = l
      BY <1>1, <1>2, <1>3, <2>1
    <3> QED
      BY <3>1
  <2>2. CASE i \in 1..Len(s)
    <3>1. on2[i - 1] = come[i - 1] /\ t[i] = s[i] /\ on2[i] = come[i]
      BY <1>1, <1>2, <1>3, <2>2
    <3> QED
      BY <1>1, <2>2, <3>1
  <2> QED
    BY <1>2, <1>3, <2>1, <2>2
<1>7. Reader(t, k, m2, l)
  <2> HIDE DEF on2
  <2> QED
    BY <1>4, <1>5, <1>6 DEF Reader
<1> QED
  BY <1>2, <1>7

\* So he may be asked to know of more lines.
LEMMA ReaderGrow ==
    ASSUME NEW s \in Seq(Items), NEW k, NEW m \in Nat, NEW e, Reader(s, k, m, e),
           NEW m2 \in Nat, m <= m2
    PROVE  Reader(s, k, m2, e)
<1>1. PICK come \in [0..Len(s) -> 0..m] :
        /\ come[0] = k /\ come[Len(s)] = e
        /\ \A i \in 1..Len(s) : Continues(come[i - 1], s[i], come[i])
  BY DEF Reader
<1>2. come \in [0..Len(s) -> 0..m2]
  <2>1. 0..m \subseteq 0..m2
    OBVIOUS
  <2> QED
    BY <1>1, <2>1
<1> QED
  BY <1>1, <1>2 DEF Reader

\* Having read the first item, he comes as far by the others.
LEMMA ReaderTail ==
    ASSUME NEW s \in Seq(Items), NEW k \in Nat, NEW m \in Nat, NEW e, Reader(s, k, m, e), s # <<>>
    PROVE  Reader(Tail(s), Reads(k, Head(s)), m, e)
<1>1. PICK come \in [0..Len(s) -> 0..m] :
        /\ come[0] = k /\ come[Len(s)] = e
        /\ \A i \in 1..Len(s) : Continues(come[i - 1], s[i], come[i])
  BY DEF Reader
<1>2. PICK t \in Seq(Items) :
        /\ t = Tail(s) /\ Len(t) = Len(s) - 1 /\ \A i \in 1..Len(t) : t[i] = s[i + 1]
  BY HeadTailProperties
<1>3. Len(s) \in Nat /\ Len(s) >= 1 /\ Head(s) = s[1]
  BY EmptySeq, LenProperties
<1> DEFINE rest == [i \in 0..Len(t) |-> come[i + 1]]
<1>4. rest \in [0..Len(t) -> 0..m]
  BY <1>1, <1>2, <1>3
<1>5. rest[0] = Reads(k, Head(s)) /\ rest[Len(t)] = e
  <2>1. Continues(come[0], s[1], come[1])
    <3>1. 1 \in 1..Len(s) /\ 1 - 1 = 0
      BY <1>3
    <3> QED
      BY <1>1, <3>1
  <2> QED
    BY <1>1, <1>2, <1>3, <2>1 DEF Continues
<1>6. ASSUME NEW i \in 1..Len(t) PROVE Continues(rest[i - 1], t[i], rest[i])
  <2>1. i + 1 \in 1..Len(s) /\ rest[i - 1] = come[(i + 1) - 1] /\ rest[i] = come[i + 1]
    BY <1>2, <1>3
  <2> QED
    BY <1>1, <1>2, <2>1
<1>7. Reader(t, Reads(k, Head(s)), m, e)
  <2> HIDE DEF rest
  <2> QED
    BY <1>4, <1>5, <1>6 DEF Reader
<1> QED
  BY <1>2, <1>7

\* A command that has put the marker of its drops into the sink owes the line
\* behind it, and no drop more.
MarkersCountAll == \A id \in Actions : stage[id] = "pushing" => dropped[id] = 0

\* What an action's sink holds is of that action.
SinksAreOwn == \A id \in Actions : \A i \in 1..Len(sink[id]) : sink[id][i].id = id

SinkInv == TypeOK /\ MarkersCountAll /\ SinksAreOwn /\ SinkAccountsForAll

LEMMA SinkReaders ==
    SinkAccountsForAll <=>
      \A id \in Actions : Reader(sink[id], told[id], printed[id], printed[id] - dropped[id])
  BY DEF SinkAccountsForAll, Reader

LEMMA SinkStep == SinkInv /\ [Next]_vars => SinkInv'
<1> SUFFICES ASSUME SinkInv, [Next]_vars PROVE SinkInv'
  OBVIOUS
<1>0. TypeOK /\ TypeOK'
  BY TypeStep DEF SinkInv
<1>r. \A id \in Actions : Reader(sink[id], told[id], printed[id], printed[id] - dropped[id])
  BY SinkReaders DEF SinkInv
<1> DEFINE Accounts == \A id \in Actions :
             Reader(sink'[id], told'[id], printed'[id], printed'[id] - dropped'[id])
<1>s. Accounts => SinkAccountsForAll'
  BY DEF SinkAccountsForAll, Reader
<1>1. ASSUME NEW id \in Actions, PushMarker(id) PROVE SinkInv'
  <2> DEFINE item == Gap(id, dropped[id])
             p == printed[id]
             d == dropped[id]
  <2>0. p \in Nat /\ d \in Nat /\ told[id] \in Nat /\ sink[id] \in Seq(Items) /\ item \in Items
    BY <1>0, EventTypes DEF TypeOK
  <2>1. /\ sink' = [sink EXCEPT ![id] = Append(@, item)]
        /\ dropped' = [dropped EXCEPT ![id] = 0] /\ stage' = [stage EXCEPT ![id] = "pushing"]
        /\ UNCHANGED <<printed, told>>
    BY <1>1 DEF PushMarker
  <2>2. MarkersCountAll'
    BY <1>0, <2>1 DEF SinkInv, MarkersCountAll, TypeOK
  <2>3. SinksAreOwn'
    <3>1. /\ Len(Append(sink[id], item)) = Len(sink[id]) + 1
          /\ \A i \in 1..Len(sink[id]) : Append(sink[id], item)[i] = sink[id][i]
          /\ Append(sink[id], item)[Len(sink[id]) + 1] = item /\ Len(sink[id]) \in Nat
      BY <2>0, AppendProperties, LenProperties
    <3>2. \A i \in 1..Len(Append(sink[id], item)) : Append(sink[id], item)[i].id = id
      BY <3>1 DEF SinkInv, SinksAreOwn, Gap
    <3> QED
      BY <1>0, <2>1, <3>2 DEF SinkInv, SinksAreOwn, TypeOK
  <2>4. Reader(Append(sink[id], item), told[id], p, p - 0)
    <3>1. Reader(sink[id], told[id], p, p - d)
      BY <1>r
    <3>2. p - d \in Nat
      BY <3>1, <2>0, LenProperties DEF Reader
    <3>3. (p - d) + d = p /\ p - 0 = p
      BY <2>0
    <3>4. Continues(p - d, item, p)
      BY <3>3 DEF Continues, Reads, Gap
    <3>5. p <= p
      BY <2>0
    <3> HIDE DEF item, p, d
    <3>6. Reader(Append(sink[id], item), told[id], p, p)
      BY <2>0, <3>1, <3>2, <3>4, <3>5, ReaderAppend
    <3> QED
      BY <3>3, <3>6
  <2>5. Accounts
    BY <1>0, <1>r, <2>1, <2>4 DEF TypeOK
  <2> QED
    BY <1>0, <1>s, <2>2, <2>3, <2>5 DEF SinkInv
<1>2. ASSUME NEW id \in Actions, PushLine(id) PROVE SinkInv'
  <2> DEFINE item == Line(id, printed[id] + 1)
             p == printed[id]
             d == dropped[id]
  <2>0. p \in Nat /\ d \in Nat /\ told[id] \in Nat /\ sink[id] \in Seq(Items) /\ item \in Items
    BY <1>0, EventTypes DEF TypeOK
  <2>1. /\ printed' = [printed EXCEPT ![id] = @ + 1] /\ stage' = [stage EXCEPT ![id] = "running"]
        /\ UNCHANGED told
    BY <1>2 DEF PushLine
  <2>r. Reader(sink[id], told[id], p, p - d)
    BY <1>r
  <2>2. CASE Room(id)
    <3>1. sink' = [sink EXCEPT ![id] = Append(@, item)] /\ UNCHANGED dropped
      BY <1>2, <2>2 DEF PushLine, LineOrDrop
    <3>2. MarkersCountAll'
      BY <1>0, <2>1, <3>1 DEF SinkInv, MarkersCountAll, TypeOK
    <3>3. SinksAreOwn'
      <4>1. /\ Len(Append(sink[id], item)) = Len(sink[id]) + 1
            /\ \A i \in 1..Len(sink[id]) : Append(sink[id], item)[i] = sink[id][i]
            /\ Append(sink[id], item)[Len(sink[id]) + 1] = item /\ Len(sink[id]) \in Nat
        BY <2>0, AppendProperties, LenProperties
      <4>2. \A i \in 1..Len(Append(sink[id], item)) : Append(sink[id], item)[i].id = id
        BY <4>1 DEF SinkInv, SinksAreOwn, Line
      <4> QED
        BY <1>0, <3>1, <4>2 DEF SinkInv, SinksAreOwn, TypeOK
    <3>4. d = 0
      BY <1>2, <2>2 DEF PushLine, SinkInv, MarkersCountAll
    <3>5. Reader(Append(sink[id], item), told[id], p + 1, (p + 1) - d)
      <4>1. p - d = p /\ (p + 1) - d = p + 1 /\ p + 1 \in Nat /\ p <= p + 1
        BY <2>0, <3>4
      <4>2. Continues(p, item, p + 1)
        BY DEF Continues, Reads, Line
      <4> HIDE DEF item, p, d
      <4> QED
        BY <2>0, <2>r, <4>1, <4>2, ReaderAppend
    <3>6. Accounts
      <4>1. ASSUME NEW x \in Actions \ {id}
            PROVE  Reader(sink'[x], told'[x], printed'[x], printed'[x] - dropped'[x])
        <5>1. /\ sink'[x] = sink[x] /\ told'[x] = told[x] /\ printed'[x] = printed[x]
              /\ dropped'[x] = dropped[x]
          BY <1>0, <2>1, <3>1 DEF TypeOK
        <5> QED
          BY <1>r, <5>1
      <4>2. Reader(sink'[id], told'[id], printed'[id], printed'[id] - dropped'[id])
        <5>1. /\ sink'[id] = Append(sink[id], item) /\ told'[id] = told[id]
              /\ printed'[id] = p + 1 /\ dropped'[id] = d
          BY <1>0, <2>1, <3>1 DEF TypeOK
        <5> QED
          BY <3>5, <5>1
      <4> QED
        BY <4>1, <4>2
    <3> QED
      BY <1>0, <1>s, <3>2, <3>3, <3>6 DEF SinkInv
  <2>3. CASE ~Room(id)
    <3>1. dropped' = [dropped EXCEPT ![id] = @ + 1] /\ UNCHANGED sink
      BY <1>2, <2>3 DEF PushLine, LineOrDrop
    <3>2. MarkersCountAll' /\ SinksAreOwn'
      BY <1>0, <2>1, <3>1 DEF SinkInv, MarkersCountAll, SinksAreOwn, TypeOK
    <3>3. Reader(sink[id], told[id], p + 1, (p + 1) - (d + 1))
      <4>1. (p + 1) - (d + 1) = p - d /\ p + 1 \in Nat /\ p <= p + 1
        <5>1. p \in Nat /\ d \in Nat
          BY <2>0
        <5> HIDE DEF p, d
        <5> QED
          BY <5>1
      <4> HIDE DEF p, d
      <4> QED
        BY <2>0, <2>r, <4>1, ReaderGrow
    <3>4. Accounts
      <4>1. ASSUME NEW x \in Actions \ {id}
            PROVE  Reader(sink'[x], told'[x], printed'[x], printed'[x] - dropped'[x])
        <5>1. /\ sink'[x] = sink[x] /\ told'[x] = told[x] /\ printed'[x] = printed[x]
              /\ dropped'[x] = dropped[x]
          BY <1>0, <2>1, <3>1 DEF TypeOK
        <5> QED
          BY <1>r, <5>1
      <4>2. Reader(sink'[id], told'[id], printed'[id], printed'[id] - dropped'[id])
        <5>1. /\ sink'[id] = sink[id] /\ told'[id] = told[id]
              /\ printed'[id] = p + 1 /\ dropped'[id] = d + 1
          BY <1>0, <2>1, <3>1 DEF TypeOK
        <5> QED
          BY <3>3, <5>1
      <4> QED
        BY <4>1, <4>2
    <3> QED
      BY <1>0, <1>s, <3>2, <3>4 DEF SinkInv
  <2> QED
    BY <2>2, <2>3
<1>3. ASSUME NEW id \in Actions, Scan(id) PROVE SinkInv'
  <2>0. /\ printed[id] \in Nat /\ told[id] \in Nat /\ sink[id] \in Seq(Items) /\ sink[id] # <<>>
    BY <1>0, <1>3 DEF TypeOK, Scan
  <2>1. /\ sink' = [sink EXCEPT ![id] = Tail(@)]
        /\ told' = [told EXCEPT ![id] = Reads(@, Head(sink[id]))]
        /\ UNCHANGED <<stage, printed, dropped>>
    BY <1>3 DEF Scan, clientVars
  <2>2. MarkersCountAll'
    BY <2>1 DEF SinkInv, MarkersCountAll
  <2>3. SinksAreOwn'
    <3>1. /\ Len(Tail(sink[id])) = Len(sink[id]) - 1 /\ Len(sink[id]) \in Nat
          /\ \A i \in 1..Len(Tail(sink[id])) : Tail(sink[id])[i] = sink[id][i + 1]
      BY <2>0, HeadTailProperties, LenProperties
    <3>2. \A i \in 1..Len(Tail(sink[id])) : Tail(sink[id])[i].id = id
      BY <3>1 DEF SinkInv, SinksAreOwn
    <3> QED
      BY <1>0, <2>1, <3>2 DEF SinkInv, SinksAreOwn, TypeOK
  <2>4. Reader(Tail(sink[id]), Reads(told[id], Head(sink[id])), printed[id], printed[id] - dropped[id])
    BY <1>r, <2>0, ReaderTail
  <2>5. Accounts
    BY <1>0, <1>r, <2>1, <2>4 DEF TypeOK
  <2> QED
    BY <1>0, <1>s, <2>2, <2>3, <2>5 DEF SinkInv
<1>4. ASSUME UNCHANGED <<printed, dropped, sink, told>>,
             \A id \in Actions : stage'[id] = "pushing" => stage[id] = "pushing"
      PROVE  SinkInv'
  <2>1. MarkersCountAll' /\ SinksAreOwn'
    BY <1>0, <1>4 DEF SinkInv, MarkersCountAll, SinksAreOwn
  <2>2. Accounts
    BY <1>r, <1>4
  <2> QED
    BY <1>0, <1>s, <2>1, <2>2 DEF SinkInv
<1>5. ASSUME NEW id \in Actions,
             \/ Receive(id) \/ Begin(id) \/ LoseReport(id) \/ Close(id) \/ Kill(id)
             \/ RecordResult(id) \/ EndDone(id) \/ AcceptPost(id) \/ ClosePost(id) \/ CutPost(id)
      PROVE  SinkInv'
  <2>1. UNCHANGED <<printed, dropped, sink, told>>
    BY <1>5 DEF Receive, Begin, LoseReport, Close, Kill, Stop, RecordResult, EndDone,
       AcceptPost, ClosePost, CutPost, EndPost, clientVars, lineVars
  <2>2. \/ stage' = stage
        \/ \E how \in {"running", "reported", "closed", "killed", "recorded"} :
              /\ stage' = [stage EXCEPT ![id] = how]
              /\ how = "running" => stage[id] = "none"
    BY <1>5 DEF Receive, Begin, LoseReport, Close, Kill, Stop, RecordResult, EndDone,
       AcceptPost, ClosePost, CutPost, EndPost, clientVars
  <2>3. \A x \in Actions : stage'[x] = "pushing" => stage[x] = "pushing"
    BY <1>0, <2>2 DEF TypeOK
  <2> QED
    BY <1>4, <2>1, <2>3
<1>6. ASSUME NEW b \in Browsers,
             \/ Open(b) \/ Reconnect(b) \/ WriteReplay(b) \/ WriteEvent(b)
             \/ Leave(b, "off") \/ Leave(b, "lost")
      PROVE  SinkInv'
  BY <1>4, <1>6 DEF Open, Reconnect, WriteReplay, WriteEvent, Leave, clientVars, lineVars
<1>7. CASE UNCHANGED vars
  BY <1>4, <1>7 DEF vars, clientVars, lineVars
<1> QED
  BY <1>1, <1>2, <1>3, <1>5, <1>6, <1>7 DEF Next

LEMMA InitSink == Init => SinkInv
<1> SUFFICES ASSUME Init PROVE SinkInv
  OBVIOUS
<1>1. MarkersCountAll /\ SinksAreOwn
  BY DEF Init, MarkersCountAll, SinksAreOwn
<1>2. Reader(<<>>, 0, 0, 0)
  <2> DEFINE come == [i \in 0..0 |-> 0]
  <2>1. come \in [0..Len(<<>>) -> 0..0] /\ come[0] = 0 /\ come[Len(<<>>)] = 0
    BY EmptySeq
  <2>2. \A i \in 1..Len(<<>>) : FALSE
    OBVIOUS
  <2> QED
    BY <2>1, <2>2 DEF Reader
<1>3. SinkAccountsForAll
  BY <1>2, SinkReaders DEF Init
<1> QED
  BY <1>1, <1>3, InitType DEF SinkInv

\* Nothing that left the sink or is in it misstates what the command printed: for
\* any capacity, every line is there or counted by the marker in its place
\* (OutputSink.Push, StreamOutput).
THEOREM SinkLosesNoCount == Spec => []SinkAccountsForAll
<1>1. SinkInv => SinkAccountsForAll
  BY DEF SinkInv
<1> QED
  BY <1>1, InitSink, SinkStep, PTL DEF Spec

-----------------------------------------------------------------------------
(* What a page is sent                                                     *)

\* A page that kept up was sent the backlog last, and nothing of action a before.
Watches(s, bl, a) ==
    \E k \in 0..Len(s) : s = SubSeq(s, 1, k) \o bl /\ \A i \in 1..k : s[i].id # a

\* With all of it the backlog ...
LEMMA WatchesFresh ==
    ASSUME NEW bl \in Seq(Events), NEW a
    PROVE  Watches(bl, bl, a)
<1>1. Len(bl) \in Nat /\ SubSeq(bl, 1, 0) = <<>> /\ <<>> \o bl = bl
  BY LenProperties, SubSeqEmpty, ConcatEmptySeq
<1>2. 0 \in 0..Len(bl) /\ bl = SubSeq(bl, 1, 0) \o bl /\ \A i \in 1..0 : bl[i].id # a
  BY <1>1
<1> QED
  BY <1>2 DEF Watches

\* ... with an action that begins ...
LEMMA WatchesNew ==
    ASSUME NEW s \in Seq(Events), NEW a, \A i \in 1..Len(s) : s[i].id # a
    PROVE  Watches(s, <<>>, a)
<1>1. Len(s) \in Nat /\ SubSeq(s, 1, Len(s)) = s /\ s \o <<>> = s
  BY LenProperties, SubSeqFull, ConcatEmptySeq
<1>2. Len(s) \in 0..Len(s) /\ s = SubSeq(s, 1, Len(s)) \o <<>>
  BY <1>1
<1> QED
  BY <1>2 DEF Watches

\* ... and with one more item for the backlog and the page.
LEMMA WatchesAppend ==
    ASSUME NEW s \in Seq(Events), NEW bl \in Seq(Events), NEW a, Watches(s, bl, a),
           NEW e \in Events
    PROVE  Watches(Append(s, e), Append(bl, e), a)
<1>1. PICK k \in 0..Len(s) : s = SubSeq(s, 1, k) \o bl /\ \A i \in 1..k : s[i].id # a
  BY DEF Watches
<1>2. PICK t \in Seq(Events) :
        /\ t = Append(s, e) /\ Len(t) = Len(s) + 1 /\ t[Len(s) + 1] = e
        /\ \A i \in 1..Len(s) : t[i] = s[i]
  <2>1. /\ Append(s, e) \in Seq(Events) /\ Len(Append(s, e)) = Len(s) + 1
        /\ Append(s, e)[Len(s) + 1] = e
        /\ \A i \in 1..Len(s) : Append(s, e)[i] = s[i]
    BY AppendProperties
  <2> QED
    BY <2>1
<1>3. Len(s) \in Nat /\ k \in Nat /\ k <= Len(s)
  BY LenProperties
<1>5. SubSeq(s, 1, k) \in Seq(Events) /\ SubSeq(t, 1, k) = SubSeq(s, 1, k)
  <2>1. \A i \in 1..k : s[i] \in Events /\ t[i] \in Events
    BY <1>2, <1>3, ElementOfSeq
  <2>2. SubSeq(s, 1, k) \in Seq(Events) /\ SubSeq(t, 1, k) \in Seq(Events)
    BY <1>3, <2>1, SubSeqProperties
  <2>3. /\ Len(SubSeq(s, 1, k)) = k /\ Len(SubSeq(t, 1, k)) = k
        /\ \A i \in 1..k : SubSeq(s, 1, k)[i] = s[i] /\ SubSeq(t, 1, k)[i] = t[i]
    BY <1>2, <1>3, LenProperties
  <2>4. \A i \in 1..k : SubSeq(s, 1, k)[i] = SubSeq(t, 1, k)[i]
    BY <1>2, <1>3, <2>3
  <2> QED
    BY <2>2, <2>3, <2>4, SeqEqual
<1>6. t = SubSeq(t, 1, k) \o Append(bl, e)
  <2>1. PICK h \in Seq(Events) : h = SubSeq(s, 1, k)
    BY <1>5
  <2>2. PICK l \in Seq(Events) :
          /\ l = Append(bl, e) /\ Len(l) = Len(bl) + 1 /\ l[Len(bl) + 1] = e
          /\ \A i \in 1..Len(bl) : l[i] = bl[i]
    <3>1. /\ Append(bl, e) \in Seq(Events) /\ Len(Append(bl, e)) = Len(bl) + 1
          /\ Append(bl, e)[Len(bl) + 1] = e
          /\ \A i \in 1..Len(bl) : Append(bl, e)[i] = bl[i]
      BY AppendProperties
    <3> QED
      BY <3>1
  <2>3. PICK w \in Seq(Events) :
          /\ w = h \o l /\ Len(w) = Len(h) + Len(l)
          /\ \A i \in 1..(Len(h) + Len(l)) : w[i] = IF i <= Len(h) THEN h[i] ELSE l[i - Len(h)]
    <3>1. /\ h \o l \in Seq(Events) /\ Len(h \o l) = Len(h) + Len(l)
          /\ \A i \in 1..(Len(h) + Len(l)) :
               (h \o l)[i] = IF i <= Len(h) THEN h[i] ELSE l[i - Len(h)]
      BY ConcatProperties
    <3> QED
      BY <3>1
  <2>4. /\ Len(s) = Len(h) + Len(bl)
        /\ \A i \in 1..(Len(h) + Len(bl)) : s[i] = IF i <= Len(h) THEN h[i] ELSE bl[i - Len(h)]
    <3>1. s = h \o bl
      BY <1>1, <2>1
    <3>2. /\ Len(h \o bl) = Len(h) + Len(bl)
          /\ \A i \in 1..(Len(h) + Len(bl)) :
               (h \o bl)[i] = IF i <= Len(h) THEN h[i] ELSE bl[i - Len(h)]
      BY ConcatProperties
    <3> QED
      BY <3>1, <3>2
  <2>5. Len(h) \in Nat /\ Len(bl) \in Nat
    BY LenProperties
  <2>6. Len(w) = Len(t)
    BY <1>2, <2>2, <2>3, <2>4, <2>5
  <2>7. ASSUME NEW i \in 1..Len(t) PROVE t[i] = w[i]
    <3>1. CASE i = Len(s) + 1
      <4>1. i - Len(h) = Len(bl) + 1 /\ ~(i <= Len(h)) /\ i \in 1..(Len(h) + Len(l))
        BY <2>2, <2>4, <2>5, <3>1
      <4> QED
        BY <1>2, <2>2, <2>3, <3>1, <4>1
    <3>2. CASE i \in 1..Len(s) /\ i <= Len(h)
      BY <1>2, <2>2, <2>3, <2>4, <2>5, <3>2
    <3>3. CASE i \in 1..Len(s) /\ ~(i <= Len(h))
      <4>1. i - Len(h) \in 1..Len(bl) /\ i \in 1..(Len(h) + Len(l))
        BY <2>2, <2>4, <2>5, <3>3
      <4> QED
        BY <1>2, <2>2, <2>3, <2>4, <3>3, <4>1
    <3>4. i = Len(s) + 1 \/ i \in 1..Len(s)
      <4>1. Len(t) = Len(s) + 1
        BY <1>2
      <4> QED
        BY <1>3, <4>1, LastIndex
    <3> QED
      BY <3>1, <3>2, <3>3, <3>4
  <2>8. t = w
    BY <2>6, <2>7, SeqEqual
  <2> QED
    BY <1>5, <2>1, <2>2, <2>3, <2>8
<1>7. k \in 0..Len(t) /\ \A i \in 1..k : t[i].id # a
  BY <1>1, <1>2, <1>3
<1> QED
  BY <1>2, <1>6, <1>7 DEF Watches

\* While action a is active and those of B have been, nothing in s is of another
\* action, follows its own action's end, or ends a.
Orderly(s, a, B) ==
    /\ \A i \in 1..Len(s) : s[i].id \in B /\ (s[i].kind \in EndKinds => s[i].id # a)
    /\ \A i, j \in 1..Len(s) : i < j /\ s[i].kind \in EndKinds => s[j].id # s[i].id

\* t is s cut short.
Short(t, s) == Len(t) <= Len(s) /\ \A i \in 1..Len(t) : t[i] = s[i]

LEMMA OrderlyCut ==
    ASSUME NEW s \in Seq(Events), NEW t \in Seq(Events), NEW a, NEW B,
           Orderly(s, a, B), Short(t, s)
    PROVE  Orderly(t, a, B)
<1>1. Len(s) \in Nat /\ Len(t) \in Nat /\ Len(t) <= Len(s)
  BY LenProperties DEF Short
<1>2. \A i \in 1..Len(t) : i \in 1..Len(s) /\ t[i] = s[i]
  BY <1>1 DEF Short
<1>3. \A i \in 1..Len(t) : t[i].id \in B /\ (t[i].kind \in EndKinds => t[i].id # a)
  BY <1>2 DEF Orderly
<1>4. ASSUME NEW i \in 1..Len(t), NEW j \in 1..Len(t), i < j, t[i].kind \in EndKinds
      PROVE  t[j].id # t[i].id
  <2>1. i \in 1..Len(s) /\ j \in 1..Len(s) /\ t[i] = s[i] /\ t[j] = s[j]
    BY <1>2
  <2> QED
    BY <1>4, <2>1 DEF Orderly
<1> QED
  BY <1>3, <1>4 DEF Orderly

LEMMA OrderlyBegin ==
    ASSUME NEW s \in Seq(Events), NEW a, NEW B, Orderly(s, a, B),
           NEW a2, a2 \notin B, NEW B2, B \subseteq B2
    PROVE  Orderly(s, a2, B2)
  BY DEF Orderly

\* An event of the active action may follow; its end leaves none active.
LEMMA OrderlyAppend ==
    ASSUME NEW s \in Seq(Events), NEW a \in Actions, NEW B, Orderly(s, a, B), a \in B,
           NEW e \in Events, e.id = a, NEW a2,
           \/ e.kind \notin EndKinds /\ a2 = a
           \/ a2 = 0 /\ B \subseteq Actions
    PROVE  Orderly(Append(s, e), a2, B)
<1>1. PICK t \in Seq(Events) :
        /\ t = Append(s, e) /\ Len(t) = Len(s) + 1 /\ t[Len(s) + 1] = e
        /\ \A i \in 1..Len(s) : t[i] = s[i]
  <2>1. /\ Append(s, e) \in Seq(Events) /\ Len(Append(s, e)) = Len(s) + 1
        /\ Append(s, e)[Len(s) + 1] = e /\ \A i \in 1..Len(s) : Append(s, e)[i] = s[i]
    BY AppendProperties
  <2> QED
    BY <2>1
<1>2. Len(s) \in Nat
  BY LenProperties
<1>3. ASSUME NEW i \in 1..Len(t)
      PROVE  t[i].id \in B /\ (t[i].kind \in EndKinds => t[i].id # a2)
  <2>1. \A x \in Actions : x # 0
    BY DEF Actions
  <2>2. CASE i \in 1..Len(s)
    BY <1>1, <2>1, <2>2 DEF Orderly
  <2>3. CASE i = Len(s) + 1
    BY <1>1, <2>1, <2>3
  <2> QED
    BY <1>1, <1>2, <2>2, <2>3
<1>4. ASSUME NEW i \in 1..Len(t), NEW j \in 1..Len(t), i < j, t[i].kind \in EndKinds
      PROVE  t[j].id # t[i].id
  <2>1. i \in 1..Len(s) /\ t[i] = s[i]
    BY <1>1, <1>2, <1>4
  <2>2. CASE j \in 1..Len(s)
    BY <1>1, <1>4, <2>1, <2>2 DEF Orderly
  <2>3. CASE j = Len(s) + 1
    BY <1>1, <1>4, <2>1, <2>3 DEF Orderly
  <2> QED
    BY <1>1, <1>2, <2>2, <2>3
<1> QED
  BY <1>1, <1>3, <1>4 DEF Orderly

\* The backlog is orderly: it holds no end.
LEMMA OrderlyBacklog ==
    ASSUME NEW bl \in Seq(Items), NEW a, NEW B, a # 0 => a \in B,
           \A i \in 1..Len(bl) : bl[i].id = a
    PROVE  Orderly(bl, a, B)
<1>1. \A i \in 1..Len(bl) : bl[i] \in Items
  BY ElementOfSeq
<1>2. \A i \in 1..Len(bl) : bl[i].id = a /\ a # 0 /\ bl[i].kind \notin EndKinds
  BY <1>1 DEF Items, EndKinds, Actions
<1> QED
  BY <1>2 DEF Orderly

\* The actions whose view has begun, and perhaps ended.
BegunOnes == {id \in Actions : stage[id] # "none" /\ id \notin toBegin}

BaseWithinPane == \A b \in Browsers : base[b] <= Len(pane[b])

\* The view is of an action that has begun, and so is all of the backlog.
ViewHasBegun ==
    /\ \A id \in toBegin : stage[id] # "none"
    /\ active # 0 => active \in BegunOnes
    /\ \A i \in 1..Len(backlog) : backlog[i].id = active

\* A page was sent events of actions that have begun, in order, and their ends last.
PagesAreOrderly == \A b \in Browsers : Orderly(Sent(b), active, BegunOnes)

\* The inductive invariant.  An end may be broadcast once because an action begins
\* once (ViewHasBegun); nothing follows it because what it ended is not active.
ViewInv ==
    /\ SinkInv
    /\ BaseWithinPane
    /\ ViewHasBegun
    /\ PagesAreOrderly
    /\ WatcherSeesAll

LEMMA SentParts ==
    ASSUME TypeOK, BaseWithinPane, NEW b \in Browsers
    PROVE  /\ Sent(b) = Parts(pane[b], base[b], replay[b], chan[b])
           /\ pane[b] \in Seq(Events) /\ base[b] \in 0..Len(pane[b])
           /\ replay[b] \in Seq(Events) /\ chan[b] \in Seq(Events) /\ Sent(b) \in Seq(Events)
<1>1. /\ pane[b] \in Seq(Events) /\ base[b] \in 0..Len(pane[b])
      /\ replay[b] \in Seq(Events) /\ chan[b] \in Seq(Events)
  BY ItemSeqs, LenProperties DEF TypeOK, BaseWithinPane
<1>2. Sent(b) = Parts(pane[b], base[b], replay[b], chan[b])
  BY DEF Sent, Parts
<1> QED
  BY <1>1, <1>2, PartsShape

\* What a step of a page or of its handler does to what page x was sent.
PageChange(x) ==
    \/ Sent(x)' = Sent(x) /\ (on(x)' => on(x)) /\ missed'[x] = missed[x]
    \/ Sent(x)' \in Seq(Events) /\ Short(Sent(x)', Sent(x)) /\ ~on(x)'
    \/ Sent(x)' = backlog

LEMMA PageStep ==
    ASSUME TypeOK, BaseWithinPane, NEW b \in Browsers,
           \/ Open(b) \/ Reconnect(b) \/ WriteReplay(b) \/ WriteEvent(b)
           \/ Leave(b, "off") \/ Leave(b, "lost")
    PROVE  BaseWithinPane' /\ \A x \in Browsers : PageChange(x)
<1>0. /\ Sent(b) = Parts(pane[b], base[b], replay[b], chan[b])
      /\ pane[b] \in Seq(Events) /\ base[b] \in 0..Len(pane[b])
      /\ replay[b] \in Seq(Events) /\ chan[b] \in Seq(Events)
      /\ Len(pane[b]) \in Nat
  BY SentParts, LenProperties
<1>1. ASSUME NEW x \in Browsers \ {b}
      PROVE  /\ watch'[x] = watch[x] /\ chan'[x] = chan[x] /\ replay'[x] = replay[x]
             /\ pane'[x] = pane[x] /\ base'[x] = base[x] /\ missed'[x] = missed[x]
  BY DEF TypeOK, Open, Reconnect, Subscribe, WriteReplay, WriteEvent, Leave
<1>2. ASSUME NEW x \in Browsers \ {b} PROVE base'[x] <= Len(pane'[x]) /\ PageChange(x)
  BY <1>1, <1>2 DEF BaseWithinPane, PageChange, Sent, on
<1>3. CASE Open(b)
  <2>1. /\ pane'[b] = <<>> /\ base'[b] = 0 /\ replay'[b] = backlog /\ chan'[b] = <<>>
    BY <1>3 DEF TypeOK, Open, Subscribe
  <2>2. <<>> \in Seq(Events) /\ Len(<<>>) = 0 /\ backlog \in Seq(Events)
    BY ItemSeqs DEF TypeOK
  <2>3. Parts(<<>>, 0, backlog, <<>>) = backlog
    BY <2>2, PartsFresh
  <2>4. Sent(b)' = Parts(<<>>, 0, backlog, <<>>)
    BY <2>1 DEF Sent, Parts
  <2>5. base'[b] <= Len(pane'[b])
    BY <2>1, <2>2
  <2> QED
    BY <1>2, <2>3, <2>4, <2>5 DEF BaseWithinPane, PageChange
<1>4. CASE Reconnect(b)
  <2>1. /\ pane'[b] = pane[b] /\ base'[b] = Len(pane[b]) /\ replay'[b] = backlog
        /\ chan'[b] = <<>>
    BY <1>4 DEF TypeOK, Reconnect, Subscribe
  <2>2. backlog \in Seq(Events)
    BY ItemSeqs DEF TypeOK
  <2>3. Parts(pane[b], Len(pane[b]), backlog, <<>>) = backlog
    BY <1>0, <2>2, PartsFresh
  <2>4. Sent(b)' = Parts(pane[b], Len(pane[b]), backlog, <<>>)
    BY <2>1 DEF Sent, Parts
  <2>5. base'[b] <= Len(pane'[b])
    BY <1>0, <2>1
  <2> QED
    BY <1>2, <2>3, <2>4, <2>5 DEF BaseWithinPane, PageChange
<1>5. CASE WriteReplay(b)
  <2>1. /\ pane'[b] = Append(pane[b], Head(replay[b])) /\ base'[b] = base[b]
        /\ replay'[b] = Tail(replay[b]) /\ chan'[b] = chan[b]
        /\ watch' = watch /\ missed' = missed /\ replay[b] # <<>>
    BY <1>5 DEF TypeOK, WriteReplay
  <2>2. /\ base[b] \in 0..Len(Append(pane[b], Head(replay[b])))
        /\ Parts(Append(pane[b], Head(replay[b])), base[b], Tail(replay[b]), chan[b]) = Sent(b)
    BY <1>0, <2>1, PartsWriteReplay
  <2>3. Sent(b)' = Parts(Append(pane[b], Head(replay[b])), base[b], Tail(replay[b]), chan[b])
    BY <2>1 DEF Sent, Parts
  <2>4. base'[b] <= Len(pane'[b])
    BY <2>1, <2>2
  <2>5. PageChange(b)
    BY <2>1, <2>2, <2>3 DEF PageChange, on
  <2> QED
    BY <1>2, <2>4, <2>5 DEF BaseWithinPane
<1>6. CASE WriteEvent(b)
  <2>1. /\ pane'[b] = Append(pane[b], Head(chan[b])) /\ base'[b] = base[b]
        /\ replay'[b] = <<>> /\ replay[b] = <<>> /\ missed' = missed /\ chan[b] # <<>>
    BY <1>6 DEF TypeOK, WriteEvent
  <2>2. /\ Append(pane[b], Head(chan[b])) \in Seq(Events) /\ Tail(chan[b]) \in Seq(Events)
        /\ base[b] \in 0..Len(Append(pane[b], Head(chan[b])))
        /\ Parts(Append(pane[b], Head(chan[b])), base[b], <<>>, Tail(chan[b])) = Sent(b)
    BY <1>0, <2>1, PartsWriteEvent
  <2>3. base'[b] <= Len(pane'[b])
    BY <2>1, <2>2
  <2>4. CASE Head(chan[b]).kind \in EndKinds
    <3>1. chan'[b] = <<>> /\ watch'[b] = "off"
      BY <1>6, <2>4 DEF TypeOK, WriteEvent
    <3>2. PICK q \in Seq(Events), c \in Seq(Events) :
             q = Append(pane[b], Head(chan[b])) /\ c = Tail(chan[b])
      BY <2>2
    <3>3. PICK n \in 0..Len(q) : n = base[b]
      BY <2>2, <3>2
    <3>4. PICK none \in Seq(Events) : none = <<>>
      <4>1. <<>> \in Seq(Events)
        OBVIOUS
      <4> QED
        BY <4>1
    <3>5. Short(Parts(q, n, <<>>, <<>>), Parts(q, n, none, c))
      BY PartsCut DEF Short
    <3>6. Parts(q, n, none, none) \in Seq(Events)
      BY PartsShape
    <3>7. Sent(b)' = Parts(q, n, <<>>, <<>>)
      BY <2>1, <3>1, <3>2, <3>3 DEF Sent, Parts
    <3>8. Parts(q, n, none, c) = Sent(b)
      BY <2>2, <3>2, <3>3, <3>4
    <3>9. PageChange(b)
      BY <3>1, <3>4, <3>5, <3>6, <3>7, <3>8 DEF PageChange, on
    <3> QED
      BY <1>2, <2>3, <3>9 DEF BaseWithinPane
  <2>5. CASE Head(chan[b]).kind \notin EndKinds
    <3>1. chan'[b] = Tail(chan[b]) /\ watch' = watch
      BY <1>6, <2>5 DEF TypeOK, WriteEvent
    <3>2. Sent(b)' = Parts(Append(pane[b], Head(chan[b])), base[b], <<>>, Tail(chan[b]))
      BY <2>1, <3>1 DEF Sent, Parts
    <3>3. PageChange(b)
      BY <2>1, <2>2, <3>1, <3>2 DEF PageChange, on
    <3> QED
      BY <1>2, <2>3, <3>3 DEF BaseWithinPane
  <2> QED
    BY <2>4, <2>5
<1>7. CASE Leave(b, "off") \/ Leave(b, "lost")
  <2>1. /\ pane'[b] = pane[b] /\ base'[b] = base[b] /\ replay'[b] = <<>> /\ chan'[b] = <<>>
        /\ watch'[b] # "on"
    BY <1>7 DEF TypeOK, Leave
  <2>2. <<>> \in Seq(Events)
    OBVIOUS
  <2>3. Short(Parts(pane[b], base[b], <<>>, <<>>), Sent(b))
    <3>1. PICK q, t, c \in Seq(Events) : q = pane[b] /\ t = replay[b] /\ c = chan[b]
      BY <1>0
    <3>2. PICK n \in 0..Len(q) : n = base[b]
      BY <1>0, <3>1
    <3>3. Short(Parts(q, n, <<>>, <<>>), Parts(q, n, t, c))
      BY PartsCut DEF Short
    <3> QED
      BY <1>0, <3>1, <3>2, <3>3
  <2>4. Parts(pane[b], base[b], <<>>, <<>>) \in Seq(Events)
    BY <1>0, <2>2, PartsShape
  <2>5. Sent(b)' = Parts(pane[b], base[b], <<>>, <<>>)
    BY <2>1 DEF Sent, Parts
  <2>6. base'[b] <= Len(pane'[b])
    BY <1>0, <2>1
  <2>7. PageChange(b)
    BY <2>1, <2>3, <2>4, <2>5 DEF PageChange, on
  <2> QED
    BY <1>2, <2>6, <2>7 DEF BaseWithinPane
<1> QED
  BY <1>3, <1>4, <1>5, <1>6, <1>7

\* A broadcast appends its event for the pages that keep up.
LEMMA BroadcastStep ==
    ASSUME TypeOK, BaseWithinPane, NEW e \in Events, broadcast(e)
    PROVE  /\ BaseWithinPane' /\ watch' = watch
           /\ \A x \in Browsers :
                \/ Sent(x)' = Append(Sent(x), e) /\ (on(x)' /\ ~missed'[x] => on(x) /\ ~missed[x])
                \/ Sent(x)' = Sent(x) /\ (~on(x)' \/ missed'[x])
<1>1. watch' = watch /\ replay' = replay /\ pane' = pane /\ base' = base
  BY DEF broadcast
<1>2. BaseWithinPane'
  BY <1>1 DEF BaseWithinPane
<1>3. ASSUME NEW x \in Browsers, on(x), Len(chan[x]) # SubCap
      PROVE  Sent(x)' = Append(Sent(x), e) /\ (~missed'[x] => ~missed[x])
  <2>1. chan'[x] = Append(chan[x], e) /\ (missed'[x] <=> missed[x])
    BY <1>3 DEF broadcast
  <2>2. Sent(x)' = Parts(pane[x], base[x], replay[x], Append(chan[x], e))
    BY <1>1, <2>1 DEF Sent, Parts
  <2>3. /\ Sent(x) = Parts(pane[x], base[x], replay[x], chan[x])
        /\ pane[x] \in Seq(Events) /\ base[x] \in 0..Len(pane[x])
        /\ replay[x] \in Seq(Events) /\ chan[x] \in Seq(Events)
    BY SentParts
  <2>4. PICK p \in Seq(Events), r \in Seq(Events), c \in Seq(Events) :
           p = pane[x] /\ r = replay[x] /\ c = chan[x]
    BY <2>3
  <2>5. PICK n \in 0..Len(p) : n = base[x]
    BY <2>3, <2>4
  <2>6. Parts(p, n, r, Append(c, e)) = Append(Parts(p, n, r, c), e)
    BY PartsAppend
  <2> QED
    BY <2>1, <2>2, <2>3, <2>4, <2>5, <2>6
<1>4. ASSUME NEW x \in Browsers, ~on(x) \/ Len(chan[x]) = SubCap
      PROVE  Sent(x)' = Sent(x) /\ (~on(x)' \/ missed'[x])
  <2>1. chan'[x] = chan[x] /\ (~on(x) \/ missed'[x])
    BY <1>4 DEF broadcast
  <2> QED
    BY <1>1, <2>1 DEF Sent, on
<1> QED
  BY <1>1, <1>2, <1>3, <1>4 DEF on

\* A step that touches neither the hub nor the pages, nor begins a view.
LEMMA AsideStep ==
    ASSUME ViewInv, SinkInv', UNCHANGED <<hubVars, subVars>>, BegunOnes' = BegunOnes,
           \A id \in toBegin' : stage'[id] # "none"
    PROVE  ViewInv'
<1>1. /\ active' = active /\ backlog' = backlog /\ \A b : Sent(b)' = Sent(b)
      /\ watch' = watch /\ missed' = missed /\ pane' = pane /\ base' = base
  BY DEF hubVars, subVars, Sent
<1>2. BaseWithinPane' /\ PagesAreOrderly'
  BY <1>1 DEF ViewInv, BaseWithinPane, PagesAreOrderly
<1>3. ViewHasBegun'
  BY <1>1 DEF ViewInv, ViewHasBegun
<1>4. WatcherSeesAll'
  BY <1>1 DEF ViewInv, WatcherSeesAll, on
<1> QED
  BY <1>2, <1>3, <1>4 DEF ViewInv

LEMMA WatchersWatch ==
    WatcherSeesAll <=>
      \A b \in Browsers : on(b) /\ ~missed[b] /\ active # 0 => Watches(Sent(b), backlog, active)
  BY DEF WatcherSeesAll, Watches

LEMMA ViewStep == ViewInv /\ [Next]_vars => ViewInv'
<1> SUFFICES ASSUME ViewInv, [Next]_vars PROVE ViewInv'
  OBVIOUS
<1>0. /\ TypeOK /\ BaseWithinPane /\ SinkInv' /\ ViewHasBegun
      /\ \A b \in Browsers : Sent(b) \in Seq(Events) /\ Orderly(Sent(b), active, BegunOnes)
      /\ backlog \in Seq(Events)
  BY SinkStep, SentParts, ItemSeqs DEF ViewInv, SinkInv, PagesAreOrderly, TypeOK
<1>w. \A b \in Browsers :
         on(b) /\ ~missed[b] /\ active # 0 => Watches(Sent(b), backlog, active)
  BY WatchersWatch DEF ViewInv
<1> DEFINE Watched == \A b \in Browsers :
             on(b)' /\ ~missed'[b] /\ active' # 0 => Watches(Sent(b)', backlog', active')
           Ordered == \A b \in Browsers : Orderly(Sent(b)', active', BegunOnes')
<1>s. Watched => WatcherSeesAll'
  BY DEF WatcherSeesAll, Watches
<1>p. Ordered => PagesAreOrderly'
  BY DEF PagesAreOrderly
<1>1. ASSUME NEW b \in Browsers,
             \/ Open(b) \/ Reconnect(b) \/ WriteReplay(b) \/ WriteEvent(b)
             \/ Leave(b, "off") \/ Leave(b, "lost")
      PROVE  ViewInv'
  <2>1. BaseWithinPane' /\ \A x \in Browsers : PageChange(x)
    BY <1>0, <1>1, PageStep
  <2>2. active' = active /\ backlog' = backlog /\ stage' = stage /\ toBegin' = toBegin
    BY <1>1 DEF Open, Reconnect, WriteReplay, WriteEvent, Leave, hubVars, clientVars
  <2>3. ViewHasBegun' /\ BegunOnes' = BegunOnes
    BY <1>0, <2>2 DEF ViewHasBegun, BegunOnes
  <2>4. Orderly(backlog, active, BegunOnes)
    BY <1>0, OrderlyBacklog DEF ViewHasBegun, TypeOK
  <2>5. Ordered
    BY <1>0, <2>1, <2>2, <2>3, <2>4, OrderlyCut DEF PageChange
  <2>6. Watches(backlog, backlog, active)
    BY <1>0, WatchesFresh
  <2>7. Watched
    BY <1>w, <2>1, <2>2, <2>6 DEF PageChange
  <2> QED
    BY <1>0, <1>s, <1>p, <2>1, <2>3, <2>5, <2>7 DEF ViewInv
<1>2. ASSUME NEW id \in Actions, Begin(id) PROVE ViewInv'
  <2>1. /\ id \in toBegin /\ toBegin' = toBegin \ {id} /\ active' = id /\ backlog' = <<>>
        /\ stage' = stage /\ UNCHANGED subVars
    BY <1>2 DEF Begin, StartView, clientVars
  <2>2. id \notin BegunOnes /\ BegunOnes' = BegunOnes \cup {id} /\ stage[id] # "none"
    BY <1>0, <2>1 DEF ViewHasBegun, BegunOnes
  <2>3. /\ BaseWithinPane' /\ \A b \in Browsers : Sent(b)' = Sent(b)
    BY <1>0, <2>1 DEF subVars, BaseWithinPane, Sent
  <2>4. ViewHasBegun'
    BY <1>0, <2>1, <2>2 DEF ViewHasBegun
  <2>5. Ordered
    BY <1>0, <2>1, <2>2, <2>3, OrderlyBegin
  <2>6. Watched
    <3>1. \A b \in Browsers : \A i \in 1..Len(Sent(b)) : Sent(b)[i].id # id
      BY <1>0, <2>2 DEF Orderly
    <3> QED
      BY <1>0, <2>1, <2>3, <3>1, WatchesNew
  <2> QED
    BY <1>0, <1>s, <1>p, <2>3, <2>4, <2>5, <2>6 DEF ViewInv
<1>3. ASSUME NEW id \in Actions, Scan(id) PROVE ViewInv'
  <2> DEFINE e == Head(sink[id])
  <2>1. stage' = stage /\ toBegin' = toBegin /\ active' = active
    BY <1>3 DEF Scan, clientVars
  <2>2. BegunOnes' = BegunOnes
    BY <2>1 DEF BegunOnes
  <2>3. CASE active # id
    BY <1>0, <1>3, <2>1, <2>2, <2>3, AsideStep DEF Scan, Publish, ViewHasBegun, hubVars
  <2>4. CASE active = id
    <3>1. e \in Items /\ e.id = id
      <4>1. sink[id] \in Seq(Items) /\ sink[id] # <<>>
        BY <1>0, <1>3 DEF Scan, TypeOK
      <4>2. Len(sink[id]) \in Nat /\ Len(sink[id]) >= 1 /\ e = sink[id][1] /\ e \in Items
        BY <4>1, EmptySeq, LenProperties, HeadTailProperties
      <4> QED
        BY <4>2 DEF ViewInv, SinkInv, SinksAreOwn
    <3>2. e \in Events /\ e.kind \notin EndKinds
      BY <3>1, EventTypes DEF Items, EndKinds
    <3>3. backlog' = Append(backlog, e) /\ broadcast(e)
      BY <1>3, <2>4 DEF Scan, Publish
    <3>4. /\ BaseWithinPane' /\ watch' = watch
          /\ \A x \in Browsers :
               \/ Sent(x)' = Append(Sent(x), e) /\ (on(x)' /\ ~missed'[x] => on(x) /\ ~missed[x])
               \/ Sent(x)' = Sent(x) /\ (~on(x)' \/ missed'[x])
      BY <1>0, <3>2, <3>3, BroadcastStep
    <3>5. id # 0 /\ id \in BegunOnes
      BY <1>0, <2>4 DEF ViewHasBegun, Actions
    <3>6. ViewHasBegun'
      <4>1. /\ Len(Append(backlog, e)) = Len(backlog) + 1 /\ Len(backlog) \in Nat
            /\ \A i \in 1..Len(backlog) : Append(backlog, e)[i] = backlog[i]
            /\ Append(backlog, e)[Len(backlog) + 1] = e
        BY <1>0, <3>2, AppendProperties, LenProperties
      <4>2. \A i \in 1..Len(Append(backlog, e)) : Append(backlog, e)[i].id = active
        BY <1>0, <2>4, <3>1, <4>1 DEF ViewHasBegun
      <4> QED
        BY <1>0, <2>1, <2>2, <3>3, <4>2 DEF ViewHasBegun
    <3> HIDE DEF e
    <3>7. \A x \in Browsers : Orderly(Append(Sent(x), e), active, BegunOnes)
      BY <1>0, <2>4, <3>1, <3>2, <3>5, OrderlyAppend
    <3>8. Ordered
      BY <1>0, <2>1, <2>2, <3>4, <3>7
    <3>9. Watched
      BY <1>0, <1>w, <2>1, <3>2, <3>3, <3>4, WatchesAppend
    <3> QED
      BY <1>0, <1>s, <1>p, <3>4, <3>6, <3>8, <3>9 DEF ViewInv
  <2> QED
    BY <2>3, <2>4
<1>4. ASSUME NEW id \in Actions, NEW kind \in EndKinds, End(id, kind), toBegin' = toBegin,
             BegunOnes' = BegunOnes, \A a \in toBegin : stage'[a] # "none"
      PROVE  ViewInv'
  <2>1. CASE active # id
    BY <1>0, <1>4, <2>1, AsideStep DEF End, hubVars
  <2>2. CASE active = id
    <3>1. active' = 0 /\ backlog' = <<>> /\ broadcast(EndOf(id, kind))
      BY <1>4, <2>2 DEF End
    <3>2. PICK e \in Events : e = EndOf(id, kind) /\ e.id = id
      BY EventTypes DEF EndOf
    <3>3. /\ BaseWithinPane' /\ watch' = watch
          /\ \A x \in Browsers : Sent(x)' = Append(Sent(x), e) \/ Sent(x)' = Sent(x)
      BY <1>0, <3>1, <3>2, BroadcastStep
    <3>4. id # 0 /\ id \in BegunOnes /\ BegunOnes \subseteq Actions /\ 0 \notin BegunOnes
      BY <1>0, <2>2 DEF ViewHasBegun, Actions, BegunOnes
    <3>5. ViewHasBegun'
      BY <1>4, <3>1 DEF ViewHasBegun
    <3>6. \A x \in Browsers : /\ Orderly(Append(Sent(x), e), 0, BegunOnes)
                              /\ Orderly(Sent(x), 0, BegunOnes)
      BY <1>0, <2>2, <3>2, <3>4, OrderlyAppend, OrderlyBegin
    <3>7. Ordered
      BY <1>4, <3>1, <3>3, <3>6
    <3>8. Watched
      BY <3>1
    <3> QED
      BY <1>0, <1>s, <1>p, <3>3, <3>5, <3>7, <3>8 DEF ViewInv
  <2> QED
    BY <2>1, <2>2
<1>5. ASSUME NEW id \in Actions, EndDone(id) PROVE ViewInv'
  <2>1. stage[id] = "recorded" /\ stage' = [stage EXCEPT ![id] = "reported"] /\ toBegin' = toBegin
    BY <1>5 DEF EndDone
  <2>2. BegunOnes' = BegunOnes /\ \A a \in toBegin : stage'[a] # "none"
    BY <1>0, <2>1 DEF BegunOnes, ViewHasBegun, TypeOK
  <2> QED
    BY <1>4, <1>5, <2>1, <2>2 DEF EndDone, EndKinds
<1>6. ASSUME NEW id \in Actions, ClosePost(id) \/ CutPost(id) PROVE ViewInv'
  <2>1. stage' = stage /\ toBegin' = toBegin /\ End(id, "disconnected")
    BY <1>6 DEF ClosePost, CutPost, EndPost, clientVars
  <2>2. BegunOnes' = BegunOnes /\ \A a \in toBegin : stage'[a] # "none"
    BY <1>0, <2>1 DEF BegunOnes, ViewHasBegun
  <2> QED
    BY <1>4, <2>1, <2>2 DEF EndKinds
<1>7. ASSUME NEW id \in Actions, Receive(id) PROVE ViewInv'
  <2>1. /\ stage[id] = "none" /\ stage' = [stage EXCEPT ![id] = "running"]
        /\ toBegin' = toBegin \cup {id} /\ UNCHANGED <<hubVars, subVars>>
    BY <1>7 DEF Receive
  <2>2. BegunOnes' = BegunOnes /\ \A a \in toBegin' : stage'[a] # "none"
    BY <1>0, <2>1 DEF BegunOnes, ViewHasBegun, TypeOK
  <2> QED
    BY <1>0, <2>1, <2>2, AsideStep
<1>8. ASSUME NEW id \in Actions,
             \/ PushMarker(id) \/ PushLine(id) \/ LoseReport(id) \/ Close(id) \/ Kill(id)
             \/ RecordResult(id) \/ AcceptPost(id)
      PROVE  ViewInv'
  <2>1. /\ toBegin' = toBegin /\ UNCHANGED <<hubVars, subVars>>
        /\ \A a \in Actions : stage'[a] # "none" <=> stage[a] # "none"
    BY <1>0, <1>8 DEF TypeOK, PushMarker, PushLine, LoseReport, Close, Kill, Stop, RecordResult,
       AcceptPost, clientVars
  <2>2. BegunOnes' = BegunOnes /\ \A a \in toBegin' : stage'[a] # "none"
    BY <1>0, <2>1 DEF BegunOnes, ViewHasBegun, TypeOK
  <2> QED
    BY <1>0, <2>1, <2>2, AsideStep
<1>9. CASE UNCHANGED vars
  <2>1. UNCHANGED <<hubVars, subVars, stage, toBegin>>
    BY <1>9 DEF vars, clientVars
  <2>2. BegunOnes' = BegunOnes /\ \A a \in toBegin' : stage'[a] # "none"
    BY <1>0, <2>1 DEF BegunOnes, ViewHasBegun
  <2> QED
    BY <1>0, <2>1, <2>2, AsideStep
<1> QED
  BY <1>1, <1>2, <1>3, <1>5, <1>6, <1>7, <1>8, <1>9 DEF Next

LEMMA InitView == Init => ViewInv
<1> SUFFICES ASSUME Init PROVE ViewInv
  OBVIOUS
<1>1. TypeOK /\ BaseWithinPane
  BY InitType, EmptySeq DEF Init, BaseWithinPane
<1>2. \A b \in Browsers : ~on(b) /\ Sent(b) = <<>>
  <2> SUFFICES ASSUME NEW b \in Browsers PROVE ~on(b) /\ Sent(b) = <<>>
    OBVIOUS
  <2>1. ~on(b) /\ pane[b] = <<>> /\ base[b] = 0 /\ replay[b] = <<>> /\ chan[b] = <<>>
    BY DEF Init, on
  <2>2. PICK none \in Seq(Events) : none = <<>> /\ Len(none) = 0
    <3>1. <<>> \in Seq(Events) /\ Len(<<>>) = 0
      OBVIOUS
    <3> QED
      BY <3>1
  <2>3. Parts(none, Len(none), none, <<>>) = none
    BY PartsFresh
  <2> QED
    BY <2>1, <2>2, <2>3 DEF Sent, Parts
<1>3. WatcherSeesAll
  BY <1>2 DEF WatcherSeesAll
<1>4. PagesAreOrderly
  <2>1. \A i \in 1..Len(<<>>) : FALSE
    OBVIOUS
  <2> QED
    BY <1>2, <2>1 DEF PagesAreOrderly, Orderly
<1>5. ViewHasBegun
  BY DEF Init, ViewHasBegun
<1> QED
  BY <1>1, <1>3, <1>4, <1>5, InitSink DEF ViewInv

LEMMA ViewHolds == Spec => []ViewInv
  BY InitView, ViewStep, PTL DEF Spec

\* A page that kept up was sent, after whatever it saw of earlier actions, just what
\* the running action has printed so far, in order and without a repetition,
\* whenever it subscribed (OutputHub.Subscribe, Publish).
THEOREM WatchersSeeAll == Spec => []WatcherSeesAll
<1>1. ViewInv => WatcherSeesAll
  BY DEF ViewInv
<1> QED
  BY <1>1, ViewHolds, PTL

\* On one connection nothing of an action follows its end, for any order of late
\* lines, second ends and views begun meanwhile (OutputHub.Publish, End).
THEOREM NothingFollowsAnEnd == Spec => []NothingAfterEnd
<1>1. ViewInv => NothingAfterEnd
  BY DEF ViewInv, PagesAreOrderly, Orderly, NothingAfterEnd
<1> QED
  BY <1>1, ViewHolds, PTL
=============================================================================
