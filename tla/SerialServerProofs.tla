-------------------------- MODULE SerialServerProofs --------------------------
(***************************************************************************)
(* Proofs about SerialServer, for any calls, messages and bodies.          *)
(*                                                                         *)
(* What the terminal holds of a message is an unbroken run, and what is    *)
(* still on its way goes on where that run ends (LineInv); what a writer   *)
(* has put on the line so far is the end of the line as long as it is not  *)
(* done (WriteInv).  With one pool thread at most one call is in a servant,*)
(* and what it finds in the file and in the static buffer is its own       *)
(* (InfoInv).                                                              *)
(***************************************************************************)
EXTENDS SerialServer, TLAPS, FiniteSetTheorems, SequenceTheorems, CountingLemmas

Places == {"start", "casting", "queued", "open", "read", "write", "truncate",
           "fetch", "scan", "store", "storing", "copy", "done"}
FdStates == {"none", "ok", "bad", "hup"}
Files == Bodies \cup {<<>>, TornBody}
Words == {FirstWord(b) : b \in Files} \cup {Torn}
Text == Seq(Symbols \cup {Garbage})
Replies == {NoReply, NoData, "ack"} \cup Text \cup Words

\* The variables' types, as the steps keep them.
KindInv ==
    /\ pc \in [Calls -> Places] /\ fd \in [Calls -> FdStates]
    /\ unsent \in [WriteCalls -> Seq(Symbols)]
    /\ reply \in [Calls -> Replies]
    /\ pty \in {"absent", "up", "gone"} /\ children \in SUBSET (Messages \cup {Listener})
    /\ wire \in [Messages -> Seq(Symbols)] /\ rx \in Seq(Symbols)
    /\ tx \in Seq(Symbols) /\ delivered \in Seq(Symbols)
    /\ offered \in SUBSET Messages
    /\ device \in Bodies /\ file \in Files /\ buffer \in Words
    /\ scanned \in [InfoCalls -> Files]
    /\ seen \in [InfoCalls -> SUBSET Bodies]
    /\ faults \in [curl : 0..MaxCurlFails, hangup : 0..MaxHangups,
                   change : 0..MaxDeviceChanges]

-----------------------------------------------------------------------------
(* Reading.                                                                *)

\* What is left of a message when its next symbol is the k-th.
Rest(m, k) == SubSeq(Frame(m), k, FragsPerMsg + 1)

\* Every symbol is a NUL or a fragment of a message that was sent.
FromMessages(s, sent) ==
    \A p \in 1..Len(s) : s[p] = NUL \/ s[p] \in sent \X (1..FragsPerMsg)

\* What is on the line of a message comes before its k-th symbol, and goes on
\* unbroken up to there.
Upto(s, m, k) ==
    \A i \in 1..Len(s), a \in 1..FragsPerMsg : s[i] = <<m, a>> =>
        /\ a < k
        /\ \A b \in a..FragsPerMsg : b < k => \E l \in i..Len(s) : s[l] = <<m, b>>

SentAt(m, k) == wire[m] = Rest(m, k) /\ Upto(rx, m, k)

\* The fragments a to b of a message are found from i to j.
Unbroken(s, i, j, m, a, b) ==
    a < b /\ \A k \in a..b : \E l \in i..j : s[l] = <<m, k>>

\* The text of a read is in order.
InOrder(t, sent) ==
    /\ \A i \in 1..Len(t) :
          \/ t[i] \in sent \X (1..FragsPerMsg)
          \/ t[i] = Garbage /\ i = ReadMax + 1
    /\ Ordered(t)

LineInv ==
    /\ FromMessages(rx, offered) /\ Ordered(rx)
    /\ \A m \in Messages : \E k \in 1..(FragsPerMsg + 2) : SentAt(m, k)
    /\ \A m \in Messages \ offered : wire[m] = <<>>
    /\ \A c \in ReadCalls : ReadText(c) \in Text /\ InOrder(ReadText(c), offered)

-----------------------------------------------------------------------------
(* Writing.                                                                *)

\* The line ends with what the call has put.
EndsWith(s, c, k) ==
    /\ k - 1 <= Len(s)
    /\ \A i \in 1..(k - 1) : s[(Len(s) - (k - 1)) + i] = Frame(c)[i]

WriterAt(c, k) ==
    /\ unsent[c] = Rest(c, k)
    /\ pc[c] = "write" =>
          /\ k <= FragsPerMsg + 1
          /\ faults.hangup = 0 /\ fd[c] = "ok" => EndsWith(delivered \o tx, c, k)

WriteInv ==
    /\ Len(tx) <= TxCap
    /\ \A c \in WriteCalls :
          /\ \E k \in 1..(FragsPerMsg + 2) : WriterAt(c, k)
          /\ reply[c] \in {NoReply, "ack"}
          /\ pc[c] # "done" => reply[c] = NoReply
          /\ faults.hangup = 0 /\ pc[c] = "done" /\ fd[c] = "ok" =>
                Contains(delivered \o tx, Frame(c))

IInv == KindInv /\ LineInv /\ WriteInv

-----------------------------------------------------------------------------
(* Device info, with one pool thread.                                      *)

Busy == {c \in Calls : InServant(c)}

OneInServant == \A c, d \in Calls : InServant(c) /\ InServant(d) => c = d

InfoAt(c) ==
    /\ InServant(c) => device \in seen[c]
    /\ pc[c] = "fetch" => file = <<>>
    /\ pc[c] = "scan" => file \in seen[c]
    /\ pc[c] \in {"store", "storing"} => scanned[c] \in seen[c]
    /\ pc[c] = "copy" /\ <<>> \notin seen[c] => buffer \in {FirstWord(b) : b \in seen[c]}
    /\ pc[c] = "done" /\ <<>> \notin seen[c] => reply[c] \in {FirstWord(b) : b \in seen[c]}

InfoInv ==
    /\ IsFiniteSet(Busy) /\ OneInServant
    /\ faults.curl = 0 => \A c \in InfoCalls : InfoAt(c)

-----------------------------------------------------------------------------
(* Messages and what a read makes of them.                                 *)

\* A message and its NUL.
LEMMA FrameSeq ==
    ASSUME NEW m \in Messages \cup WriteCalls
    PROVE  /\ Frame(m) \in Seq(Symbols) /\ Len(Frame(m)) = FragsPerMsg + 1
           /\ \A i \in 1..FragsPerMsg : Frame(m)[i] = <<m, i>>
           /\ Frame(m)[FragsPerMsg + 1] = NUL
<1>1. FragsPerMsg \in Nat \ {0}
  BY ConfigAssumption
<1>2. ASSUME NEW i \in 1..(FragsPerMsg + 1), i <= FragsPerMsg
      PROVE  <<m, i>> \in Fragments
  <2>1. i \in 1..FragsPerMsg
    BY <1>1, <1>2
  <2>2. QED
    BY <2>1 DEF Fragments
<1>3. Frame(m) \in [1..(FragsPerMsg + 1) -> Symbols]
  BY <1>1, <1>2 DEF Frame, Symbols
<1>4. Frame(m) \in Seq(Symbols) /\ Len(Frame(m)) = FragsPerMsg + 1
  <2>1. PICK f \in [1..(FragsPerMsg + 1) -> Symbols] : f = Frame(m)
    BY <1>3
  <2>2. f \in Seq(Symbols) /\ Len(f) = FragsPerMsg + 1
    BY <1>1
  <2>3. QED
    BY <2>1, <2>2
<1>5. QED
  BY <1>1, <1>4 DEF Frame

\* The least of two.
LEMMA MinOfTwo ==
    ASSUME NEW a \in Nat, NEW b \in Nat
    PROVE  Min({a, b}) = IF a <= b THEN a ELSE b
<1> DEFINE m == IF a <= b THEN a ELSE b
<1>1. m \in {a, b} /\ \A y \in {a, b} : m <= y
  OBVIOUS
<1>2. ASSUME NEW x \in {a, b}, \A y \in {a, b} : x <= y
      PROVE  x = m
  BY <1>2
<1>3. QED
  BY <1>1, <1>2 DEF Min

\* CString stops at the first NUL.
LEMMA CStringCut ==
    ASSUME NEW S, NEW s \in Seq(S)
    PROVE  \E l \in 0..Len(s) :
              /\ CString(s) = SubSeq(s, 1, l) /\ \A i \in 1..l : s[i] # NUL
<1> DEFINE nuls == {i \in 1..Len(s) : s[i] = NUL}
<1>1. Len(s) \in Nat
  OBVIOUS
<1>2. CASE nuls = {}
  <2>1. CString(s) = SubSeq(s, 1, Len(s))
    BY <1>2, SubSeqFull DEF CString
  <2>2. \A i \in 1..Len(s) : s[i] # NUL
    BY <1>2
  <2>3. Len(s) \in 0..Len(s)
    BY <1>1
  <2>4. QED
    BY <2>1, <2>2, <2>3
<1>3. CASE nuls # {}
  <2>1. nuls \in SUBSET Nat
    BY <1>1
  <2>2. \E n \in nuls : \A m \in nuls : n <= m
    BY <1>3, <2>1, LeastNatural
  <2>3. Min(nuls) \in nuls /\ \A m \in nuls : Min(nuls) <= m
    BY <2>2 DEF Min
  <2>4. PICK n \in 1..Len(s) : n = Min(nuls) /\ \A m \in nuls : n <= m
    BY <2>3
  <2>5. CString(s) = SubSeq(s, 1, n - 1)
    BY <1>3, <2>4 DEF CString
  <2>6. n - 1 \in 0..Len(s)
    BY <1>1
  <2>7. ASSUME NEW i \in 1..(n - 1) PROVE s[i] # NUL
    <3>1. i \in 1..Len(s) /\ ~ (n <= i)
      BY <1>1
    <3>2. QED
      BY <2>4, <3>1
  <2>8. QED
    BY <2>5, <2>6, <2>7
<1>4. QED
  BY <1>2, <1>3

\* What a read returns: data from the front, before the first NUL, and
\* garbage at most behind data that fills read_buf.
LEMMA ReadResult ==
    ASSUME NEW S, NEW s \in Seq(S), NEW v \in ReadResults(s)
    PROVE  \E l \in 0..Len(s) :
              /\ \A i \in 1..l : s[i] # NUL
              /\ \/ v = SubSeq(s, 1, l)
                 \/ l = ReadMax /\ v = Append(SubSeq(s, 1, l), Garbage)
<1>1. PICK l \in 0..Len(s) :
          CString(s) = SubSeq(s, 1, l) /\ \A i \in 1..l : s[i] # NUL
  BY CStringCut
<1>2. CASE Len(s) = ReadMax /\ CString(s) = s
  <2>1. Len(s) \in Nat /\ l \in Nat /\ l <= Len(s)
    OBVIOUS
  <2>2. Len(SubSeq(s, 1, l)) = l
    BY <2>1
  <2>3. l = ReadMax
    BY <1>1, <1>2, <2>2
  <2>4. QED
    BY <1>1, <1>2, <2>3 DEF ReadResults
<1>3. CASE ~ (Len(s) = ReadMax /\ CString(s) = s)
  BY <1>1, <1>3 DEF ReadResults
<1>4. QED
  BY <1>2, <1>3

\* Its elements, by position.
LEMMA ReadElements ==
    ASSUME NEW s \in Seq(Symbols), NEW l \in 0..Len(s),
           NEW v \in {SubSeq(s, 1, l), Append(SubSeq(s, 1, l), Garbage)}
    PROVE  /\ v \in Seq(Symbols \cup {Garbage})
           /\ \A i \in 1..Len(v) : \/ i \in 1..l /\ v[i] = s[i]
                                   \/ i = l + 1 /\ v[i] = Garbage
           /\ v = SubSeq(s, 1, l) => \A i \in 1..Len(v) : i \in 1..l /\ v[i] = s[i]
<1> DEFINE T == Symbols \cup {Garbage}
<1>1. Len(s) \in Nat /\ l \in Nat /\ l <= Len(s)
  OBVIOUS
<1>2. s \in Seq(T)
  <2>1. Symbols \subseteq T
    OBVIOUS
  <2>2. QED
    BY <2>1, SeqMonotonic, Zenon
<1>3. SubSeq(s, 1, l) \in Seq(T)
  BY <1>1, <1>2
<1>4. PICK t \in Seq(T) : t = SubSeq(s, 1, l)
  BY <1>3
<1>5. Len(t) = l /\ \A j \in 1..l : t[j] = s[j]
  BY <1>1, <1>2, <1>4
<1>6. CASE v = t
  BY <1>5, <1>6
<1>7. CASE v = Append(t, Garbage) /\ v # t
  <2>1. Garbage \in T
    OBVIOUS
  <2>2. /\ v \in Seq(T) /\ Len(v) = l + 1 /\ v[l + 1] = Garbage
        /\ \A i \in 1..l : v[i] = t[i]
    <3>1. /\ Append(t, Garbage) \in Seq(T) /\ Len(Append(t, Garbage)) = Len(t) + 1
          /\ \A i \in 1..Len(t) : Append(t, Garbage)[i] = t[i]
          /\ Append(t, Garbage)[Len(t) + 1] = Garbage
      BY <2>1, AppendProperties
    <3>2. QED
      BY <1>5, <1>7, <3>1
  <2>3. ASSUME NEW i \in 1..Len(v), i # l + 1 PROVE i \in 1..l
    BY <1>1, <2>2, <2>3
  <2>4. QED
    BY <1>5, <2>2, <2>3
<1>8. QED
  BY <1>4, <1>6, <1>7, Zenon

\* A sequence that is found in another, element by element.
LEMMA ContainsByElements ==
    ASSUME NEW S, NEW s \in Seq(S), NEW t \in Seq(S), NEW p \in 0..(Len(s) - Len(t)),
           \A j \in 1..Len(t) : s[p + j] = t[j]
    PROVE  Contains(s, t)
<1>1. Len(s) \in Nat /\ Len(t) \in Nat
  OBVIOUS
<1>2. \A i \in (p + 1)..(p + Len(t)) : s[i] \in S
  <2>1. ASSUME NEW i \in (p + 1)..(p + Len(t)) PROVE i \in 1..Len(s)
    BY <1>1
  <2>2. QED
    BY <2>1, ElementOfSeq
<1>3. PICK u : u = SubSeq(s, p + 1, p + Len(t))
  OBVIOUS
<1>4. /\ u \in Seq(S) /\ Len(u) = Len(t)
      /\ \A j \in 1..Len(t) : u[j] = s[p + j]
  <2>1. /\ u \in Seq(S)
        /\ Len(u) = IF p + 1 <= p + Len(t) THEN (p + Len(t)) - (p + 1) + 1 ELSE 0
        /\ \A i \in 1..((p + Len(t)) - (p + 1) + 1) : u[i] = s[(p + 1) + i - 1]
    BY <1>1, <1>2, <1>3, SubSeqProperties
  <2>2. QED
    BY <1>1, <2>1
<1>5. u = t
  BY <1>4, SeqEqual
<1>6. QED
  BY <1>3, <1>5 DEF Contains

\* Nothing that is not a fragment is taken for one.
LEMMA MarkersApart ==
    ASSUME NEW m \in Messages, NEW a \in 1..FragsPerMsg
    PROVE  <<m, a>> # NUL /\ <<m, a>> # Garbage
<1>1. <<m, a>> \in Fragments
  BY DEF Fragments
<1>2. QED
  BY <1>1, MarkersAssumption

-----------------------------------------------------------------------------
(* What happens to the line.                                               *)

LEMMA OrderedIntro ==
    ASSUME NEW t,
           \A i, j \in 1..Len(t) : \A m \in Messages : \A a, b \in 1..FragsPerMsg :
               i < j /\ t[i] = <<m, a>> /\ t[j] = <<m, b>> => Unbroken(t, i, j, m, a, b)
    PROVE  Ordered(t)
BY Zenon DEF Ordered, Unbroken

LEMMA OrderedElim ==
    ASSUME NEW t, Ordered(t), NEW i \in 1..Len(t), NEW j \in 1..Len(t),
           NEW m \in Messages, NEW a \in 1..FragsPerMsg, NEW b \in 1..FragsPerMsg,
           i < j, t[i] = <<m, a>>, t[j] = <<m, b>>
    PROVE  Unbroken(t, i, j, m, a, b)
BY Zenon DEF Ordered, Unbroken

\* A read that takes the front of the line leaves the rest as it was.
LEMMA LineBack ==
    ASSUME NEW s \in Seq(Symbols), NEW t \in Seq(Symbols), NEW n \in Nat,
           n <= Len(s), Len(t) = Len(s) - n, \A i \in 1..Len(t) : t[i] = s[n + i],
           NEW sent, FromMessages(s, sent), Ordered(s)
    PROVE  /\ FromMessages(t, sent) /\ Ordered(t)
           /\ \A m \in Messages, k \in 1..(FragsPerMsg + 2) : Upto(s, m, k) => Upto(t, m, k)
<1>1. FragsPerMsg \in Nat /\ Len(s) \in Nat /\ Len(t) \in Nat
  BY ConfigAssumption
<1>2. \A i \in 1..Len(t) : n + i \in 1..Len(s)
  BY <1>1
<1>3. FromMessages(t, sent)
  BY <1>2 DEF FromMessages
<1>4. Ordered(t)
  <2>1. SUFFICES ASSUME NEW i \in 1..Len(t), NEW j \in 1..Len(t), NEW m \in Messages,
                        NEW a \in 1..FragsPerMsg, NEW b \in 1..FragsPerMsg,
                        i < j, t[i] = <<m, a>>, t[j] = <<m, b>>
                 PROVE  Unbroken(t, i, j, m, a, b)
    BY OrderedIntro
  <2>p. PICK p \in 1..Len(s), q \in 1..Len(s) : p = n + i /\ q = n + j
    BY <1>2
  <2>2. p < q /\ s[p] = <<m, a>> /\ s[q] = <<m, b>>
    <3>1. p < q
      BY <1>1, <2>1, <2>p
    <3>2. s[p] = t[i] /\ s[q] = t[j]
      BY <2>p
    <3>3. QED
      BY <2>1, <3>1, <3>2
  <2>3. a < b /\ \A k \in a..b : \E l \in p..q : s[l] = <<m, k>>
    <3>1. Unbroken(s, p, q, m, a, b)
      BY <2>2, OrderedElim
    <3>2. QED
      BY <3>1 DEF Unbroken
  <2>4. ASSUME NEW k \in a..b PROVE \E l \in i..j : t[l] = <<m, k>>
    <3>1. PICK l \in p..q : s[l] = <<m, k>>
      BY <2>3
    <3>2. l - n \in i..j /\ l - n \in 1..Len(t) /\ n + (l - n) = l
      BY <1>1, <2>p
    <3>3. QED
      BY <3>1, <3>2
  <2>5. QED
    BY <2>3, <2>4 DEF Unbroken
<1>5. ASSUME NEW m \in Messages, NEW k \in 1..(FragsPerMsg + 2), Upto(s, m, k)
      PROVE  Upto(t, m, k)
  <2>1. SUFFICES ASSUME NEW i \in 1..Len(t), NEW a \in 1..FragsPerMsg, t[i] = <<m, a>>
                 PROVE  /\ a < k
                        /\ \A b \in a..FragsPerMsg :
                              b < k => \E l \in i..Len(t) : t[l] = <<m, b>>
    BY DEF Upto
  <2>2. /\ a < k
        /\ \A b \in a..FragsPerMsg : b < k => \E l \in (n + i)..Len(s) : s[l] = <<m, b>>
    BY <1>2, <1>5, <2>1 DEF Upto
  <2>3. ASSUME NEW b \in a..FragsPerMsg, b < k
        PROVE  \E l \in i..Len(t) : t[l] = <<m, b>>
    <3>1. PICK l \in (n + i)..Len(s) : s[l] = <<m, b>>
      BY <2>2, <2>3
    <3>2. l - n \in i..Len(t) /\ l - n \in 1..Len(t) /\ n + (l - n) = l
      BY <1>1
    <3>3. QED
      BY <3>1, <3>2
  <2>4. QED
    BY <2>2, <2>3
<1>6. QED
  BY <1>3, <1>4, <1>5

\* The text of a read: a front of the line without a NUL, and garbage at most
\* behind as many symbols as fit in read_buf.
LEMMA LineFront ==
    ASSUME NEW s \in Seq(Symbols), NEW l \in 0..Len(s), NEW v \in Text,
           NEW sent \in SUBSET Messages, FromMessages(s, sent), Ordered(s),
           \A i \in 1..l : s[i] # NUL,
           \A i \in 1..Len(v) : \/ i \in 1..l /\ v[i] = s[i]
                                \/ i = l + 1 /\ l = ReadMax /\ v[i] = Garbage
    PROVE  InOrder(v, sent)
<1>1. /\ FragsPerMsg \in Nat /\ Len(s) \in Nat /\ Len(v) \in Nat /\ l \in Nat
      /\ l <= Len(s)
  BY ConfigAssumption DEF Text
<1>2. ASSUME NEW i \in 1..Len(v)
      PROVE  v[i] \in sent \X (1..FragsPerMsg) \/ (v[i] = Garbage /\ i = ReadMax + 1)
  <2>1. CASE i \in 1..l /\ v[i] = s[i]
    <3>1. i \in 1..Len(s) /\ s[i] # NUL
      BY <1>1, <2>1
    <3>2. QED
      BY <2>1, <3>1 DEF FromMessages
  <2>2. CASE i = l + 1 /\ l = ReadMax /\ v[i] = Garbage
    BY <2>2
  <2>3. QED
    BY <2>1, <2>2
<1>3. ASSUME NEW i \in 1..Len(v), NEW m \in Messages, NEW a \in 1..FragsPerMsg,
             v[i] = <<m, a>>
      PROVE  i \in 1..l /\ s[i] = <<m, a>>
  BY <1>3, MarkersApart
<1>4. Ordered(v)
  <2>1. SUFFICES ASSUME NEW i \in 1..Len(v), NEW j \in 1..Len(v), NEW m \in Messages,
                        NEW a \in 1..FragsPerMsg, NEW b \in 1..FragsPerMsg,
                        i < j, v[i] = <<m, a>>, v[j] = <<m, b>>
                 PROVE  Unbroken(v, i, j, m, a, b)
    BY OrderedIntro
  <2>2. /\ i \in 1..l /\ j \in 1..l /\ s[i] = <<m, a>> /\ s[j] = <<m, b>>
    BY <1>3, <2>1
  <2>3. i \in 1..Len(s) /\ j \in 1..Len(s)
    BY <1>1, <2>2
  <2>4. a < b /\ \A k \in a..b : \E h \in i..j : s[h] = <<m, k>>
    <3>1. Unbroken(s, i, j, m, a, b)
      BY <2>1, <2>2, <2>3, OrderedElim
    <3>2. QED
      BY <3>1 DEF Unbroken
  <2>5. ASSUME NEW h \in i..j PROVE v[h] = s[h]
    <3>1. h \in 1..Len(v) /\ h # l + 1
      BY <1>1, <2>2
    <3>2. QED
      BY <3>1
  <2>6. QED
    BY <2>4, <2>5 DEF Unbroken
<1>5. QED
  BY <1>2, <1>4 DEF InOrder

\* A part of n symbols of a message, from the k-th, behind what is on the line.
Extends(s, t, m, k, n) ==
    /\ Len(t) = Len(s) + n /\ \A i \in 1..Len(s) : t[i] = s[i]
    /\ \A i \in 1..n : t[Len(s) + i] = Frame(m)[(k + i) - 1]

\* Its fragments are found where they were put, and nothing else is.
Found(s, t, m, k, n) ==
    /\ \A i \in 1..Len(t), x \in Messages, a \in 1..FragsPerMsg :
          t[i] = <<x, a>> =>
             \/ i \in 1..Len(s) /\ s[i] = <<x, a>>
             \/ i > Len(s) /\ x = m /\ a + Len(s) + 1 = k + i
    /\ \A q \in k..FragsPerMsg : q < k + n =>
          \E l \in (Len(s) + 1)..Len(t) : l + k = Len(s) + q + 1 /\ t[l] = <<m, q>>

LEMMA LinePiece ==
    ASSUME NEW s \in Seq(Symbols), NEW t \in Seq(Symbols), NEW m \in Messages,
           NEW k \in 1..(FragsPerMsg + 2), NEW n \in 0..((FragsPerMsg + 2) - k),
           Extends(s, t, m, k, n)
    PROVE  Found(s, t, m, k, n)
<1>1. FragsPerMsg \in Nat /\ Len(s) \in Nat /\ Len(t) \in Nat /\ k \in Nat /\ n \in Nat
  BY ConfigAssumption
<1>e. /\ Len(t) = Len(s) + n /\ \A i \in 1..Len(s) : t[i] = s[i]
      /\ \A i \in 1..n : t[Len(s) + i] = Frame(m)[(k + i) - 1]
  BY DEF Extends
<1>2. /\ \A i \in 1..FragsPerMsg : Frame(m)[i] = <<m, i>>
      /\ Frame(m)[FragsPerMsg + 1] = NUL
  BY FrameSeq
<1>3. ASSUME NEW i \in 1..Len(t), NEW x \in Messages, NEW a \in 1..FragsPerMsg,
             t[i] = <<x, a>>, ~ (i \in 1..Len(s) /\ s[i] = <<x, a>>)
      PROVE  i > Len(s) /\ x = m /\ a + Len(s) + 1 = k + i
  <2>1. i > Len(s)
    BY <1>1, <1>e, <1>3
  <2>2. PICK j \in 1..n : j = i - Len(s)
    <3>1. Len(t) = Len(s) + n
      BY <1>e
    <3>2. i - Len(s) \in 1..n
      BY <1>1, <2>1, <3>1
    <3>3. QED
      BY <3>2
  <2>3. t[i] = Frame(m)[(k + j) - 1]
    <3>1. Len(s) + j = i
      BY <1>1, <1>e, <2>2
    <3>2. QED
      BY <1>e, <3>1
  <2>4. PICK p \in 1..(FragsPerMsg + 1) : p = (k + j) - 1
    BY <1>1, <1>e
  <2>5. p # FragsPerMsg + 1
    BY <1>2, <1>3, <2>3, <2>4, MarkersApart
  <2>6. p \in 1..FragsPerMsg
    BY <1>1, <1>e, <2>5
  <2>7. <<x, a>> = <<m, p>>
    BY <1>2, <1>3, <2>3, <2>4, <2>6
  <2>8. x = m /\ a = p
    BY <2>7
  <2>9. a + Len(s) + 1 = k + i
    BY <1>1, <1>e, <2>2, <2>4, <2>8
  <2>10. QED
    BY <2>1, <2>8, <2>9
<1>4. ASSUME NEW q \in k..FragsPerMsg, q < k + n
      PROVE  \E l \in (Len(s) + 1)..Len(t) : l + k = Len(s) + q + 1 /\ t[l] = <<m, q>>
  <2>1. PICK j \in 1..n : j = (q - k) + 1
    BY <1>1, <1>e, <1>4
  <2>2. /\ (Len(s) + j) + k = Len(s) + q + 1 /\ (k + j) - 1 = q /\ q \in 1..FragsPerMsg
        /\ Len(s) + j \in (Len(s) + 1)..Len(t)
    BY <1>1, <1>e, <2>1
  <2>3. t[Len(s) + j] = <<m, q>>
    BY <1>2, <1>e, <2>2
  <2>4. QED
    BY <2>2, <2>3
<1>5. QED
  BY <1>3, <1>4 DEF Found

LEMMA LineForward ==
    ASSUME NEW s \in Seq(Symbols), NEW t \in Seq(Symbols), NEW m \in Messages,
           NEW k \in 1..(FragsPerMsg + 2), NEW n \in 0..((FragsPerMsg + 2) - k),
           Extends(s, t, m, k, n), Ordered(s), Upto(s, m, k)
    PROVE  /\ Ordered(t) /\ Upto(t, m, k + n)
           /\ \A x \in Messages \ {m}, h \in 1..(FragsPerMsg + 2) :
                 Upto(s, x, h) => Upto(t, x, h)
<1>1. /\ FragsPerMsg \in Nat /\ Len(s) \in Nat /\ Len(t) \in Nat /\ k \in Nat
      /\ n \in Nat /\ Len(s) <= Len(t)
  BY ConfigAssumption DEF Extends
<1>e. Len(t) = Len(s) + n /\ \A i \in 1..Len(s) : t[i] = s[i]
  BY DEF Extends
<1>p. Found(s, t, m, k, n)
  BY LinePiece
<1>2. ASSUME NEW i \in 1..Len(t), NEW x \in Messages, NEW a \in 1..FragsPerMsg,
             t[i] = <<x, a>>
      PROVE  \/ i \in 1..Len(s) /\ s[i] = <<x, a>>
             \/ i > Len(s) /\ x = m /\ a + Len(s) + 1 = k + i
  BY <1>p, <1>2 DEF Found
<1>3. ASSUME NEW q \in k..FragsPerMsg, q < k + n
      PROVE  \E l \in (Len(s) + 1)..Len(t) : l + k = Len(s) + q + 1 /\ t[l] = <<m, q>>
  BY <1>p, <1>3 DEF Found
<1>4. Upto(t, m, k + n)
  <2>1. SUFFICES ASSUME NEW i \in 1..Len(t), NEW a \in 1..FragsPerMsg, t[i] = <<m, a>>
                 PROVE  /\ a < k + n
                        /\ \A b \in a..FragsPerMsg :
                              b < k + n => \E l \in i..Len(t) : t[l] = <<m, b>>
    BY DEF Upto
  <2>2. CASE i \in 1..Len(s) /\ s[i] = <<m, a>>
    <3>1. /\ a < k
          /\ \A b \in a..FragsPerMsg : b < k => \E l \in i..Len(s) : s[l] = <<m, b>>
      BY <2>2 DEF Upto
    <3>2. ASSUME NEW b \in a..FragsPerMsg, b < k + n
          PROVE  \E l \in i..Len(t) : t[l] = <<m, b>>
      <4>1. CASE b < k
        <5>1. PICK l \in i..Len(s) : s[l] = <<m, b>>
          BY <3>1, <4>1
        <5>2. l \in i..Len(t) /\ l \in 1..Len(s)
          BY <1>1, <1>e, <2>2
        <5>3. QED
          BY <1>e, <5>1, <5>2
      <4>2. CASE ~ (b < k)
        <5>1. b \in k..FragsPerMsg
          BY <1>1, <1>e, <4>2
        <5>2. PICK l \in (Len(s) + 1)..Len(t) : t[l] = <<m, b>>
          BY <1>3, <3>2, <5>1
        <5>3. l \in i..Len(t)
          BY <1>1, <1>e, <2>2
        <5>4. QED
          BY <5>2, <5>3
      <4>3. QED
        BY <4>1, <4>2
    <3>3. a < k + n
      BY <1>1, <1>e, <3>1
    <3>4. QED
      BY <3>2, <3>3
  <2>3. CASE i > Len(s) /\ a + Len(s) + 1 = k + i
    <3>1. a < k + n
      BY <1>1, <1>e, <2>3
    <3>2. ASSUME NEW b \in a..FragsPerMsg, b < k + n
          PROVE  \E l \in i..Len(t) : t[l] = <<m, b>>
      <4>1. b \in k..FragsPerMsg
        BY <1>1, <1>e, <2>3
      <4>2. PICK l \in (Len(s) + 1)..Len(t) : l + k = Len(s) + b + 1 /\ t[l] = <<m, b>>
        BY <1>3, <3>2, <4>1
      <4>3. l \in i..Len(t)
        BY <1>1, <1>e, <2>3, <4>2
      <4>4. QED
        BY <4>2, <4>3
    <3>3. QED
      BY <3>1, <3>2
  <2>4. QED
    BY <1>2, <2>1, <2>2, <2>3
<1>5. ASSUME NEW x \in Messages \ {m}, NEW h \in 1..(FragsPerMsg + 2), Upto(s, x, h)
      PROVE  Upto(t, x, h)
  <2>1. SUFFICES ASSUME NEW i \in 1..Len(t), NEW a \in 1..FragsPerMsg, t[i] = <<x, a>>
                 PROVE  /\ a < h
                        /\ \A b \in a..FragsPerMsg :
                              b < h => \E l \in i..Len(t) : t[l] = <<x, b>>
    BY DEF Upto
  <2>2. i \in 1..Len(s) /\ s[i] = <<x, a>>
    BY <1>2, <2>1
  <2>3. /\ a < h
        /\ \A b \in a..FragsPerMsg : b < h => \E l \in i..Len(s) : s[l] = <<x, b>>
    BY <1>5, <2>2 DEF Upto
  <2>4. \A l \in i..Len(s) : l \in i..Len(t) /\ t[l] = s[l]
    BY <1>1, <1>e, <2>2
  <2>5. QED
    BY <2>3, <2>4
<1>6. Ordered(t)
  <2>1. SUFFICES ASSUME NEW i \in 1..Len(t), NEW j \in 1..Len(t), NEW x \in Messages,
                        NEW a \in 1..FragsPerMsg, NEW b \in 1..FragsPerMsg,
                        i < j, t[i] = <<x, a>>, t[j] = <<x, b>>
                 PROVE  Unbroken(t, i, j, x, a, b)
    BY OrderedIntro
  <2>2. CASE j \in 1..Len(s) /\ s[j] = <<x, b>>
    <3>1. i \in 1..Len(s) /\ s[i] = <<x, a>>
      BY <1>1, <1>e, <2>1, <2>2
    <3>2. Unbroken(s, i, j, x, a, b)
      BY <2>1, <2>2, <3>1, OrderedElim
    <3>3. \A l \in i..j : t[l] = s[l]
      BY <1>1, <1>e, <2>2, <3>1
    <3>4. QED
      BY <3>2, <3>3 DEF Unbroken
  <2>3. CASE j > Len(s) /\ x = m /\ b + Len(s) + 1 = k + j
    <3>1. b >= k /\ b < k + n
      BY <1>1, <1>e, <2>3
    <3>2. ASSUME NEW q \in k..b
          PROVE  \E l \in (Len(s) + 1)..j : l + k = Len(s) + q + 1 /\ t[l] = <<m, q>>
      <4>1. q \in k..FragsPerMsg /\ q < k + n
        BY <1>1, <1>e, <3>1
      <4>2. PICK l \in (Len(s) + 1)..Len(t) : l + k = Len(s) + q + 1 /\ t[l] = <<m, q>>
        BY <1>3, <4>1
      <4>3. l \in (Len(s) + 1)..j
        BY <1>1, <1>e, <2>3, <4>2
      <4>4. QED
        BY <4>2, <4>3
    <3>3. CASE i \in 1..Len(s) /\ s[i] = <<m, a>>
      <4>1. /\ a < k
            /\ \A q \in a..FragsPerMsg : q < k => \E l \in i..Len(s) : s[l] = <<m, q>>
        BY <3>3 DEF Upto
      <4>2. ASSUME NEW q \in a..b PROVE \E l \in i..j : t[l] = <<m, q>>
        <5>1. CASE q < k
          <6>1. q \in a..FragsPerMsg
            BY <1>1, <1>e
          <6>2. PICK l \in i..Len(s) : s[l] = <<m, q>>
            BY <4>1, <5>1, <6>1
          <6>3. l \in i..j /\ l \in 1..Len(s)
            BY <1>1, <1>e, <2>3, <3>3
          <6>4. QED
            BY <1>e, <6>2, <6>3
        <5>2. CASE ~ (q < k)
          <6>1. q \in k..b
            BY <1>1, <1>e, <5>2
          <6>2. PICK l \in (Len(s) + 1)..j : t[l] = <<m, q>>
            BY <3>2, <6>1
          <6>3. l \in i..j
            BY <1>1, <1>e, <3>3
          <6>4. QED
            BY <6>2, <6>3
        <5>3. QED
          BY <5>1, <5>2
      <4>3. a < b
        BY <1>1, <1>e, <3>1, <4>1
      <4>4. QED
        BY <2>3, <4>2, <4>3 DEF Unbroken
    <3>4. CASE i > Len(s) /\ a + Len(s) + 1 = k + i
      <4>1. a < b /\ a >= k
        BY <1>1, <1>e, <2>1, <2>3, <3>4
      <4>2. ASSUME NEW q \in a..b PROVE \E l \in i..j : t[l] = <<m, q>>
        <5>1. q \in k..b
          BY <1>1, <1>e, <4>1
        <5>2. PICK l \in (Len(s) + 1)..j : l + k = Len(s) + q + 1 /\ t[l] = <<m, q>>
          BY <3>2, <5>1
        <5>3. l \in i..j
          BY <1>1, <1>e, <3>4, <5>2
        <5>4. QED
          BY <5>2, <5>3
      <4>3. QED
        BY <2>3, <4>1, <4>2 DEF Unbroken
    <3>5. QED
      BY <1>2, <2>1, <2>3, <3>3, <3>4
  <2>4. QED
    BY <1>2, <2>1, <2>2, <2>3
<1>7. QED
  BY <1>4, <1>5, <1>6

-----------------------------------------------------------------------------
(* Steps that leave the serial line, or the writers, alone.                *)

LEMMA LineFrame ==
    ASSUME LineInv, UNCHANGED <<rx, wire, offered>>,
           \A c \in ReadCalls : reply'[c] = reply[c]
    PROVE  LineInv'
<1>1. \A c \in ReadCalls : ReadText(c)' = ReadText(c)
  BY DEF ReadText
<1>2. FromMessages(rx, offered)' /\ Ordered(rx)'
  BY DEF LineInv
<1>3. \A m \in Messages : \E k \in 1..(FragsPerMsg + 2) : SentAt(m, k)'
  BY DEF LineInv, SentAt
<1>4. \A c \in ReadCalls : (ReadText(c) \in Text)' /\ InOrder(ReadText(c), offered)'
  BY <1>1 DEF LineInv
<1>5. QED
  BY <1>2, <1>3, <1>4 DEF LineInv

LEMMA WriteSame ==
    ASSUME WriteInv, delivered' \o tx' = delivered \o tx, Len(tx') <= TxCap,
           faults'.hangup = faults.hangup,
           \A c \in WriteCalls :
              /\ unsent'[c] = unsent[c] /\ reply'[c] = reply[c]
              /\ \/ pc'[c] = pc[c] /\ fd'[c] = fd[c]
                 \/ pc[c] # "done" /\ pc'[c] \notin {"write", "done"}
    PROVE  WriteInv'
<1>1. ASSUME NEW c \in WriteCalls
      PROVE  \E k \in 1..(FragsPerMsg + 2) : WriterAt(c, k)'
  <2>1. PICK k \in 1..(FragsPerMsg + 2) : WriterAt(c, k)
    BY DEF WriteInv
  <2>2. WriterAt(c, k)'
    BY <2>1 DEF WriterAt
  <2>3. QED
    BY <2>2
<1>2. QED
  BY <1>1 DEF WriteInv

LEMMA WriteFrame ==
    ASSUME WriteInv, UNCHANGED <<tx, delivered>>, faults'.hangup = faults.hangup,
           \A c \in WriteCalls :
              /\ unsent'[c] = unsent[c] /\ reply'[c] = reply[c]
              /\ \/ pc'[c] = pc[c] /\ fd'[c] = fd[c]
                 \/ pc[c] # "done" /\ pc'[c] \notin {"write", "done"}
    PROVE  WriteInv'
<1>1. delivered' \o tx' = delivered \o tx /\ Len(tx') <= TxCap
  BY DEF WriteInv
<1>2. QED
  BY <1>1, WriteSame

\* A call goes to a place of its servant, or returns.
LEMMA GotoKind ==
    ASSUME KindInv, NEW c \in Calls, NEW l \in Places, Goto(c, l)
    PROVE  pc' \in [Calls -> Places] /\ pc'[c] = l /\ \A d \in Calls \ {c} : pc'[d] = pc[d]
BY DEF KindInv, Goto

LEMMA ReturnKind ==
    ASSUME KindInv, NEW c \in Calls, NEW v \in Replies, Return(c, v)
    PROVE  /\ pc' \in [Calls -> Places] /\ reply' \in [Calls -> Replies]
           /\ pc'[c] = "done" /\ reply'[c] = v
           /\ \A d \in Calls \ {c} : pc'[d] = pc[d] /\ reply'[d] = reply[d]
<1>1. Goto(c, "done") /\ reply' = [reply EXCEPT ![c] = v]
  BY DEF Return
<1>2. "done" \in Places
  BY DEF Places
<1>3. reply \in [Calls -> Replies]
  BY DEF KindInv
<1>4. reply' \in [Calls -> Replies] /\ reply'[c] = v /\ \A d \in Calls \ {c} : reply'[d] = reply[d]
  BY <1>1, <1>3
<1>5. QED
  BY <1>1, <1>2, <1>4, GotoKind

-----------------------------------------------------------------------------
(* Clients and dispatch.                                                   *)

LEMMA CastKeeps ==
    ASSUME IInv, NEW c \in Calls, ClientCast(c) \/ DispatchIsA(c)
    PROVE  IInv'
<1>1. PICK l \in {"casting", "queued"} :
         /\ Goto(c, l) /\ pc[c] \in {"start", "casting"}
         /\ UNCHANGED <<fd, unsent, reply, serial, driver, faults>>
  BY DEF ClientCast, DispatchIsA
<1>2. /\ pc' \in [Calls -> Places] /\ pc'[c] = l
      /\ \A d \in Calls \ {c} : pc'[d] = pc[d]
  BY <1>1, GotoKind DEF IInv, Places
<1>3. KindInv'
  BY <1>1, <1>2 DEF IInv, KindInv, serial, driver
<1>4. LineInv'
  BY <1>1, LineFrame DEF IInv, serial
<1>5. WriteInv'
  <2>1. \A d \in WriteCalls : pc'[d] = pc[d] \/ (pc[d] # "done" /\ pc'[d] \notin {"write", "done"})
    BY <1>1, <1>2 DEF Calls
  <2>2. QED
    BY <1>1, <2>1, WriteFrame DEF IInv, serial
<1>6. QED
  BY <1>3, <1>4, <1>5 DEF IInv

LEMMA DispatchCallKeeps ==
    ASSUME IInv, NEW c \in Calls, DispatchCall(c)
    PROVE  IInv'
<1>1. PICK l \in {"truncate", "open"} : Goto(c, l)
  BY DEF DispatchCall
<1>2. /\ pc[c] = "queued"
      /\ UNCHANGED <<fd, unsent, reply, serial, device, file, buffer, scanned, faults>>
  BY DEF DispatchCall
<1>3. /\ pc' \in [Calls -> Places] /\ pc'[c] = l
      /\ \A d \in Calls \ {c} : pc'[d] = pc[d]
  BY <1>1, GotoKind DEF IInv, Places
<1>4. seen' \in [InfoCalls -> SUBSET Bodies]
  <2>1. seen \in [InfoCalls -> SUBSET Bodies] /\ {device} \in SUBSET Bodies
    BY DEF IInv, KindInv
  <2>2. CASE c \in InfoCalls
    <3>1. seen' = [seen EXCEPT ![c] = {device}]
      BY <2>2 DEF DispatchCall
    <3>2. QED
      BY <2>1, <2>2, <3>1
  <2>3. CASE c \notin InfoCalls
    <3>1. seen' = seen
      BY <2>3 DEF DispatchCall
    <3>2. QED
      BY <2>1, <3>1
  <2>4. QED
    BY <2>2, <2>3
<1>5. KindInv'
  BY <1>2, <1>3, <1>4 DEF IInv, KindInv, serial
<1>6. LineInv'
  BY <1>2, LineFrame DEF IInv, serial
<1>7. WriteInv'
  <2>1. \A d \in WriteCalls : pc'[d] = pc[d] \/ (pc[d] # "done" /\ pc'[d] \notin {"write", "done"})
    BY <1>2, <1>3 DEF Calls
  <2>2. QED
    BY <1>2, <2>1, WriteFrame DEF IInv, serial
<1>8. QED
  BY <1>5, <1>6, <1>7 DEF IInv

-----------------------------------------------------------------------------
(* SerialPortI.                                                            *)

LEMMA OpenKeeps ==
    ASSUME IInv, NEW c \in ReadCalls \cup WriteCalls, Open(c)
    PROVE  IInv'
<1>1. /\ c \in Calls /\ pc[c] = "open" /\ UNCHANGED <<reply, serial, driver, faults>>
      /\ KindInv
  BY DEF Open, Calls, IInv
<1>2. PICK f \in FdStates : fd' = [fd EXCEPT ![c] = f]
  BY DEF Open, FdStates
<1>3. /\ fd' \in [Calls -> FdStates] /\ \A d \in Calls \ {c} : fd'[d] = fd[d]
  BY <1>1, <1>2 DEF KindInv
<1>4. LineInv'
  BY <1>1, LineFrame DEF IInv, serial
<1>5. CASE c \in ReadCalls
  <2>1. Goto(c, "read") /\ unsent' = unsent
    BY <1>5 DEF Open
  <2>2. /\ pc' \in [Calls -> Places] /\ \A d \in Calls \ {c} : pc'[d] = pc[d]
    BY <1>1, <2>1, GotoKind DEF Places
  <2>3. KindInv'
    BY <1>1, <1>3, <2>1, <2>2 DEF KindInv, serial, driver
  <2>4. \A d \in WriteCalls : d \in Calls \ {c}
    BY <1>5, CallsDisjoint DEF Calls
  <2>5. \A d \in WriteCalls : pc'[d] = pc[d] /\ fd'[d] = fd[d]
    BY <1>3, <2>2, <2>4
  <2>6. WriteInv'
    BY <1>1, <2>1, <2>5, WriteFrame DEF IInv, serial
  <2>7. QED
    BY <1>4, <2>3, <2>6 DEF IInv
<1>6. CASE c \in WriteCalls
  <2>1. Goto(c, "write") /\ unsent' = [unsent EXCEPT ![c] = Frame(c)]
    <3>1. c \notin ReadCalls
      BY <1>6, CallsDisjoint
    <3>2. QED
      BY <3>1 DEF Open
  <2>2. /\ pc' \in [Calls -> Places] /\ pc'[c] = "write"
        /\ \A d \in Calls \ {c} : pc'[d] = pc[d]
    BY <1>1, <2>1, GotoKind DEF Places
  <2>3. PICK u \in Seq(Symbols) : u = Frame(c) /\ Len(u) = FragsPerMsg + 1
    BY <1>6, FrameSeq
  <2>4. unsent' = [unsent EXCEPT ![c] = u]
    BY <2>1, <2>3
  <2>5. /\ unsent' \in [WriteCalls -> Seq(Symbols)] /\ unsent'[c] = u
        /\ \A d \in WriteCalls \ {c} : unsent'[d] = unsent[d]
    BY <1>1, <1>6, <2>4 DEF KindInv
  <2>6. KindInv'
    BY <1>1, <1>3, <2>2, <2>5 DEF KindInv, serial, driver
  <2>7. UNCHANGED <<reply, tx, delivered, faults>>
    BY <1>1 DEF serial
  <2>8. ASSUME NEW d \in WriteCalls
        PROVE  /\ \E k \in 1..(FragsPerMsg + 2) : WriterAt(d, k)'
               /\ (reply[d] \in {NoReply, "ack"})'
               /\ (pc[d] # "done" => reply[d] = NoReply)'
               /\ (faults.hangup = 0 /\ pc[d] = "done" /\ fd[d] = "ok" =>
                      Contains(delivered \o tx, Frame(d)))'
    <3>1. CASE d # c
      <4>1. d \in Calls \ {c}
        BY <3>1 DEF Calls
      <4>2. pc'[d] = pc[d] /\ fd'[d] = fd[d] /\ unsent'[d] = unsent[d]
        BY <1>3, <2>2, <2>5, <3>1, <4>1
      <4>3. PICK k \in 1..(FragsPerMsg + 2) : WriterAt(d, k)
        BY DEF IInv, WriteInv
      <4>4. WriterAt(d, k)'
        BY <2>7, <4>2, <4>3 DEF WriterAt
      <4>5. QED
        BY <2>7, <4>2, <4>4 DEF IInv, WriteInv
    <3>2. CASE d = c
      <4>1. FragsPerMsg \in Nat \ {0}
        BY ConfigAssumption
      <4>2. Rest(c, 1) = u
        BY <2>3, SubSeqFull DEF Rest
      <4>3. EndsWith(delivered \o tx, c, 1)'
        <5>1. delivered' \o tx' \in Seq(Symbols)
          BY <2>6 DEF KindInv
        <5>2. PICK s \in Seq(Symbols) : s = delivered' \o tx'
          BY <5>1
        <5>3. EndsWith(s, c, 1)
          BY DEF EndsWith
        <5>4. QED
          BY <5>2, <5>3
      <4>4. WriterAt(c, 1)'
        BY <2>2, <2>5, <4>1, <4>2, <4>3 DEF WriterAt
      <4>5. 1 \in 1..(FragsPerMsg + 2)
        BY <4>1
      <4>6. reply[c] \in {NoReply, "ack"} /\ reply[c] = NoReply
        BY <1>1, <1>6 DEF IInv, WriteInv
      <4>7. QED
        BY <2>2, <2>7, <3>2, <4>4, <4>5, <4>6
    <3>3. QED
      BY <3>1, <3>2
  <2>9. (Len(tx) <= TxCap)'
    BY <2>7 DEF IInv, WriteInv
  <2>10. QED
    BY <1>4, <2>6, <2>8, <2>9 DEF IInv, WriteInv
<1>7. QED
  BY <1>5, <1>6

LEMMA ReadFailsKeeps ==
    ASSUME IInv, NEW c \in ReadCalls, ReadFails(c)
    PROVE  IInv'
<1>1. /\ c \in Calls /\ Return(c, NoData) /\ KindInv
      /\ UNCHANGED <<fd, unsent, serial, driver, faults>>
  BY DEF ReadFails, Calls, IInv
<1>2. NoData \in Replies
  BY DEF Replies
<1>3. /\ pc' \in [Calls -> Places] /\ reply' \in [Calls -> Replies]
      /\ pc'[c] = "done" /\ reply'[c] = NoData
      /\ \A d \in Calls \ {c} : pc'[d] = pc[d] /\ reply'[d] = reply[d]
  BY <1>1, <1>2, ReturnKind
<1>4. KindInv'
  BY <1>1, <1>3 DEF KindInv, serial, driver
<1>5. WriteInv'
  <2>1. \A d \in WriteCalls : d \in Calls \ {c}
    BY CallsDisjoint DEF Calls
  <2>2. QED
    BY <1>1, <1>3, <2>1, WriteFrame DEF IInv, serial
<1>6. LineInv'
  <2>1. UNCHANGED <<rx, wire, offered>>
    BY <1>1 DEF serial
  <2>2. ReadText(c)' = <<>>
    BY <1>3 DEF ReadText
  <2>3. \A d \in ReadCalls \ {c} : ReadText(d)' = ReadText(d)
    BY <1>3 DEF ReadText, Calls
  <2>4. <<>> \in Text /\ Len(<<>>) = 0
    BY DEF Text
  <2>5. FromMessages(rx, offered)' /\ Ordered(rx)'
    BY <2>1 DEF IInv, LineInv
  <2>6. \A m \in Messages : \E k \in 1..(FragsPerMsg + 2) : SentAt(m, k)'
    BY <2>1 DEF IInv, LineInv, SentAt
  <2>7. ASSUME NEW d \in ReadCalls
        PROVE  (ReadText(d) \in Text)' /\ InOrder(ReadText(d), offered)'
    <3>1. CASE d = c
      <4>1. \A o : InOrder(<<>>, o)
        BY <2>4 DEF InOrder, Ordered
      <4>2. QED
        BY <2>2, <2>4, <3>1, <4>1
    <3>2. CASE d # c
      BY <2>1, <2>3, <3>2 DEF IInv, LineInv
    <3>3. QED
      BY <3>1, <3>2
  <2>8. \A m \in Messages \ offered' : wire'[m] = <<>>
    BY <2>1 DEF IInv, LineInv
  <2>9. QED
    BY <2>5, <2>6, <2>7, <2>8 DEF LineInv
<1>7. QED
  BY <1>4, <1>5, <1>6 DEF IInv

\* A read takes n symbols from the front of s, and returns the first l of them,
\* with garbage behind them at most if they fill read_buf.
Reads(c, s, n, l, v) ==
    /\ rx' = SubSeq(s, n + 1, Len(s)) /\ Return(c, v)
    /\ \A i \in 1..l : s[i] # NUL
    /\ \A i \in 1..Len(v) : \/ i \in 1..l /\ v[i] = s[i]
                            \/ i = l + 1 /\ l = ReadMax /\ v[i] = Garbage

\* read() takes the front of what the terminal holds.
LEMMA ReadDataLine ==
    ASSUME IInv, NEW c \in ReadCalls, ReadData(c)
    PROVE  \E n \in 0..Len(rx) : \E l \in 0..n : \E v \in Text : Reads(c, rx, n, l, v)
<1>1. PICK r \in Seq(Symbols) : r = rx
  BY DEF IInv, KindInv
<1>2. Len(r) \in Nat /\ ReadMax \in Nat
  BY ConfigAssumption
<1>3. PICK n \in 0..Len(r) : n = Min({Len(rx), ReadMax})
  BY <1>1, <1>2, MinOfTwo
<1>4. n \in Nat /\ n <= Len(r)
  BY <1>2
<1>5. PICK front \in Seq(Symbols) : front = SubSeq(r, 1, n)
  <2>1. SubSeq(r, 1, n) \in Seq(Symbols)
    BY <1>4
  <2>2. QED
    BY <2>1
<1>6. Len(front) = n /\ \A i \in 1..n : front[i] = r[i]
  BY <1>2, <1>4, <1>5
<1>7. PICK v : v \in ReadResults(front) /\ Return(c, v)
  BY <1>1, <1>3, <1>5 DEF ReadData
<1>8. rx' = SubSeq(rx, n + 1, Len(rx))
  BY <1>3 DEF ReadData
<1>9. PICK l \in 0..n :
          /\ \A i \in 1..l : front[i] # NUL
          /\ \/ v = SubSeq(front, 1, l)
             \/ l = ReadMax /\ v = Append(SubSeq(front, 1, l), Garbage)
  BY <1>6, <1>7, ReadResult
<1>10. \A i \in 1..l : i \in 1..n /\ front[i] = r[i]
  BY <1>4, <1>6
<1>11. l \in 0..Len(front)
  BY <1>6
<1>12. PICK x \in {SubSeq(front, 1, l), Append(SubSeq(front, 1, l), Garbage)} : x = v
  BY <1>9
<1>13. /\ x \in Seq(Symbols \cup {Garbage})
       /\ \A i \in 1..Len(x) : \/ i \in 1..l /\ x[i] = front[i]
                               \/ i = l + 1 /\ x[i] = Garbage
       /\ x = SubSeq(front, 1, l) => \A i \in 1..Len(x) : i \in 1..l /\ x[i] = front[i]
  BY <1>11, ReadElements
<1>14. ASSUME NEW i \in 1..Len(v)
       PROVE  \/ i \in 1..l /\ v[i] = rx[i]
              \/ i = l + 1 /\ l = ReadMax /\ v[i] = Garbage
  <2>1. CASE v = SubSeq(front, 1, l)
    BY <1>1, <1>10, <1>12, <1>13, <2>1
  <2>2. CASE l = ReadMax
    BY <1>1, <1>10, <1>12, <1>13, <2>2
  <2>3. QED
    BY <1>9, <2>1, <2>2
<1>15. v \in Text
  BY <1>12, <1>13 DEF Text
<1>16. \A i \in 1..l : rx[i] # NUL
  BY <1>1, <1>9, <1>10
<1>17. Reads(c, rx, n, l, v)
  BY <1>7, <1>8, <1>14, <1>16 DEF Reads
<1>18. QED
  BY <1>1, <1>15, <1>17

LEMMA ReadDataKeeps ==
    ASSUME IInv, NEW c \in ReadCalls, ReadData(c)
    PROVE  IInv'
<1>1. /\ c \in Calls /\ KindInv /\ LineInv
      /\ UNCHANGED <<fd, unsent, pty, wire, tx, delivered, children, offered, driver, faults>>
  BY DEF ReadData, Calls, IInv
<1>2. PICK s \in Seq(Symbols), o \in SUBSET Messages : s = rx /\ o = offered
  BY <1>1 DEF KindInv
<1>n. PICK n \in 0..Len(s) : \E l \in 0..n : \E v \in Text : Reads(c, s, n, l, v)
  BY <1>2, ReadDataLine
<1>r. PICK l \in 0..n, v \in Text : Reads(c, s, n, l, v)
  BY <1>n
<1>3. /\ rx' = SubSeq(s, n + 1, Len(s)) /\ Return(c, v)
      /\ \A i \in 1..l : s[i] # NUL
      /\ \A i \in 1..Len(v) : \/ i \in 1..l /\ v[i] = s[i]
                              \/ i = l + 1 /\ l = ReadMax /\ v[i] = Garbage
  BY <1>r DEF Reads
<1>4. Len(s) \in Nat /\ n \in Nat /\ n <= Len(s) /\ l \in 0..Len(s)
  OBVIOUS
<1>5. PICK t \in Seq(Symbols) : t = SubSeq(s, n + 1, Len(s)) /\ t = rx'
  <2>1. SubSeq(s, n + 1, Len(s)) \in Seq(Symbols)
    BY <1>4
  <2>2. QED
    BY <1>3, <2>1
<1>6. Len(t) = Len(s) - n /\ \A i \in 1..Len(t) : t[i] = s[n + i]
  BY <1>4, <1>5
<1>7. /\ pc' \in [Calls -> Places] /\ reply' \in [Calls -> Replies]
      /\ pc'[c] = "done" /\ reply'[c] = v
      /\ \A d \in Calls \ {c} : pc'[d] = pc[d] /\ reply'[d] = reply[d]
  <2>1. v \in Replies
    BY DEF Replies
  <2>2. QED
    BY <1>1, <1>3, <2>1, ReturnKind
<1>8. KindInv'
  BY <1>1, <1>5, <1>7 DEF KindInv, driver
<1>9. WriteInv'
  <2>1. \A d \in WriteCalls : d \in Calls \ {c}
    BY CallsDisjoint DEF Calls
  <2>2. QED
    BY <1>1, <1>7, <2>1, WriteFrame DEF IInv
<1>10. LineInv'
  <2>1. FromMessages(s, o) /\ Ordered(s)
    BY <1>1, <1>2 DEF LineInv
  <2>2. /\ FromMessages(t, o) /\ Ordered(t)
        /\ \A m \in Messages, k \in 1..(FragsPerMsg + 2) : Upto(s, m, k) => Upto(t, m, k)
    BY <1>4, <1>6, <2>1, LineBack
  <2>3. InOrder(v, o)
    BY <1>3, <1>4, <2>1, LineFront
  <2>4. /\ <<>> \in Text /\ InOrder(<<>>, o)
    <3>1. <<>> \in Text /\ Len(<<>>) = 0
      BY DEF Text
    <3>2. QED
      BY <3>1 DEF InOrder, Ordered
  <2>5. ASSUME NEW d \in ReadCalls
        PROVE  (ReadText(d) \in Text)' /\ InOrder(ReadText(d), offered)'
    <3>1. CASE d = c
      <4>1. PICK w \in {v, <<>>} : w = ReadText(c)'
        BY <1>7 DEF ReadText
      <4>2. w \in Text /\ InOrder(w, o)
        BY <2>3, <2>4
      <4>3. QED
        BY <1>1, <1>2, <3>1, <4>1, <4>2
    <3>2. CASE d # c
      <4>1. ReadText(d)' = ReadText(d)
        BY <1>7, <3>2 DEF ReadText, Calls
      <4>2. QED
        BY <1>1, <4>1 DEF LineInv
    <3>3. QED
      BY <3>1, <3>2
  <2>6. ASSUME NEW m \in Messages
        PROVE  \E k \in 1..(FragsPerMsg + 2) : SentAt(m, k)'
    <3>1. PICK k \in 1..(FragsPerMsg + 2) : SentAt(m, k)
      BY <1>1 DEF LineInv
    <3>2. wire[m] = Rest(m, k) /\ Upto(t, m, k)
      BY <1>2, <2>2, <3>1 DEF SentAt
    <3>3. QED
      BY <1>1, <1>5, <3>2 DEF SentAt
  <2>7. FromMessages(rx, offered)' /\ Ordered(rx)'
    BY <1>1, <1>2, <1>5, <2>2
  <2>8. \A m \in Messages \ offered' : wire'[m] = <<>>
    BY <1>1 DEF LineInv
  <2>9. QED
    BY <2>5, <2>6, <2>7, <2>8 DEF LineInv
<1>11. QED
  BY <1>8, <1>9, <1>10 DEF IInv

\* What is on a line stays there.
LEMMA ContainsLonger ==
    ASSUME NEW s \in Seq(Symbols), NEW u \in Seq(Symbols), NEW t \in Seq(Symbols),
           Contains(s, t)
    PROVE  Contains(s \o u, t)
<1>1. Len(s) \in Nat /\ Len(t) \in Nat /\ Len(u) \in Nat
  OBVIOUS
<1>2. PICK p \in 0..(Len(s) - Len(t)) : SubSeq(s, p + 1, p + Len(t)) = t
  BY DEF Contains
<1>3. p \in Nat /\ p + Len(t) <= Len(s)
  BY <1>1
<1>4. \A j \in 1..Len(t) : t[j] = s[p + j]
  <2>1. \A i \in (p + 1)..(p + Len(t)) : s[i] \in Symbols
    <3>1. ASSUME NEW i \in (p + 1)..(p + Len(t)) PROVE i \in 1..Len(s)
      BY <1>1, <1>3
    <3>2. QED
      BY <3>1, ElementOfSeq
  <2>2. \A j \in 1..((p + Len(t)) - (p + 1) + 1) : t[j] = s[(p + 1) + j - 1]
    BY <1>1, <1>2, <1>3, <2>1, SubSeqProperties
  <2>3. QED
    BY <1>1, <1>3, <2>2
<1>5. PICK v \in Seq(Symbols) : v = s \o u
  <2>1. s \o u \in Seq(Symbols)
    OBVIOUS
  <2>2. QED
    BY <2>1
<1>6. /\ Len(v) = Len(s) + Len(u)
      /\ \A i \in 1..(Len(s) + Len(u)) : v[i] = IF i <= Len(s) THEN s[i] ELSE u[i - Len(s)]
  BY <1>5, ConcatProperties
<1>7. p \in 0..(Len(v) - Len(t))
  BY <1>1, <1>3, <1>6
<1>8. ASSUME NEW j \in 1..Len(t) PROVE v[p + j] = t[j]
  <2>1. p + j \in 1..(Len(s) + Len(u)) /\ p + j <= Len(s)
    BY <1>1, <1>3
  <2>2. QED
    BY <1>4, <1>6, <2>1
<1>9. Contains(v, t)
  BY <1>7, <1>8, ContainsByElements
<1>10. QED
  BY <1>5, <1>9

\* A writer puts its next n fragments behind what it has put.
LEMMA PutMore ==
    ASSUME NEW s \in Seq(Symbols), NEW c \in WriteCalls, NEW k \in 1..(FragsPerMsg + 1),
           EndsWith(s, c, k), NEW n \in 1..((FragsPerMsg + 2) - k)
    PROVE  EndsWith(s \o SubSeq(Rest(c, k), 1, n), c, k + n)
<1>1. FragsPerMsg \in Nat /\ Len(s) \in Nat /\ k \in Nat /\ n \in Nat /\ n >= 1 /\ k >= 1
  BY ConfigAssumption
<1>2. PICK f \in Seq(Symbols) : f = Frame(c) /\ Len(f) = FragsPerMsg + 1
  BY FrameSeq
<1>3. PICK r \in Seq(Symbols) : r = Rest(c, k)
  <2>1. SubSeq(f, k, FragsPerMsg + 1) \in Seq(Symbols)
    BY <1>1, <1>2
  <2>2. QED
    BY <1>2, <2>1 DEF Rest
<1>4. /\ Len(r) = (FragsPerMsg + 2) - k
      /\ \A i \in 1..((FragsPerMsg + 2) - k) : r[i] = f[(k + i) - 1]
  <2>1. r = SubSeq(f, k, FragsPerMsg + 1)
    BY <1>2, <1>3 DEF Rest
  <2>2. QED
    BY <1>1, <1>2, <2>1
<1>5. PICK u \in Seq(Symbols) : u = SubSeq(r, 1, n)
  <2>1. SubSeq(r, 1, n) \in Seq(Symbols)
    BY <1>1, <1>4
  <2>2. QED
    BY <2>1
<1>6. Len(u) = n /\ \A i \in 1..n : u[i] = r[i]
  BY <1>1, <1>4, <1>5
<1>7. PICK v \in Seq(Symbols) : v = s \o u
  <2>1. s \o u \in Seq(Symbols)
    OBVIOUS
  <2>2. QED
    BY <2>1
<1>8. /\ Len(v) = Len(s) + n
      /\ \A i \in 1..(Len(s) + n) : v[i] = IF i <= Len(s) THEN s[i] ELSE u[i - Len(s)]
  <2>1. /\ Len(v) = Len(s) + Len(u)
        /\ \A i \in 1..(Len(s) + Len(u)) :
              v[i] = IF i <= Len(s) THEN s[i] ELSE u[i - Len(s)]
    BY <1>7, ConcatProperties
  <2>2. Len(u) = n
    BY <1>6
  <2>3. QED
    BY <2>1, <2>2
<1>9. /\ k - 1 <= Len(s)
      /\ \A i \in 1..(k - 1) : s[(Len(s) - (k - 1)) + i] = f[i]
  BY <1>2 DEF EndsWith
<1>10. (k + n) - 1 <= Len(v)
  BY <1>1, <1>8, <1>9
<1>11. ASSUME NEW i \in 1..((k + n) - 1)
       PROVE  v[(Len(v) - ((k + n) - 1)) + i] = f[i]
  <2>1. PICK q \in 1..(Len(s) + n) : q = (Len(s) - (k - 1)) + i
    BY <1>1, <1>9
  <2>2. (Len(v) - ((k + n) - 1)) + i = q
    BY <1>1, <1>8, <2>1
  <2>3. CASE i <= k - 1
    <3>1. i \in 1..(k - 1) /\ q <= Len(s)
      BY <1>1, <2>1, <2>3
    <3>2. QED
      BY <1>8, <1>9, <2>1, <2>2, <3>1
  <2>4. CASE ~ (i <= k - 1)
    <3>1. PICK j \in 1..n : j = q - Len(s) /\ ~ (q <= Len(s)) /\ (k + j) - 1 = i
      BY <1>1, <2>1, <2>4
    <3>2. j \in 1..((FragsPerMsg + 2) - k)
      BY <1>1
    <3>3. v[q] = u[j] /\ u[j] = r[j] /\ r[j] = f[i]
      BY <1>4, <1>6, <1>8, <3>1, <3>2
    <3>4. QED
      BY <2>2, <3>3
  <2>5. QED
    BY <2>3, <2>4
<1>12. EndsWith(v, c, k + n)
  BY <1>2, <1>10, <1>11 DEF EndsWith
<1>13. QED
  BY <1>3, <1>5, <1>7, <1>12

\* It has put all of them.
LEMMA PutAll ==
    ASSUME NEW s \in Seq(Symbols), NEW c \in WriteCalls, EndsWith(s, c, FragsPerMsg + 2)
    PROVE  Contains(s, Frame(c))
<1>1. FragsPerMsg \in Nat /\ Len(s) \in Nat
  BY ConfigAssumption
<1>2. PICK f \in Seq(Symbols) : f = Frame(c) /\ Len(f) = FragsPerMsg + 1
  BY FrameSeq
<1>3. /\ FragsPerMsg + 1 <= Len(s)
      /\ \A i \in 1..(FragsPerMsg + 1) : s[(Len(s) - (FragsPerMsg + 1)) + i] = f[i]
  <2>1. (FragsPerMsg + 2) - 1 = FragsPerMsg + 1
    BY <1>1
  <2>2. QED
    BY <1>2, <2>1 DEF EndsWith
<1>4. PICK p \in 0..(Len(s) - Len(f)) : p = Len(s) - (FragsPerMsg + 1)
  <2>1. FragsPerMsg + 1 <= Len(s) /\ Len(f) = FragsPerMsg + 1
    BY <1>2, <1>3
  <2>2. Len(s) - (FragsPerMsg + 1) \in 0..(Len(s) - Len(f))
    BY <1>1, <2>1
  <2>3. QED
    BY <2>2
<1>5. \A j \in 1..Len(f) : s[p + j] = f[j]
  BY <1>2, <1>3, <1>4
<1>6. Contains(s, f)
  BY <1>5, ContainsByElements
<1>7. QED
  BY <1>2, <1>6

\* What is left after n fragments.
LEMMA RestAfter ==
    ASSUME NEW c \in Messages \cup WriteCalls, NEW k \in 1..(FragsPerMsg + 2),
           NEW n \in 0..((FragsPerMsg + 2) - k)
    PROVE  /\ Rest(c, k) \in Seq(Symbols) /\ Len(Rest(c, k)) = (FragsPerMsg + 2) - k
           /\ \A i \in 1..((FragsPerMsg + 2) - k) : Rest(c, k)[i] = Frame(c)[(k + i) - 1]
           /\ SubSeq(Rest(c, k), n + 1, (FragsPerMsg + 2) - k) = Rest(c, k + n)
<1>1. FragsPerMsg \in Nat /\ k \in Nat /\ n \in Nat /\ k >= 1
  BY ConfigAssumption
<1>2. PICK f \in Seq(Symbols) : f = Frame(c) /\ Len(f) = FragsPerMsg + 1
  BY FrameSeq
<1>3. ASSUME NEW h \in 1..(FragsPerMsg + 2)
      PROVE  /\ Rest(c, h) \in Seq(Symbols) /\ Len(Rest(c, h)) = (FragsPerMsg + 2) - h
             /\ \A i \in 1..((FragsPerMsg + 2) - h) : Rest(c, h)[i] = f[(h + i) - 1]
  <2>1. Rest(c, h) = SubSeq(f, h, FragsPerMsg + 1)
    BY <1>2 DEF Rest
  <2>2. PICK r \in Seq(Symbols) : r = SubSeq(f, h, FragsPerMsg + 1)
    <3>1. SubSeq(f, h, FragsPerMsg + 1) \in Seq(Symbols)
      BY <1>1, <1>2
    <3>2. QED
      BY <3>1
  <2>3. /\ Len(r) = (FragsPerMsg + 2) - h
        /\ \A i \in 1..((FragsPerMsg + 2) - h) : r[i] = f[(h + i) - 1]
    BY <1>1, <1>2, <2>2
  <2>4. QED
    BY <2>1, <2>2, <2>3
<1>4. PICK h \in 1..(FragsPerMsg + 2) : h = k + n
  BY <1>1
<1>5. PICK r \in Seq(Symbols), q \in Seq(Symbols) : r = Rest(c, k) /\ q = Rest(c, h)
  BY <1>3
<1>6. /\ Len(r) = (FragsPerMsg + 2) - k
      /\ \A i \in 1..((FragsPerMsg + 2) - k) : r[i] = f[(k + i) - 1]
      /\ Len(q) = (FragsPerMsg + 2) - h
      /\ \A i \in 1..((FragsPerMsg + 2) - h) : q[i] = f[(h + i) - 1]
  BY <1>3, <1>5
<1>7. PICK a \in Seq(Symbols) : a = SubSeq(r, n + 1, Len(r))
  <2>1. SubSeq(r, n + 1, Len(r)) \in Seq(Symbols)
    BY <1>1
  <2>2. QED
    BY <2>1
<1>8. Len(a) = Len(r) - n /\ \A i \in 1..(Len(r) - n) : a[i] = r[n + i]
  <2>1. n <= Len(r)
    BY <1>1, <1>6
  <2>2. QED
    BY <1>1, <1>7, <2>1
<1>9. Len(a) = Len(q)
  BY <1>1, <1>4, <1>6, <1>8
<1>10. ASSUME NEW i \in 1..Len(a) PROVE a[i] = q[i]
  <2>1. /\ i \in 1..(Len(r) - n) /\ n + i \in 1..((FragsPerMsg + 2) - k)
        /\ i \in 1..((FragsPerMsg + 2) - h) /\ (k + (n + i)) - 1 = (h + i) - 1
    BY <1>1, <1>4, <1>6, <1>8
  <2>2. QED
    BY <1>6, <1>8, <2>1
<1>11. a = q
  BY <1>9, <1>10, SeqEqual
<1>12. QED
  BY <1>2, <1>4, <1>5, <1>6, <1>7, <1>11

\* Concatenation of serial data.
LEMMA ConcatThree ==
    ASSUME NEW a \in Seq(Symbols), NEW b \in Seq(Symbols), NEW c \in Seq(Symbols)
    PROVE  (a \o b) \o c = a \o (b \o c)
BY ConcatAssociative

\* write() puts a part of what is left.
LEMMA WriteSomeStep ==
    ASSUME IInv, NEW c \in WriteCalls, WriteSome(c), NEW k \in 1..(FragsPerMsg + 2),
           WriterAt(c, k)
    PROVE  \E n \in 1..((FragsPerMsg + 2) - k) :
              /\ tx' = tx \o SubSeq(Rest(c, k), 1, n)
              /\ unsent' = [unsent EXCEPT ![c] = Rest(c, k + n)]
              /\ Len(tx) + n <= TxCap
              /\ k + n = FragsPerMsg + 2 => Return(c, "ack")
              /\ k + n # FragsPerMsg + 2 => UNCHANGED <<pc, reply>>
<1>1. FragsPerMsg \in Nat /\ TxCap \in Nat
  BY ConfigAssumption
<1>2. k <= FragsPerMsg + 1 /\ unsent[c] = Rest(c, k)
  BY DEF WriterAt, WriteSome
<1>3. PICK r \in Seq(Symbols) :
         r = Rest(c, k) /\ Len(r) = (FragsPerMsg + 2) - k
  BY <1>1, <1>2, RestAfter
<1>4. PICK x \in Seq(Symbols) : x = tx /\ Len(x) < TxCap
  BY DEF IInv, KindInv, WriteSome
<1>5. Len(r) \in Nat /\ Len(r) >= 1 /\ Len(x) \in Nat /\ TxCap - Len(x) \in Nat
  BY <1>1, <1>2, <1>3, <1>4
<1>6. PICK n \in Nat : n = Min({Len(unsent[c]), TxCap - Len(tx)})
                       /\ n <= Len(r) /\ n <= TxCap - Len(x) /\ n >= 1
  <2>1. Min({Len(r), TxCap - Len(x)}) =
           IF Len(r) <= TxCap - Len(x) THEN Len(r) ELSE TxCap - Len(x)
    BY <1>5, MinOfTwo
  <2>2. PICK a \in Nat, b \in Nat : a = Len(r) /\ b = TxCap - Len(x) /\ a >= 1 /\ b >= 1
    BY <1>1, <1>4, <1>5
  <2>3. Len(unsent[c]) = a /\ TxCap - Len(tx) = b
    BY <1>2, <1>3, <1>4, <2>2
  <2>4. Min({a, b}) = IF a <= b THEN a ELSE b
    BY MinOfTwo
  <2>5. PICK n \in Nat : n = (IF a <= b THEN a ELSE b)
    OBVIOUS
  <2>6. n <= a /\ n <= b /\ n >= 1
    BY <2>2, <2>5
  <2>7. QED
    BY <2>2, <2>3, <2>4, <2>5, <2>6
<1>7. n \in 1..((FragsPerMsg + 2) - k)
  BY <1>3, <1>5, <1>6
<1>8. /\ tx' = tx \o SubSeq(unsent[c], 1, n)
      /\ unsent' = [unsent EXCEPT ![c] = SubSeq(@, n + 1, Len(@))]
      /\ IF n = Len(unsent[c]) THEN Return(c, "ack") ELSE UNCHANGED <<pc, reply>>
  BY <1>6 DEF WriteSome
<1>9. tx' = tx \o SubSeq(Rest(c, k), 1, n)
  BY <1>2, <1>8
<1>10. unsent' = [unsent EXCEPT ![c] = Rest(c, k + n)]
  <2>1. n \in 0..((FragsPerMsg + 2) - k)
    BY <1>7, <1>1
  <2>2. SubSeq(Rest(c, k), n + 1, (FragsPerMsg + 2) - k) = Rest(c, k + n)
    BY <2>1, RestAfter
  <2>3. SubSeq(unsent[c], n + 1, Len(unsent[c])) = Rest(c, k + n)
    BY <1>2, <1>3, <2>2
  <2>4. QED
    BY <1>8, <2>3
<1>11. Len(tx) + n <= TxCap
  BY <1>1, <1>4, <1>5, <1>6
<1>12. k + n = FragsPerMsg + 2 <=> n = Len(unsent[c])
  BY <1>1, <1>2, <1>3, <1>6
<1>13. QED
  BY <1>7, <1>8, <1>9, <1>10, <1>11, <1>12

LEMMA WriteSomeKeeps ==
    ASSUME IInv, NEW c \in WriteCalls, WriteSome(c)
    PROVE  IInv'
<1>1. /\ c \in Calls /\ KindInv /\ LineInv /\ WriteInv /\ pc[c] = "write" /\ fd[c] = "ok"
      /\ UNCHANGED <<fd, pty, wire, rx, delivered, children, offered, driver, faults>>
  BY DEF WriteSome, Calls, IInv
<1>2. FragsPerMsg \in Nat /\ TxCap \in Nat
  BY ConfigAssumption
<1>3. PICK k \in 1..(FragsPerMsg + 2) : WriterAt(c, k)
  BY <1>1 DEF WriteInv
<1>4. PICK n \in 1..((FragsPerMsg + 2) - k) :
         /\ tx' = tx \o SubSeq(Rest(c, k), 1, n)
         /\ unsent' = [unsent EXCEPT ![c] = Rest(c, k + n)]
         /\ Len(tx) + n <= TxCap
         /\ k + n = FragsPerMsg + 2 => Return(c, "ack")
         /\ k + n # FragsPerMsg + 2 => UNCHANGED <<pc, reply>>
  BY <1>3, WriteSomeStep
<1>5. k \in 1..(FragsPerMsg + 1) /\ k + n \in 1..(FragsPerMsg + 2)
  BY <1>1, <1>2, <1>3 DEF WriterAt
<1>6. PICK r \in Seq(Symbols) : r = Rest(c, k) /\ Len(r) = (FragsPerMsg + 2) - k
  BY <1>2, <1>3, RestAfter
<1>7. PICK piece \in Seq(Symbols) : piece = SubSeq(r, 1, n) /\ Len(piece) = n
  <2>1. /\ SubSeq(r, 1, n) \in Seq(Symbols) /\ Len(SubSeq(r, 1, n)) = n
    BY <1>2, <1>6
  <2>2. QED
    BY <2>1
<1>8. PICK x \in Seq(Symbols), d0 \in Seq(Symbols) : x = tx /\ d0 = delivered
  BY <1>1 DEF KindInv
<1>9. PICK y \in Seq(Symbols) : y = tx' /\ y = x \o piece /\ Len(y) <= TxCap
  <2>1. x \o piece \in Seq(Symbols) /\ Len(x \o piece) = Len(x) + n
    BY <1>7
  <2>2. Len(x) + n <= TxCap
    BY <1>4, <1>8
  <2>3. tx' = x \o piece
    BY <1>4, <1>6, <1>7, <1>8
  <2>4. QED
    BY <2>1, <2>2, <2>3
<1>10. PICK s \in Seq(Symbols), t \in Seq(Symbols) :
          /\ s = delivered \o tx /\ t = delivered' \o tx' /\ t = s \o piece
  <2>1. d0 \o x \in Seq(Symbols) /\ d0 \o y \in Seq(Symbols)
    OBVIOUS
  <2>2. d0 \o y = (d0 \o x) \o piece
    <3>1. (d0 \o x) \o piece = d0 \o (x \o piece)
      BY ConcatThree
    <3>2. QED
      BY <1>9, <3>1, Zenon
  <2>3. delivered \o tx = d0 \o x /\ delivered' \o tx' = d0 \o y
    BY <1>1, <1>8, <1>9
  <2>4. QED
    BY <2>1, <2>2, <2>3
<1>11. PICK q \in Seq(Symbols) : q = Rest(c, k + n) /\ unsent' = [unsent EXCEPT ![c] = q]
  <2>1. 0 \in 0..((FragsPerMsg + 2) - (k + n))
    BY <1>2, <1>5
  <2>2. Rest(c, k + n) \in Seq(Symbols)
    BY <1>5, <2>1, RestAfter
  <2>3. QED
    BY <1>4, <2>2
<1>12. /\ unsent' \in [WriteCalls -> Seq(Symbols)] /\ unsent'[c] = q
       /\ \A d \in WriteCalls \ {c} : unsent'[d] = unsent[d]
  BY <1>1, <1>11 DEF KindInv
<1>13. /\ pc' \in [Calls -> Places] /\ reply' \in [Calls -> Replies]
       /\ \A d \in Calls \ {c} : pc'[d] = pc[d] /\ reply'[d] = reply[d]
       /\ k + n = FragsPerMsg + 2 => pc'[c] = "done" /\ reply'[c] = "ack"
       /\ k + n # FragsPerMsg + 2 => pc'[c] = pc[c] /\ reply'[c] = reply[c]
  <2>1. CASE k + n = FragsPerMsg + 2
    <3>1. "ack" \in Replies
      BY DEF Replies
    <3>2. QED
      BY <1>1, <1>4, <2>1, <3>1, ReturnKind
  <2>2. CASE k + n # FragsPerMsg + 2
    BY <1>1, <1>4, <2>2 DEF KindInv
  <2>3. QED
    BY <2>1, <2>2
<1>14. KindInv'
  BY <1>1, <1>9, <1>12, <1>13 DEF KindInv, driver
<1>15. LineInv'
  <2>1. \A d \in ReadCalls : d \in Calls \ {c}
    BY CallsDisjoint DEF Calls
  <2>2. QED
    BY <1>1, <1>13, <2>1, LineFrame
<1>16. faults.hangup = 0 => EndsWith(t, c, k + n)
  <2>1. SUFFICES ASSUME faults.hangup = 0 PROVE EndsWith(t, c, k + n)
    OBVIOUS
  <2>2. EndsWith(s, c, k)
    BY <1>1, <1>3, <1>10, <2>1 DEF WriterAt
  <2>3. QED
    BY <1>5, <1>6, <1>7, <1>10, <2>2, PutMore
<1>17. ASSUME NEW d \in WriteCalls
       PROVE  /\ \E h \in 1..(FragsPerMsg + 2) : WriterAt(d, h)'
              /\ (reply[d] \in {NoReply, "ack"})'
              /\ (pc[d] # "done" => reply[d] = NoReply)'
              /\ (faults.hangup = 0 /\ pc[d] = "done" /\ fd[d] = "ok" =>
                     Contains(delivered \o tx, Frame(d)))'
  <2>1. CASE d = c
    <3>1. WriterAt(c, k + n)'
      <4>1. pc'[c] = "write" => k + n <= FragsPerMsg + 1
        <5>1. pc'[c] = "write" => k + n # FragsPerMsg + 2
          BY <1>13
        <5>2. k + n # FragsPerMsg + 2 => k + n <= FragsPerMsg + 1
          BY <1>2, <1>5
        <5>3. QED
          BY <5>1, <5>2
      <4>2. faults'.hangup = 0 => EndsWith(delivered' \o tx', c, k + n)
        BY <1>1, <1>10, <1>16
      <4>3. QED
        BY <1>11, <1>12, <4>1, <4>2 DEF WriterAt
    <3>2. reply'[c] \in {NoReply, "ack"} /\ (pc'[c] # "done" => reply'[c] = NoReply)
      BY <1>1, <1>13 DEF WriteInv
    <3>3. ASSUME faults'.hangup = 0, pc'[c] = "done"
          PROVE  Contains(delivered' \o tx', Frame(c))
      <4>1. k + n = FragsPerMsg + 2
        BY <1>1, <1>13, <3>3
      <4>2. EndsWith(t, c, FragsPerMsg + 2)
        BY <1>1, <1>16, <3>3, <4>1
      <4>3. Contains(t, Frame(c))
        BY <4>2, PutAll
      <4>4. QED
        BY <1>10, <4>3
    <3>4. QED
      BY <1>5, <2>1, <3>1, <3>2, <3>3
  <2>2. CASE d # c
    <3>1. /\ d \in Calls \ {c} /\ d \in WriteCalls \ {c}
      BY <2>2 DEF Calls
    <3>2. pc'[d] = pc[d] /\ reply'[d] = reply[d] /\ unsent'[d] = unsent[d] /\ fd'[d] = fd[d]
      BY <1>1, <1>12, <1>13, <3>1
    <3>3. PICK h \in 1..(FragsPerMsg + 2) : WriterAt(d, h)
      BY <1>1 DEF WriteInv
    <3>4. ASSUME pc[d] = "write" PROVE h = 1
      <4>1. unsent[d] = Rest(d, h) /\ h <= FragsPerMsg + 1
        BY <3>3, <3>4 DEF WriterAt
      <4>2. unsent[d] \in {<<>>, Frame(d)}
        BY <3>1 DEF WriteSome
      <4>3. 0 \in 0..((FragsPerMsg + 2) - h)
        BY <1>2
      <4>4. Len(Rest(d, h)) = (FragsPerMsg + 2) - h
        BY <4>3, RestAfter
      <4>5. Len(<<>>) = 0 /\ Len(Frame(d)) = FragsPerMsg + 1
        BY FrameSeq
      <4>6. (FragsPerMsg + 2) - h \in {0, FragsPerMsg + 1}
        BY <4>1, <4>2, <4>4, <4>5
      <4>7. QED
        BY <1>2, <4>1, <4>6
    <3>5. EndsWith(t, d, 1)
      BY DEF EndsWith
    <3>6. WriterAt(d, h)'
      <4>1. pc'[d] = "write" => EndsWith(delivered' \o tx', d, h)
        BY <1>10, <3>2, <3>4, <3>5
      <4>2. QED
        BY <3>2, <3>3, <4>1 DEF WriterAt
    <3>7. ASSUME faults.hangup = 0, pc[d] = "done", fd[d] = "ok"
          PROVE  Contains(t, Frame(d))
      <4>1. Contains(s, Frame(d))
        BY <1>1, <1>10, <3>7 DEF WriteInv
      <4>2. Frame(d) \in Seq(Symbols)
        BY FrameSeq
      <4>3. QED
        BY <1>10, <4>1, <4>2, ContainsLonger
    <3>8. QED
      BY <1>1, <1>10, <3>2, <3>6, <3>7 DEF WriteInv
  <2>3. QED
    BY <2>1, <2>2
<1>18. (Len(tx) <= TxCap)'
  BY <1>9
<1>19. WriteInv'
  BY <1>17, <1>18 DEF WriteInv
<1>20. QED
  BY <1>14, <1>15, <1>19 DEF IInv

LEMMA WriteFailsKeeps ==
    ASSUME IInv, NEW c \in WriteCalls, WriteFails(c)
    PROVE  IInv'
<1>1. /\ c \in Calls /\ KindInv /\ LineInv /\ WriteInv /\ Return(c, "ack")
      /\ fd[c] \in {"bad", "hup"} /\ unsent' = [unsent EXCEPT ![c] = <<>>]
      /\ UNCHANGED <<fd, serial, driver, faults>>
  BY DEF WriteFails, Calls, IInv
<1>2. "ack" \in Replies
  BY DEF Replies
<1>3. /\ pc' \in [Calls -> Places] /\ reply' \in [Calls -> Replies]
      /\ pc'[c] = "done" /\ reply'[c] = "ack"
      /\ \A d \in Calls \ {c} : pc'[d] = pc[d] /\ reply'[d] = reply[d]
  BY <1>1, <1>2, ReturnKind
<1>4. PICK e \in Seq(Symbols) : e = <<>>
  <2>1. <<>> \in Seq(Symbols)
    OBVIOUS
  <2>2. QED
    BY <2>1, Zenon
<1>5. /\ unsent' \in [WriteCalls -> Seq(Symbols)] /\ unsent'[c] = e
      /\ \A d \in WriteCalls \ {c} : unsent'[d] = unsent[d]
  BY <1>1, <1>4 DEF KindInv
<1>6. KindInv'
  BY <1>1, <1>3, <1>5 DEF KindInv, serial, driver
<1>7. LineInv'
  <2>1. \A d \in ReadCalls : d \in Calls \ {c}
    BY CallsDisjoint DEF Calls
  <2>2. QED
    BY <1>1, <1>3, <2>1, LineFrame DEF serial
<1>8. UNCHANGED <<tx, delivered, faults, fd>>
  BY <1>1 DEF serial
<1>9. ASSUME NEW d \in WriteCalls
      PROVE  /\ \E h \in 1..(FragsPerMsg + 2) : WriterAt(d, h)'
             /\ (reply[d] \in {NoReply, "ack"})'
             /\ (pc[d] # "done" => reply[d] = NoReply)'
             /\ (faults.hangup = 0 /\ pc[d] = "done" /\ fd[d] = "ok" =>
                    Contains(delivered \o tx, Frame(d)))'
  <2>1. CASE d = c
    <3>1. FragsPerMsg \in Nat
      BY ConfigAssumption
    <3>2. FragsPerMsg + 2 \in 1..(FragsPerMsg + 2) /\ FragsPerMsg + 2 \in Int
          /\ FragsPerMsg + 1 \in Int /\ FragsPerMsg + 1 < FragsPerMsg + 2
      BY <3>1
    <3>3. Rest(c, FragsPerMsg + 2) = <<>>
      BY <3>2, SubSeqEmpty DEF Rest
    <3>4. WriterAt(c, FragsPerMsg + 2)'
      BY <1>3, <1>4, <1>5, <3>3 DEF WriterAt
    <3>5. QED
      BY <1>1, <1>3, <1>8, <2>1, <3>2, <3>4
  <2>2. CASE d # c
    <3>1. /\ d \in Calls \ {c} /\ d \in WriteCalls \ {c}
      BY <2>2 DEF Calls
    <3>2. pc'[d] = pc[d] /\ reply'[d] = reply[d] /\ unsent'[d] = unsent[d]
      BY <1>3, <1>5, <3>1
    <3>3. PICK h \in 1..(FragsPerMsg + 2) : WriterAt(d, h)
      BY <1>1 DEF WriteInv
    <3>4. WriterAt(d, h)'
      BY <1>8, <3>2, <3>3 DEF WriterAt
    <3>5. QED
      BY <1>1, <1>8, <3>2, <3>4 DEF WriteInv
  <2>3. QED
    BY <2>1, <2>2
<1>10. WriteInv'
  BY <1>1, <1>8, <1>9 DEF WriteInv
<1>11. QED
  BY <1>6, <1>7, <1>10 DEF IInv

-----------------------------------------------------------------------------
(* DriverI and deviceInfo() leave the serial port alone.                   *)

LEMMA DriverFrame ==
    ASSUME IInv, NEW c \in InfoCalls, UNCHANGED <<fd, unsent, serial>>,
           faults'.hangup = faults.hangup,
           \A d \in Calls \ {c} : pc'[d] = pc[d] /\ reply'[d] = reply[d]
    PROVE  LineInv' /\ WriteInv'
<1>1. \A d \in ReadCalls \cup WriteCalls : d \in Calls \ {c}
  BY CallsDisjoint DEF Calls
<1>2. LineInv'
  BY <1>1, LineFrame DEF IInv, serial
<1>3. WriteInv'
  BY <1>1, WriteFrame DEF IInv, serial
<1>4. QED
  BY <1>2, <1>3

LEMMA DriverGoto ==
    ASSUME IInv, NEW c \in InfoCalls, NEW l \in Places, Goto(c, l),
           UNCHANGED <<fd, unsent, reply, serial>>, faults'.hangup = faults.hangup
    PROVE  LineInv' /\ WriteInv' /\ pc' \in [Calls -> Places]
<1>1. /\ c \in Calls
      /\ pc' \in [Calls -> Places] /\ \A d \in Calls \ {c} : pc'[d] = pc[d]
  BY GotoKind DEF IInv, Calls
<1>2. QED
  BY <1>1, DriverFrame

LEMMA FetchKeeps ==
    ASSUME IInv, NEW c \in InfoCalls, TruncateFile(c) \/ FetchOk(c)
    PROVE  IInv'
<1>1. PICK l \in {"fetch", "scan"} : Goto(c, l)
  BY DEF TruncateFile, FetchOk
<1>2. UNCHANGED <<fd, unsent, reply, serial, device, buffer, scanned, seen, faults>>
  BY DEF TruncateFile, FetchOk
<1>3. LineInv' /\ WriteInv' /\ pc' \in [Calls -> Places]
  <2>1. l \in Places
    BY DEF Places
  <2>2. QED
    BY <1>1, <1>2, <2>1, DriverGoto
<1>4. file' \in Files
  <2>1. CASE TruncateFile(c)
    BY <2>1 DEF TruncateFile, Files
  <2>2. CASE FetchOk(c)
    <3>1. file' \in {device, file, TornBody} /\ device \in Bodies /\ file \in Files
      BY <2>2 DEF FetchOk, IInv, KindInv
    <3>2. QED
      BY <3>1 DEF Files
  <2>3. QED
    BY <2>1, <2>2
<1>5. KindInv'
  BY <1>2, <1>3, <1>4 DEF IInv, KindInv, serial
<1>6. QED
  BY <1>3, <1>5 DEF IInv

LEMMA FetchFailsKeeps ==
    ASSUME IInv, NEW c \in InfoCalls, FetchFails(c)
    PROVE  IInv' /\ faults'.curl # 0
<1>1. /\ Goto(c, "scan") /\ UNCHANGED <<fd, unsent, reply, serial, driver>>
      /\ faults.curl < MaxCurlFails /\ faults' = [faults EXCEPT !.curl = @ + 1]
  BY DEF FetchFails
<1>2. /\ faults \in [curl : 0..MaxCurlFails, hangup : 0..MaxHangups,
                     change : 0..MaxDeviceChanges]
      /\ MaxCurlFails \in Nat
  BY ConfigAssumption DEF IInv, KindInv
<1>3. PICK n \in 0..MaxCurlFails : n = faults.curl + 1 /\ n # 0
  <2>1. faults.curl \in 0..MaxCurlFails
    BY <1>2
  <2>2. QED
    BY <1>1, <1>2, <2>1
<1>4. faults' = [faults EXCEPT !.curl = n]
  BY <1>1, <1>3
<1>5. /\ faults' \in [curl : 0..MaxCurlFails, hangup : 0..MaxHangups,
                      change : 0..MaxDeviceChanges]
      /\ faults'.hangup = faults.hangup /\ faults'.curl = n
  BY <1>2, <1>4
<1>6. LineInv' /\ WriteInv' /\ pc' \in [Calls -> Places]
  <2>1. "scan" \in Places
    BY DEF Places
  <2>2. QED
    BY <1>1, <1>5, <2>1, DriverGoto
<1>7. KindInv'
  BY <1>1, <1>5, <1>6 DEF IInv, KindInv, serial, driver
<1>8. QED
  BY <1>3, <1>5, <1>6, <1>7 DEF IInv

LEMMA ScanKeeps ==
    ASSUME IInv, NEW c \in InfoCalls, Scan(c)
    PROVE  IInv'
<1>1. PICK l \in {"copy", "store"} : Goto(c, l)
  BY DEF Scan
<1>2. UNCHANGED <<fd, unsent, reply, serial, device, file, buffer, seen, faults>>
  BY DEF Scan
<1>3. LineInv' /\ WriteInv' /\ pc' \in [Calls -> Places]
  <2>1. l \in Places
    BY DEF Places
  <2>2. QED
    BY <1>1, <1>2, <2>1, DriverGoto
<1>4. scanned' \in [InfoCalls -> Files]
  BY DEF IInv, KindInv, Scan
<1>5. KindInv'
  BY <1>2, <1>3, <1>4 DEF IInv, KindInv, serial
<1>6. QED
  BY <1>3, <1>5 DEF IInv

LEMMA StoreKeeps ==
    ASSUME IInv, NEW c \in InfoCalls, StoreBegin(c) \/ StoreEnd(c)
    PROVE  IInv'
<1>1. PICK l \in {"storing", "copy"} : Goto(c, l)
  BY DEF StoreBegin, StoreEnd
<1>2. UNCHANGED <<fd, unsent, reply, serial, device, file, scanned, seen, faults>>
  BY DEF StoreBegin, StoreEnd
<1>3. LineInv' /\ WriteInv' /\ pc' \in [Calls -> Places]
  <2>1. l \in Places
    BY DEF Places
  <2>2. QED
    BY <1>1, <1>2, <2>1, DriverGoto
<1>4. buffer' \in Words
  <2>1. scanned[c] \in Files
    BY DEF IInv, KindInv
  <2>2. buffer' = Torn \/ buffer' = FirstWord(scanned[c])
    BY DEF StoreBegin, StoreEnd
  <2>3. QED
    BY <2>1, <2>2 DEF Words
<1>5. KindInv'
  BY <1>2, <1>3, <1>4 DEF IInv, KindInv, serial
<1>6. QED
  BY <1>3, <1>5 DEF IInv

LEMMA CopyBufferKeeps ==
    ASSUME IInv, NEW c \in InfoCalls, CopyBuffer(c)
    PROVE  IInv'
<1>1. /\ Return(c, buffer) /\ UNCHANGED <<fd, unsent, serial, driver, faults>>
      /\ c \in Calls /\ KindInv
  BY DEF CopyBuffer, Calls, IInv
<1>2. buffer \in Replies
  BY <1>1 DEF KindInv, Replies
<1>3. /\ pc' \in [Calls -> Places] /\ reply' \in [Calls -> Replies]
      /\ \A d \in Calls \ {c} : pc'[d] = pc[d] /\ reply'[d] = reply[d]
  BY <1>1, <1>2, ReturnKind
<1>4. LineInv' /\ WriteInv'
  BY <1>1, <1>3, DriverFrame
<1>5. KindInv'
  BY <1>1, <1>3 DEF KindInv, serial, driver
<1>6. QED
  BY <1>4, <1>5 DEF IInv

-----------------------------------------------------------------------------
(* The environment.                                                        *)

LEMMA QuietKeeps ==
    ASSUME IInv, \/ SocatStart \/ PeerConnects
                 \/ \E m \in Messages : PeerEnds(m)
    PROVE  IInv'
<1>1. UNCHANGED <<pc, fd, unsent, reply, wire, rx, tx, delivered, offered, driver, faults>>
  BY DEF SocatStart, PeerConnects, PeerEnds
<1>2. /\ pty' \in {"absent", "up", "gone"}
      /\ children' \in SUBSET (Messages \cup {Listener})
  <2>1. /\ pty \in {"absent", "up", "gone"}
        /\ children \in SUBSET (Messages \cup {Listener})
    BY DEF IInv, KindInv
  <2>2. /\ pty' \in {pty, "up"}
        /\ children' \subseteq children \cup {Listener}
    BY DEF SocatStart, PeerConnects, PeerEnds
  <2>3. QED
    BY <2>1, <2>2
<1>3. KindInv'
  BY <1>1, <1>2 DEF IInv, KindInv, driver
<1>4. LineInv'
  BY <1>1, LineFrame DEF IInv
<1>5. WriteInv'
  BY <1>1, WriteFrame DEF IInv
<1>6. QED
  BY <1>3, <1>4, <1>5 DEF IInv

LEMMA DeviceChangesKeeps ==
    ASSUME IInv, DeviceChanges
    PROVE  IInv'
<1>1. /\ faults.change < MaxDeviceChanges /\ faults' = [faults EXCEPT !.change = @ + 1]
      /\ device' \in Bodies
      /\ UNCHANGED <<pc, fd, unsent, reply, serial, file, buffer, scanned>>
  BY DEF DeviceChanges
<1>2. /\ faults \in [curl : 0..MaxCurlFails, hangup : 0..MaxHangups,
                     change : 0..MaxDeviceChanges]
      /\ MaxDeviceChanges \in Nat
  BY ConfigAssumption DEF IInv, KindInv
<1>3. PICK n \in 0..MaxDeviceChanges : n = faults.change + 1
  <2>1. faults.change \in 0..MaxDeviceChanges
    BY <1>2
  <2>2. QED
    BY <1>1, <1>2, <2>1
<1>4. faults' = [faults EXCEPT !.change = n]
  BY <1>1, <1>3
<1>5. /\ faults' \in [curl : 0..MaxCurlFails, hangup : 0..MaxHangups,
                      change : 0..MaxDeviceChanges]
      /\ faults'.hangup = faults.hangup
  BY <1>2, <1>4
<1>6. seen' \in [InfoCalls -> SUBSET Bodies]
  <2>1. seen \in [InfoCalls -> SUBSET Bodies]
    BY DEF IInv, KindInv
  <2>2. \A c \in InfoCalls : seen[c] \cup {device'} \in SUBSET Bodies
    BY <1>1, <2>1
  <2>3. QED
    BY <2>1, <2>2 DEF DeviceChanges
<1>7. KindInv'
  BY <1>1, <1>5, <1>6 DEF IInv, KindInv, serial
<1>8. LineInv'
  BY <1>1, LineFrame DEF IInv, serial
<1>9. WriteInv'
  BY <1>1, <1>5, WriteFrame DEF IInv, serial
<1>10. QED
  BY <1>7, <1>8, <1>9 DEF IInv

LEMMA SocatForwardsKeeps ==
    ASSUME IInv, NEW m \in Messages, SocatForwards(m)
    PROVE  IInv'
<1>1. /\ UNCHANGED <<pc, fd, unsent, reply, pty, tx, delivered, children, offered, driver, faults>>
      /\ KindInv /\ LineInv
  BY DEF SocatForwards, IInv
<1>2. PICK w \in Seq(Symbols), s \in Seq(Symbols), o \in SUBSET Messages :
         w = wire[m] /\ s = rx /\ o = offered
  BY <1>1 DEF KindInv
<1>3. PICK k \in 1..(FragsPerMsg + 2) : w = Rest(m, k) /\ Upto(s, m, k)
  BY <1>1, <1>2 DEF LineInv, SentAt
<1>4. PICK n \in 1..Len(w) :
         /\ rx' = s \o SubSeq(w, 1, n)
         /\ wire' = [wire EXCEPT ![m] = SubSeq(w, n + 1, Len(w))]
  BY <1>2 DEF SocatForwards
<1>5. FragsPerMsg \in Nat /\ Len(s) \in Nat /\ k \in Nat /\ k >= 1
  BY ConfigAssumption
<1>6. /\ Len(w) = (FragsPerMsg + 2) - k
      /\ \A i \in 1..((FragsPerMsg + 2) - k) : w[i] = Frame(m)[(k + i) - 1]
  <2>1. 0 \in 0..((FragsPerMsg + 2) - k)
    BY <1>5
  <2>2. QED
    BY <1>3, <2>1, RestAfter
<1>7. n \in 0..((FragsPerMsg + 2) - k) /\ n \in Nat /\ n <= Len(w) /\ n >= 1
  BY <1>5, <1>6
<1>8. PICK h \in 1..(FragsPerMsg + 2) : h = k + n
  BY <1>5, <1>7
<1>9. SubSeq(w, n + 1, Len(w)) = Rest(m, h) /\ Rest(m, h) \in Seq(Symbols)
  <2>1. SubSeq(Rest(m, k), n + 1, (FragsPerMsg + 2) - k) = Rest(m, k + n)
    BY <1>7, RestAfter
  <2>2. 0 \in 0..((FragsPerMsg + 2) - h)
    BY <1>5
  <2>3. Rest(m, h) \in Seq(Symbols)
    BY <2>2, RestAfter
  <2>4. QED
    BY <1>3, <1>6, <1>8, <2>1, <2>3
<1>10. /\ wire' \in [Messages -> Seq(Symbols)] /\ wire'[m] = Rest(m, h)
       /\ \A x \in Messages \ {m} : wire'[x] = wire[x]
  BY <1>1, <1>4, <1>9 DEF KindInv
<1>11. PICK front \in Seq(Symbols) : front = SubSeq(w, 1, n)
  <2>1. SubSeq(w, 1, n) \in Seq(Symbols)
    BY <1>7
  <2>2. QED
    BY <2>1
<1>12. Len(front) = n /\ \A i \in 1..n : front[i] = w[i]
  BY <1>7, <1>11
<1>13. PICK t \in Seq(Symbols) : t = s \o front /\ t = rx'
  <2>1. s \o front \in Seq(Symbols)
    OBVIOUS
  <2>2. QED
    BY <1>4, <1>11, <2>1
<1>14. /\ Len(t) = Len(s) + n
       /\ \A i \in 1..(Len(s) + n) : t[i] = IF i <= Len(s) THEN s[i] ELSE front[i - Len(s)]
  <2>1. /\ Len(t) = Len(s) + Len(front)
        /\ \A i \in 1..(Len(s) + Len(front)) :
              t[i] = IF i <= Len(s) THEN s[i] ELSE front[i - Len(s)]
    BY <1>13, ConcatProperties
  <2>2. QED
    BY <1>12, <2>1
<1>15. \A i \in 1..Len(s) : t[i] = s[i]
  <2>1. ASSUME NEW i \in 1..Len(s) PROVE i \in 1..(Len(s) + n) /\ i <= Len(s)
    BY <1>5, <1>7
  <2>2. QED
    BY <1>14, <2>1
<1>16. ASSUME NEW i \in 1..n PROVE t[Len(s) + i] = Frame(m)[(k + i) - 1]
  <2>1. /\ Len(s) + i \in 1..(Len(s) + n) /\ ~ (Len(s) + i <= Len(s))
        /\ (Len(s) + i) - Len(s) = i /\ i \in 1..((FragsPerMsg + 2) - k)
    BY <1>5, <1>6, <1>7
  <2>2. t[Len(s) + i] = front[i]
    BY <1>14, <2>1
  <2>3. QED
    BY <1>6, <1>12, <2>1, <2>2
<1>17. FromMessages(s, o) /\ Ordered(s)
  BY <1>1, <1>2 DEF LineInv
<1>18. /\ Ordered(t) /\ Upto(t, m, h)
       /\ \A x \in Messages \ {m}, g \in 1..(FragsPerMsg + 2) :
             Upto(s, x, g) => Upto(t, x, g)
  <2>1. Extends(s, t, m, k, n)
    BY <1>14, <1>15, <1>16 DEF Extends
  <2>2. QED
    BY <1>3, <1>7, <1>8, <1>17, <2>1, LineForward
<1>19. FromMessages(t, o)
  <2>1. m \in o
    <3>1. CASE m \in offered
      BY <1>2, <3>1
    <3>2. CASE m \notin offered
      <4>1. wire[m] = <<>>
        BY <1>1, <3>2 DEF LineInv
      <4>2. QED
        BY <4>1 DEF SocatForwards
    <3>3. QED
      BY <3>1, <3>2
  <2>2. ASSUME NEW i \in 1..Len(t) PROVE t[i] = NUL \/ t[i] \in o \X (1..FragsPerMsg)
    <3>1. CASE i \in 1..Len(s)
      BY <1>15, <1>17, <3>1 DEF FromMessages
    <3>2. CASE ~ (i \in 1..Len(s))
      <4>1. PICK j \in 1..n : i = Len(s) + j
        <5>1. i - Len(s) \in 1..n /\ i = Len(s) + (i - Len(s))
          BY <1>5, <1>7, <1>14, <3>2
        <5>2. QED
          BY <5>1
      <4>2. PICK p \in 1..(FragsPerMsg + 1) : p = (k + j) - 1
        BY <1>5, <1>7
      <4>3. t[i] = Frame(m)[p]
        BY <1>16, <4>1, <4>2
      <4>4. CASE p = FragsPerMsg + 1
        BY <4>3, <4>4, FrameSeq
      <4>5. CASE p # FragsPerMsg + 1
        <5>1. p \in 1..FragsPerMsg
          BY <1>5, <4>5
        <5>2. t[i] = <<m, p>>
          BY <4>3, <5>1, FrameSeq
        <5>3. QED
          BY <2>1, <5>1, <5>2
      <4>6. QED
        BY <4>4, <4>5
    <3>3. QED
      BY <3>1, <3>2
  <2>3. QED
    BY <2>2 DEF FromMessages
<1>20. KindInv'
  BY <1>1, <1>10, <1>13 DEF KindInv, driver
<1>21. WriteInv'
  BY <1>1, WriteFrame DEF IInv
<1>22. LineInv'
  <2>1. ASSUME NEW x \in Messages
        PROVE  \E g \in 1..(FragsPerMsg + 2) : SentAt(x, g)'
    <3>1. CASE x = m
      <4>1. SentAt(m, h)'
        BY <1>10, <1>13, <1>18 DEF SentAt
      <4>2. QED
        BY <3>1, <4>1
    <3>2. CASE x # m
      <4>1. PICK g \in 1..(FragsPerMsg + 2) : SentAt(x, g)
        BY <1>1 DEF LineInv
      <4>2. Upto(t, x, g) /\ wire'[x] = Rest(x, g)
        BY <1>2, <1>10, <1>18, <3>2, <4>1 DEF SentAt
      <4>3. QED
        BY <1>13, <4>2 DEF SentAt
    <3>3. QED
      BY <3>1, <3>2
  <2>2. FromMessages(rx, offered)' /\ Ordered(rx)'
    BY <1>1, <1>2, <1>13, <1>18, <1>19
  <2>3. \A c \in ReadCalls : (ReadText(c) \in Text)' /\ InOrder(ReadText(c), offered)'
    <3>1. \A c \in ReadCalls : ReadText(c)' = ReadText(c)
      BY <1>1 DEF ReadText
    <3>2. QED
      BY <1>1, <3>1 DEF LineInv
  <2>4. ASSUME NEW x \in Messages \ offered PROVE wire'[x] = <<>>
    <3>1. wire[x] = <<>>
      BY <1>1 DEF LineInv
    <3>2. x # m
      BY <3>1 DEF SocatForwards
    <3>3. QED
      BY <1>10, <3>1, <3>2
  <2>5. QED
    BY <1>1, <2>1, <2>2, <2>3, <2>4 DEF LineInv
<1>23. QED
  BY <1>20, <1>21, <1>22 DEF IInv

LEMMA SocatDrainsKeeps ==
    ASSUME IInv, SocatDrains
    PROVE  IInv'
<1>1. /\ UNCHANGED <<pc, fd, unsent, reply, pty, wire, rx, children, offered, driver, faults>>
      /\ delivered' = delivered \o tx /\ tx' = <<>>
  BY DEF SocatDrains
<1>2. PICK s \in Seq(Symbols), e \in Seq(Symbols) : s = delivered \o tx /\ e = <<>>
  <2>1. delivered \o tx \in Seq(Symbols)
    BY DEF IInv, KindInv
  <2>2. <<>> \in Seq(Symbols)
    OBVIOUS
  <2>3. QED
    BY <2>1, <2>2, Zenon
<1>3. delivered' = s /\ tx' = e
  BY <1>1, <1>2
<1>4. s \o e = s /\ Len(e) = 0
  BY <1>2, ConcatEmptySeq
<1>5. KindInv'
  BY <1>1, <1>3 DEF IInv, KindInv, driver
<1>6. LineInv'
  BY <1>1, LineFrame DEF IInv
<1>7. WriteInv'
  <2>1. delivered' \o tx' = delivered \o tx
    BY <1>2, <1>3, <1>4, Zenon
  <2>2. Len(tx') <= TxCap
    BY <1>3, <1>4, ConfigAssumption
  <2>3. QED
    BY <1>1, <2>1, <2>2, WriteSame DEF IInv
<1>8. QED
  BY <1>5, <1>6, <1>7 DEF IInv

LEMMA PeerSendsKeeps ==
    ASSUME IInv, NEW m \in Messages, PeerSends(m)
    PROVE  IInv'
<1>1. /\ UNCHANGED <<pc, fd, unsent, reply, pty, rx, tx, delivered, driver, faults>>
      /\ m \notin offered /\ offered' = offered \cup {m}
      /\ wire' = [wire EXCEPT ![m] = Frame(m)] /\ children' = children \cup {m}
      /\ KindInv /\ LineInv
  BY DEF PeerSends, IInv
<1>2. PICK f \in Seq(Symbols) : f = Frame(m) /\ Len(f) = FragsPerMsg + 1
  BY FrameSeq
<1>3. /\ wire' \in [Messages -> Seq(Symbols)] /\ wire'[m] = f
      /\ \A x \in Messages \ {m} : wire'[x] = wire[x]
  BY <1>1, <1>2 DEF KindInv
<1>4. KindInv'
  <2>1. offered' \in SUBSET Messages /\ children' \in SUBSET (Messages \cup {Listener})
    BY <1>1 DEF KindInv
  <2>2. QED
    BY <1>1, <1>3, <2>1 DEF KindInv, driver
<1>5. WriteInv'
  BY <1>1, WriteFrame DEF IInv
<1>6. FromMessages(rx, offered)' /\ Ordered(rx)'
  <2>1. \A y : y \in offered \X (1..FragsPerMsg) => y \in offered' \X (1..FragsPerMsg)
    BY <1>1
  <2>2. FromMessages(rx, offered)'
    BY <1>1, <2>1 DEF LineInv, FromMessages
  <2>3. Ordered(rx)'
    BY <1>1 DEF LineInv
  <2>4. QED
    BY <2>2, <2>3
<1>7. SentAt(m, 1)'
  <2>1. Rest(m, 1) = f
    BY <1>2, SubSeqFull DEF Rest
  <2>2. ASSUME NEW i \in 1..Len(rx), NEW a \in 1..FragsPerMsg, rx[i] = <<m, a>>
        PROVE  FALSE
    <3>1. rx[i] = NUL \/ rx[i] \in offered \X (1..FragsPerMsg)
      BY <1>1 DEF LineInv, FromMessages
    <3>2. QED
      BY <1>1, <2>2, <3>1, MarkersApart
  <2>3. Upto(rx, m, 1)
    BY <2>2 DEF Upto
  <2>4. QED
    BY <1>1, <1>3, <2>1, <2>3 DEF SentAt
<1>8. ASSUME NEW x \in Messages PROVE \E k \in 1..(FragsPerMsg + 2) : SentAt(x, k)'
  <2>1. CASE x = m
    <3>1. 1 \in 1..(FragsPerMsg + 2)
      BY ConfigAssumption
    <3>2. QED
      BY <1>7, <2>1, <3>1
  <2>2. CASE x # m
    <3>1. PICK k \in 1..(FragsPerMsg + 2) : SentAt(x, k)
      BY <1>1 DEF LineInv
    <3>2. SentAt(x, k)'
      BY <1>1, <1>3, <2>2, <3>1 DEF SentAt
    <3>3. QED
      BY <3>2
  <2>3. QED
    BY <2>1, <2>2
<1>9. ASSUME NEW c \in ReadCalls
      PROVE  (ReadText(c) \in Text)' /\ InOrder(ReadText(c), offered)'
  <2>1. PICK t : t = ReadText(c) /\ t = ReadText(c)'
    BY <1>1 DEF ReadText
  <2>2. t \in Text /\ InOrder(t, offered)
    BY <1>1, <2>1 DEF LineInv
  <2>3. \A y : y \in offered \X (1..FragsPerMsg) => y \in offered' \X (1..FragsPerMsg)
    BY <1>1
  <2>4. InOrder(t, offered')
    BY <2>2, <2>3 DEF InOrder
  <2>5. QED
    BY <2>1, <2>2, <2>4
<1>10. \A x \in Messages \ offered' : wire'[x] = <<>>
  BY <1>1, <1>3 DEF LineInv
<1>11. LineInv'
  BY <1>6, <1>8, <1>9, <1>10 DEF LineInv
<1>12. QED
  BY <1>4, <1>5, <1>11 DEF IInv

LEMMA SocatDiesKeeps ==
    ASSUME IInv, SocatDies
    PROVE  IInv'
<1>1. /\ faults.hangup < MaxHangups /\ faults' = [faults EXCEPT !.hangup = @ + 1]
      /\ pty' = "gone" /\ children' = {} /\ rx' = <<>> /\ tx' = <<>>
      /\ wire' = [m \in Messages |-> <<>>]
      /\ UNCHANGED <<pc, unsent, reply, delivered, offered, driver>>
  BY DEF SocatDies
<1>2. /\ faults \in [curl : 0..MaxCurlFails, hangup : 0..MaxHangups,
                     change : 0..MaxDeviceChanges]
      /\ MaxHangups \in Nat
  BY ConfigAssumption DEF IInv, KindInv
<1>3. PICK n \in 0..MaxHangups : n = faults.hangup + 1 /\ n # 0
  <2>1. faults.hangup \in 0..MaxHangups
    BY <1>2
  <2>2. QED
    BY <1>1, <1>2, <2>1
<1>4. faults' = [faults EXCEPT !.hangup = n]
  BY <1>1, <1>3
<1>5. /\ faults' \in [curl : 0..MaxCurlFails, hangup : 0..MaxHangups,
                      change : 0..MaxDeviceChanges]
      /\ faults'.hangup = n
  BY <1>2, <1>4
<1>6. fd' \in [Calls -> FdStates]
  BY DEF SocatDies, IInv, KindInv, FdStates
<1>7. PICK e \in Seq(Symbols) : e = <<>> /\ Len(e) = 0
  <2>1. <<>> \in Seq(Symbols) /\ Len(<<>>) = 0
    OBVIOUS
  <2>2. QED
    BY <2>1, Zenon
<1>8. KindInv'
  <2>1. pty' \in {"absent", "up", "gone"}
    BY <1>1
  <2>2. children' \in SUBSET (Messages \cup {Listener})
    BY <1>1
  <2>3. wire' \in [Messages -> Seq(Symbols)] /\ rx' \in Seq(Symbols) /\ tx' \in Seq(Symbols)
    BY <1>1, <1>7
  <2>4. QED
    BY <1>1, <1>5, <1>6, <2>1, <2>2, <2>3 DEF IInv, KindInv, driver
<1>9. LineInv'
  <2>1. \A p \in 1..Len(e) : FALSE
    BY <1>7
  <2>2. \A o : FromMessages(e, o) /\ InOrder(e, o)
    BY <2>1 DEF FromMessages, InOrder, Ordered
  <2>3. Ordered(e) /\ \A m, k : Upto(e, m, k)
    BY <2>1 DEF Ordered, Upto
  <2>4. FragsPerMsg + 2 \in 1..(FragsPerMsg + 2)
    BY ConfigAssumption
  <2>5. \A m : Rest(m, FragsPerMsg + 2) = <<>>
    <3>1. FragsPerMsg + 2 \in Int /\ FragsPerMsg + 1 \in Int /\ FragsPerMsg + 1 < FragsPerMsg + 2
      BY ConfigAssumption
    <3>2. QED
      BY <3>1, SubSeqEmpty DEF Rest
  <2>6. \A m \in Messages : SentAt(m, FragsPerMsg + 2)'
    BY <1>1, <1>7, <2>3, <2>5 DEF SentAt
  <2>7. FromMessages(rx, offered)' /\ Ordered(rx)'
    BY <1>1, <1>7, <2>2, <2>3
  <2>8. \A c \in ReadCalls : (ReadText(c) \in Text)' /\ InOrder(ReadText(c), offered)'
    <3>1. \A c \in ReadCalls : ReadText(c)' = ReadText(c)
      BY <1>1 DEF ReadText
    <3>2. QED
      BY <1>1, <3>1 DEF IInv, LineInv
  <2>9. \A m \in Messages \ offered' : wire'[m] = <<>>
    BY <1>1
  <2>10. QED
    BY <2>4, <2>6, <2>7, <2>8, <2>9 DEF LineInv
<1>10. WriteInv'
  <2>1. Len(tx') <= TxCap
    BY <1>1, <1>7, ConfigAssumption
  <2>2. faults'.hangup # 0
    BY <1>3, <1>5
  <2>3. ASSUME NEW c \in WriteCalls
        PROVE  \E k \in 1..(FragsPerMsg + 2) : WriterAt(c, k)'
    <3>1. PICK k \in 1..(FragsPerMsg + 2) : WriterAt(c, k)
      BY DEF IInv, WriteInv
    <3>2. WriterAt(c, k)'
      BY <1>1, <2>2, <3>1 DEF WriterAt
    <3>3. QED
      BY <3>2
  <2>4. QED
    BY <1>1, <2>1, <2>2, <2>3 DEF IInv, WriteInv
<1>11. QED
  BY <1>8, <1>9, <1>10 DEF IInv

-----------------------------------------------------------------------------
(* The theorems about the serial port.                                     *)

LEMMA InitKeeps ==
    ASSUME Init
    PROVE  IInv
<1>1. PICK e \in Seq(Symbols) : e = <<>> /\ Len(e) = 0
  <2>1. <<>> \in Seq(Symbols) /\ Len(<<>>) = 0
    OBVIOUS
  <2>2. QED
    BY <2>1, Zenon
<1>2. KindInv
  <2>1. pc \in [Calls -> Places] /\ fd \in [Calls -> FdStates]
    BY DEF Init, Places, FdStates
  <2>2. unsent \in [WriteCalls -> Seq(Symbols)]
    BY <1>1 DEF Init
  <2>3. reply \in [Calls -> Replies]
    BY DEF Init, Replies
  <2>4. pty \in {"absent", "up", "gone"}
    BY DEF Init
  <2>5. children \in SUBSET (Messages \cup {Listener})
    BY DEF Init
  <2>6. /\ wire \in [Messages -> Seq(Symbols)] /\ rx \in Seq(Symbols)
        /\ tx \in Seq(Symbols) /\ delivered \in Seq(Symbols)
    BY <1>1 DEF Init
  <2>7. offered \in SUBSET Messages /\ device \in Bodies /\ file \in Files
    BY DEF Init, Files
  <2>8. buffer \in Words
    <3>1. EmptyString = FirstWord(<<>>) /\ <<>> \in Files
      BY DEF FirstWord, Files
    <3>2. QED
      BY <3>1 DEF Init, Words
  <2>9. scanned \in [InfoCalls -> Files] /\ seen \in [InfoCalls -> SUBSET Bodies]
    BY DEF Init, Files
  <2>10. faults \in [curl : 0..MaxCurlFails, hangup : 0..MaxHangups,
                     change : 0..MaxDeviceChanges]
    BY ConfigAssumption DEF Init
  <2>11. QED
    BY <2>1, <2>2, <2>3, <2>4, <2>5, <2>6, <2>7, <2>8, <2>9, <2>10 DEF KindInv
<1>3. LineInv
  <2>1. \A p \in 1..Len(e) : FALSE
    BY <1>1
  <2>2. \A o : FromMessages(e, o) /\ InOrder(e, o)
    BY <2>1 DEF FromMessages, InOrder, Ordered
  <2>3. Ordered(e) /\ \A m, k : Upto(e, m, k)
    BY <2>1 DEF Ordered, Upto
  <2>4. FragsPerMsg + 2 \in 1..(FragsPerMsg + 2)
    BY ConfigAssumption
  <2>5. \A m : Rest(m, FragsPerMsg + 2) = <<>>
    <3>1. FragsPerMsg + 2 \in Int /\ FragsPerMsg + 1 \in Int /\ FragsPerMsg + 1 < FragsPerMsg + 2
      BY ConfigAssumption
    <3>2. QED
      BY <3>1, SubSeqEmpty DEF Rest
  <2>6. \A m \in Messages : SentAt(m, FragsPerMsg + 2)
    BY <1>1, <2>3, <2>5 DEF Init, SentAt
  <2>7. FromMessages(rx, offered) /\ Ordered(rx)
    BY <1>1, <2>2, <2>3 DEF Init
  <2>8. \A c \in ReadCalls : ReadText(c) = e
    BY <1>1 DEF Init, ReadText, Calls
  <2>9. e \in Text
    <3>1. <<>> \in Text
      BY DEF Text
    <3>2. QED
      BY <1>1, <3>1
  <2>10. \A m \in Messages \ offered : wire[m] = <<>>
    BY DEF Init
  <2>11. QED
    BY <2>2, <2>4, <2>6, <2>7, <2>8, <2>9, <2>10 DEF LineInv
<1>4. WriteInv
  <2>1. FragsPerMsg \in Nat /\ TxCap \in Nat
    BY ConfigAssumption
  <2>2. FragsPerMsg + 2 \in 1..(FragsPerMsg + 2) /\ FragsPerMsg + 2 \in Int
        /\ FragsPerMsg + 1 \in Int /\ FragsPerMsg + 1 < FragsPerMsg + 2
    BY <2>1
  <2>3. ASSUME NEW c \in WriteCalls
        PROVE  /\ WriterAt(c, FragsPerMsg + 2) /\ pc[c] = "start" /\ reply[c] = NoReply
    <3>1. Rest(c, FragsPerMsg + 2) = <<>>
      BY <2>2, SubSeqEmpty DEF Rest
    <3>2. pc[c] = "start" /\ reply[c] = NoReply /\ unsent[c] = <<>>
      BY DEF Init, Calls
    <3>3. QED
      BY <3>1, <3>2 DEF WriterAt
  <2>4. Len(tx) <= TxCap
    BY <1>1, <2>1 DEF Init
  <2>5. QED
    BY <2>2, <2>3, <2>4 DEF WriteInv
<1>5. QED
  BY <1>2, <1>3, <1>4 DEF IInv

LEMMA StepKeeps ==
    ASSUME IInv, [Next]_vars
    PROVE  IInv'
<1>1. CASE \E c \in Calls : ClientCast(c) \/ Server(c)
  <2>1. PICK c \in Calls : ClientCast(c) \/ Server(c)
    BY <1>1
  <2>2. CASE ClientCast(c) \/ DispatchIsA(c)
    BY <2>2, CastKeeps
  <2>3. CASE DispatchCall(c)
    BY <2>3, DispatchCallKeeps
  <2>4. CASE c \in ReadCalls \cup WriteCalls /\ Open(c)
    BY <2>4, OpenKeeps
  <2>5. CASE c \in ReadCalls /\ (ReadData(c) \/ ReadFails(c))
    BY <2>5, ReadDataKeeps, ReadFailsKeeps
  <2>6. CASE c \in WriteCalls /\ (WriteSome(c) \/ WriteFails(c))
    BY <2>6, WriteSomeKeeps, WriteFailsKeeps
  <2>7. CASE c \in InfoCalls /\ (TruncateFile(c) \/ Scan(c)
                                 \/ StoreBegin(c) \/ StoreEnd(c) \/ CopyBuffer(c))
    BY <2>7, FetchKeeps, ScanKeeps, StoreKeeps, CopyBufferKeeps
  <2>8. QED
    BY <2>1, <2>2, <2>3, <2>4, <2>5, <2>6, <2>7 DEF Server
<1>f. CASE \E c \in InfoCalls : Fetch(c)
  BY <1>f, FetchKeeps, FetchFailsKeeps DEF Fetch
<1>2. CASE SocatStart \/ PeerConnects \/ \E m \in Messages : PeerEnds(m)
  BY <1>2, QuietKeeps
<1>3. CASE SocatDies
  BY <1>3, SocatDiesKeeps
<1>4. CASE \E m \in Messages : SocatForwards(m)
  BY <1>4, SocatForwardsKeeps
<1>5. CASE SocatDrains
  BY <1>5, SocatDrainsKeeps
<1>6. CASE DeviceChanges
  BY <1>6, DeviceChangesKeeps
<1>7. CASE \E m \in Messages : PeerSends(m)
  BY <1>7, PeerSendsKeeps
<1>8. CASE UNCHANGED vars
  <2>1. KindInv'
    BY <1>8 DEF IInv, KindInv, vars, serial, driver
  <2>2. LineInv'
    BY <1>8, LineFrame DEF IInv, vars, serial
  <2>3. WriteInv'
    BY <1>8, WriteFrame DEF IInv, vars, serial
  <2>4. QED
    BY <2>1, <2>2, <2>3 DEF IInv
<1>9. QED
  BY <1>1, <1>f, <1>2, <1>3, <1>4, <1>5, <1>6, <1>7, <1>8 DEF Next, Environment

\* The invariant the theorems about the serial port follow from.
THEOREM Invariance == Spec => []IInv
BY InitKeeps, StepKeeps, PTL DEF Spec

\* Every variable keeps its kind; the terminal never holds more than it can,
\* and what a writer has left is always the rest of its own message.
THEOREM TypeCorrect == Spec => []TypeOK
<1>1. IInv => TypeOK
  <2>1. SUFFICES ASSUME IInv PROVE TypeOK
    OBVIOUS
  <2>2. \A c \in WriteCalls : \E k \in 1..(FragsPerMsg + 2) :
           unsent[c] \in {<<>>, SubSeq(Frame(c), k, FragsPerMsg + 1)}
    BY <2>1 DEF IInv, WriteInv, WriterAt, Rest
  <2>3. \A s \in {rx, tx, delivered} \cup {wire[m] : m \in Messages} :
           \A i \in 1..Len(s) : s[i] \in Symbols
    <3>1. \A s \in {rx, tx, delivered} \cup {wire[m] : m \in Messages} : s \in Seq(Symbols)
      BY <2>1 DEF IInv, KindInv
    <3>2. QED
      BY <3>1, ElementOfSeq
  <2>4. /\ faults.curl <= MaxCurlFails /\ faults.hangup <= MaxHangups
        /\ faults.change <= MaxDeviceChanges
    <3>1. /\ faults.curl \in 0..MaxCurlFails /\ faults.hangup \in 0..MaxHangups
          /\ faults.change \in 0..MaxDeviceChanges
      BY <2>1 DEF IInv, KindInv
    <3>2. QED
      BY <3>1, ConfigAssumption
  <2>5. pc \in [Calls -> {"start", "casting", "queued", "open", "read", "write",
                          "truncate", "fetch", "scan", "store", "storing", "copy",
                          "done"}]
    BY <2>1 DEF IInv, KindInv, Places
  <2>6. fd \in [Calls -> {"none", "ok", "bad", "hup"}]
    BY <2>1 DEF IInv, KindInv, FdStates
  <2>7. /\ pty \in {"absent", "up", "gone"} /\ children \subseteq Messages \cup {Listener}
        /\ offered \subseteq Messages /\ device \in Bodies
        /\ \A c \in InfoCalls : seen[c] \subseteq Bodies
    BY <2>1 DEF IInv, KindInv
  <2>8. Len(tx) <= TxCap /\ \A c \in WriteCalls : reply[c] \in {NoReply, "ack"}
    BY <2>1 DEF IInv, WriteInv
  <2>9. QED
    BY <2>2, <2>3, <2>4, <2>5, <2>6, <2>7, <2>8 DEF TypeOK
<1>2. QED
  BY <1>1, Invariance, PTL

\* What readSerialPort returns is in order: of each message an unbroken run of
\* fragments, for messages and buffers of any size, any number of readers and
\* any way socat's processes cut and mix the data; nothing but serial data is
\* returned unless read_buf was full.
THEOREM ReplyOrdered == Spec => []ReplyInOrder
<1>1. IInv => ReplyInOrder
  BY DEF IInv, LineInv, InOrder, ReplyInOrder
<1>2. QED
  BY <1>1, Invariance, PTL

\* A writeSerialPort that was answered has put its whole message, NUL included
\* and in one piece, on the line, whoever else writes and however small the
\* terminal's buffer is, unless the terminal was hung up.
THEOREM WriteWhole == Spec => []AckedWriteIsWhole
<1>1. IInv => AckedWriteIsWhole
  <2>1. SUFFICES ASSUME IInv, faults.hangup = 0, NEW c \in WriteCalls,
                        reply[c] = "ack", fd[c] = "ok"
                 PROVE  Contains(delivered \o tx, Frame(c))
    BY DEF AckedWriteIsWhole
  <2>2. pc[c] = "done"
    BY <2>1, MarkersAssumption DEF IInv, WriteInv
  <2>3. QED
    BY <2>1, <2>2 DEF IInv, WriteInv
<1>2. QED
  BY <1>1, Invariance, PTL

-----------------------------------------------------------------------------
(* Device info with one pool thread.                                       *)

Outside == {"start", "casting", "queued", "done"}

\* A call is dispatched when no other is in a servant.
LEMMA FreeIsIdle ==
    ASSUME PoolSize = 1, IsFiniteSet(Busy), ThreadFree
    PROVE  \A c \in Calls : ~ InServant(c)
<1>1. Cardinality(Busy) \in Nat /\ (Cardinality(Busy) = 0 <=> Busy = {})
  BY FS_CardinalityType, FS_EmptySet
<1>2. Cardinality(Busy) < 1
  BY DEF ThreadFree, Busy
<1>3. Busy = {}
  BY <1>1, <1>2
<1>4. QED
  BY <1>3 DEF Busy

\* So at most one call is in a servant.
LEMMA OneStays ==
    ASSUME IsFiniteSet(Busy), OneInServant, NEW c \in Calls,
           \A d \in Calls \ {c} : pc'[d] = pc[d],
           \/ InServant(c)
           \/ pc'[c] \in Outside
           \/ \A d \in Calls : ~ InServant(d)
    PROVE  IsFiniteSet(Busy)' /\ OneInServant'
<1>1. \A d \in Calls \ {c} : InServant(d)' = InServant(d)
  BY DEF InServant
<1>2. pc'[c] \in Outside => ~ InServant(c)'
  BY DEF InServant, Outside
<1>3. IsFiniteSet(Busy')
  <2>1. Busy' \subseteq Busy \cup {c}
    BY <1>1 DEF Busy
  <2>2. IsFiniteSet(Busy \cup {c})
    BY FS_AddElement
  <2>3. QED
    BY <2>1, <2>2, FS_Subset
<1>4. OneInServant'
  <2>1. SUFFICES ASSUME NEW d \in Calls, NEW e \in Calls, InServant(d)', InServant(e)'
                 PROVE  d = e
    BY DEF OneInServant
  <2>2. CASE d # c /\ e # c
    <3>1. InServant(d) /\ InServant(e)
      BY <1>1, <2>1, <2>2
    <3>2. QED
      BY <3>1 DEF OneInServant
  <2>3. CASE d = c /\ e # c
    <3>1. InServant(e) /\ pc'[c] \notin Outside
      BY <1>1, <1>2, <2>1, <2>3
    <3>2. InServant(c)
      BY <3>1
    <3>3. QED
      BY <2>3, <3>1, <3>2 DEF OneInServant
  <2>4. CASE d # c /\ e = c
    <3>1. InServant(d) /\ pc'[c] \notin Outside
      BY <1>1, <1>2, <2>1, <2>4
    <3>2. InServant(c)
      BY <3>1
    <3>3. QED
      BY <2>4, <3>1, <3>2 DEF OneInServant
  <2>5. QED
    BY <2>2, <2>3, <2>4
<1>5. QED
  BY <1>3, <1>4

\* A step that does not concern an info call.
LEMMA InfoFrame ==
    ASSUME NEW d \in InfoCalls, InfoAt(d), UNCHANGED driver,
           pc'[d] = pc[d], reply'[d] = reply[d]
    PROVE  InfoAt(d)'
BY DEF InfoAt, InServant, driver

\* An info call that is not in its servant.
LEMMA InfoOutside ==
    ASSUME NEW d \in InfoCalls, InfoAt(d), ~ InServant(d),
           \/ pc'[d] = pc[d] /\ seen'[d] = seen[d] /\ reply'[d] = reply[d]
           \/ pc'[d] \in {"casting", "queued"}
    PROVE  InfoAt(d)'
<1>1. CASE pc'[d] = pc[d] /\ seen'[d] = seen[d] /\ reply'[d] = reply[d]
  BY <1>1 DEF InfoAt, InServant
<1>2. CASE pc'[d] \in {"casting", "queued"}
  BY <1>2 DEF InfoAt, InServant
<1>3. QED
  BY <1>1, <1>2

\* The calls move between the client and the servant, and in SerialPortI.
LEMMA InfoDispatch ==
    ASSUME PoolSize = 1, IInv, InfoInv, NEW c \in Calls,
           ClientCast(c) \/ DispatchIsA(c) \/ DispatchCall(c)
    PROVE  InfoInv'
<1>1. PICK l \in {"casting", "queued", "truncate", "open"} : Goto(c, l)
  BY DEF ClientCast, DispatchIsA, DispatchCall
<1>2. l \in Places
  BY DEF Places
<1>3. pc'[c] = l /\ \A d \in Calls \ {c} : pc'[d] = pc[d]
  BY <1>1, <1>2, GotoKind DEF IInv
<1>4. /\ ~ InServant(c) /\ faults' = faults /\ reply' = reply
      /\ UNCHANGED <<device, file, buffer, scanned>>
  BY DEF ClientCast, DispatchIsA, DispatchCall, InServant, driver
<1>5. CASE ClientCast(c) \/ DispatchIsA(c)
  <2>1. pc'[c] \in {"casting", "queued"} /\ UNCHANGED driver
    <3>1. Goto(c, "casting") \/ Goto(c, "queued")
      BY <1>5 DEF ClientCast, DispatchIsA
    <3>2. "casting" \in Places /\ "queued" \in Places
      BY DEF Places
    <3>3. pc'[c] \in {"casting", "queued"}
      BY <3>1, <3>2, GotoKind DEF IInv
    <3>4. QED
      BY <1>5, <3>3 DEF ClientCast, DispatchIsA
  <2>2. IsFiniteSet(Busy)' /\ OneInServant'
    BY <1>3, <2>1, OneStays DEF InfoInv, Outside
  <2>3. ASSUME NEW d \in InfoCalls, InfoAt(d) PROVE InfoAt(d)'
    <3>1. CASE d = c
      BY <1>4, <2>1, <2>3, <3>1, InfoOutside
    <3>2. CASE d # c
      <4>1. pc'[d] = pc[d]
        BY <1>3, <3>2 DEF Calls
      <4>2. QED
        BY <1>4, <2>1, <2>3, <4>1, InfoFrame
    <3>3. QED
      BY <3>1, <3>2
  <2>4. QED
    BY <1>4, <2>2, <2>3 DEF InfoInv
<1>6. CASE DispatchCall(c)
  <2>1. \A d \in Calls : ~ InServant(d)
    BY <1>6, FreeIsIdle DEF DispatchCall, InfoInv
  <2>2. IsFiniteSet(Busy)' /\ OneInServant'
    BY <1>3, <2>1, OneStays DEF InfoInv
  <2>3. /\ \A d \in InfoCalls \ {c} : seen'[d] = seen[d]
        /\ c \in InfoCalls => seen'[c] = {device} /\ pc'[c] = "truncate"
    <3>1. seen \in [InfoCalls -> SUBSET Bodies]
      BY DEF IInv, KindInv
    <3>2. CASE c \in InfoCalls
      <4>1. seen' = [seen EXCEPT ![c] = {device}] /\ Goto(c, "truncate")
        BY <1>6, <3>2 DEF DispatchCall
      <4>2. "truncate" \in Places
        BY DEF Places
      <4>3. pc'[c] = "truncate"
        BY <4>1, <4>2, GotoKind DEF IInv
      <4>4. QED
        BY <3>1, <3>2, <4>1, <4>3
    <3>3. CASE c \notin InfoCalls
      BY <1>6, <3>3 DEF DispatchCall
    <3>4. QED
      BY <3>2, <3>3
  <2>4. ASSUME NEW d \in InfoCalls, InfoAt(d) PROVE InfoAt(d)'
    <3>1. CASE d = c
      <4>1. pc'[d] = "truncate" /\ device' \in seen'[d]
        BY <1>4, <2>3, <3>1
      <4>2. QED
        BY <4>1 DEF InfoAt
    <3>2. CASE d # c
      <4>1. pc'[d] = pc[d] /\ seen'[d] = seen[d] /\ reply'[d] = reply[d] /\ ~ InServant(d)
        BY <1>3, <1>4, <2>1, <2>3, <3>2 DEF Calls
      <4>2. QED
        BY <2>4, <4>1, InfoOutside
    <3>3. QED
      BY <3>1, <3>2
  <2>5. QED
    BY <1>4, <2>2, <2>4 DEF InfoInv
<1>7. QED
  BY <1>5, <1>6

\* SerialPortI does not touch the driver.
LEMMA InfoSerial ==
    ASSUME IInv, InfoInv, NEW c \in ReadCalls \cup WriteCalls,
           \/ Open(c)
           \/ c \in ReadCalls /\ (ReadData(c) \/ ReadFails(c))
           \/ c \in WriteCalls /\ (WriteSome(c) \/ WriteFails(c))
    PROVE  InfoInv'
<1>1. c \in Calls /\ InServant(c) /\ UNCHANGED <<driver, faults>>
  BY DEF Open, ReadData, ReadFails, WriteSome, WriteFails, InServant, Calls
<1>2. \A d \in Calls \ {c} : pc'[d] = pc[d] /\ reply'[d] = reply[d]
  <2>1. pc \in [Calls -> Places] /\ reply \in [Calls -> Replies]
    BY DEF IInv, KindInv
  <2>2. CASE Open(c)
    <3>1. reply' = reply /\ (Goto(c, "read") \/ Goto(c, "write"))
      BY <2>2 DEF Open
    <3>2. QED
      BY <2>1, <3>1 DEF Goto
  <2>3. CASE UNCHANGED <<pc, reply>>
    BY <2>3
  <2>4. ASSUME NEW v, Return(c, v)
        PROVE  \A d \in Calls \ {c} : pc'[d] = pc[d] /\ reply'[d] = reply[d]
    BY <2>1, <2>4 DEF Return, Goto
  <2>5. CASE ReadData(c)
    BY <2>4, <2>5 DEF ReadData
  <2>6. CASE ReadFails(c)
    BY <2>4, <2>6 DEF ReadFails
  <2>7. CASE WriteSome(c)
    BY <2>3, <2>4, <2>7 DEF WriteSome
  <2>8. CASE WriteFails(c)
    BY <2>4, <2>8 DEF WriteFails
  <2>9. QED
    BY <2>2, <2>5, <2>6, <2>7, <2>8
<1>3. IsFiniteSet(Busy)' /\ OneInServant'
  BY <1>1, <1>2, OneStays DEF InfoInv
<1>4. ASSUME NEW d \in InfoCalls, InfoAt(d) PROVE InfoAt(d)'
  <2>1. d \in Calls \ {c}
    BY CallsDisjoint DEF Calls
  <2>2. QED
    BY <1>1, <1>2, <1>4, <2>1, InfoFrame
<1>5. QED
  BY <1>1, <1>3, <1>4 DEF InfoInv

\* deviceInfo() on the only thread: no other call is in its servant, so the
\* file and the buffer are this call's.
LEMMA InfoDriver ==
    ASSUME IInv, InfoInv, NEW c \in InfoCalls,
           \/ TruncateFile(c) \/ FetchOk(c) \/ FetchFails(c) \/ Scan(c)
           \/ StoreBegin(c) \/ StoreEnd(c) \/ CopyBuffer(c)
    PROVE  InfoInv'
<1>1. /\ c \in Calls /\ InServant(c) /\ UNCHANGED <<device, seen>>
  BY DEF TruncateFile, FetchOk, FetchFails, Scan, StoreBegin, StoreEnd, CopyBuffer,
         InServant, Calls, driver
<1>2. /\ pc \in [Calls -> Places] /\ reply \in [Calls -> Replies]
      /\ scanned \in [InfoCalls -> Files] /\ seen \in [InfoCalls -> SUBSET Bodies]
  BY DEF IInv, KindInv
<1>3. PICK l \in {"fetch", "scan", "copy", "store", "storing", "done"} : Goto(c, l)
  BY DEF TruncateFile, FetchOk, FetchFails, Scan, StoreBegin, StoreEnd, CopyBuffer, Return
<1>4. pc'[c] = l /\ \A d \in Calls \ {c} : pc'[d] = pc[d]
  BY <1>1, <1>2, <1>3 DEF Goto
<1>5. IsFiniteSet(Busy)' /\ OneInServant'
  BY <1>1, <1>4, OneStays DEF InfoInv
<1>6. \A d \in Calls \ {c} : reply'[d] = reply[d]
  BY <1>2 DEF TruncateFile, FetchOk, FetchFails, Scan, StoreBegin, StoreEnd, CopyBuffer, Return
<1>7. \A d \in InfoCalls \ {c} : d \in Calls \ {c} /\ ~ InServant(d)
  BY <1>1 DEF InfoInv, OneInServant, Calls
<1>8. ASSUME NEW d \in InfoCalls \ {c}, InfoAt(d) PROVE InfoAt(d)'
  BY <1>1, <1>4, <1>6, <1>7, <1>8, InfoOutside
<1>9. SUFFICES ASSUME faults'.curl = 0 PROVE InfoAt(c)' /\ faults.curl = 0
  BY <1>5, <1>8, <1>9 DEF InfoInv
<1>10. ~ FetchFails(c)
  BY <1>9, FetchFailsKeeps
<1>11. faults' = faults
  BY <1>10 DEF TruncateFile, FetchOk, Scan, StoreBegin, StoreEnd, CopyBuffer
<1>12. faults.curl = 0 /\ InfoAt(c)
  BY <1>9, <1>11 DEF InfoInv
<1>13. device \in seen[c]
  BY <1>1, <1>12 DEF InfoAt
<1>14. CASE TruncateFile(c)
  <2>1. file' = <<>> /\ pc'[c] = "fetch"
    BY <1>1, <1>2, <1>14 DEF TruncateFile, Goto
  <2>2. QED
    BY <1>1, <1>11, <1>12, <1>13, <2>1 DEF InfoAt
<1>15. CASE FetchOk(c)
  <2>1. file = <<>>
    BY <1>12, <1>15 DEF FetchOk, InfoAt
  <2>2. file' = device /\ pc'[c] = "scan"
    BY <1>1, <1>2, <1>15, <2>1 DEF FetchOk, Goto
  <2>3. QED
    BY <1>1, <1>11, <1>12, <1>13, <2>2 DEF InfoAt
<1>16. CASE Scan(c)
  <2>1. file \in seen[c]
    BY <1>12, <1>16 DEF Scan, InfoAt
  <2>2. CASE file = <<>>
    <3>1. pc'[c] = "copy" /\ <<>> \in seen'[c]
      BY <1>1, <1>2, <1>16, <2>1, <2>2 DEF Scan, Goto
    <3>2. QED
      BY <1>1, <1>11, <1>12, <1>13, <3>1 DEF InfoAt
  <2>3. CASE file # <<>>
    <3>1. scanned'[c] = file /\ pc'[c] = "store"
      BY <1>1, <1>2, <1>16, <2>3 DEF Scan, Goto
    <3>2. QED
      BY <1>1, <1>11, <1>12, <1>13, <2>1, <3>1 DEF InfoAt
  <2>4. QED
    BY <2>2, <2>3
<1>17. CASE StoreBegin(c)
  <2>1. scanned' = scanned /\ pc'[c] = "storing" /\ scanned[c] \in seen[c]
    BY <1>1, <1>2, <1>12, <1>17 DEF StoreBegin, Goto, InfoAt
  <2>2. QED
    BY <1>1, <1>11, <1>12, <1>13, <2>1 DEF InfoAt
<1>18. CASE StoreEnd(c)
  <2>1. scanned[c] \in seen[c]
    BY <1>12, <1>18 DEF StoreEnd, InfoAt
  <2>2. buffer' = FirstWord(scanned[c]) /\ pc'[c] = "copy"
    BY <1>1, <1>2, <1>18 DEF StoreEnd, Goto
  <2>3. buffer' \in {FirstWord(b) : b \in seen'[c]}
    BY <1>1, <2>1, <2>2
  <2>4. QED
    BY <1>1, <1>11, <1>12, <1>13, <2>2, <2>3 DEF InfoAt
<1>19. CASE CopyBuffer(c)
  <2>1. <<>> \notin seen[c] => buffer \in {FirstWord(b) : b \in seen[c]}
    BY <1>12, <1>19 DEF CopyBuffer, InfoAt
  <2>2. reply'[c] = buffer /\ pc'[c] = "done"
    BY <1>1, <1>2, <1>19 DEF CopyBuffer, Return, Goto
  <2>3. QED
    BY <1>1, <1>11, <1>12, <1>13, <2>1, <2>2 DEF InfoAt
<1>20. QED
  BY <1>10, <1>14, <1>15, <1>16, <1>17, <1>18, <1>19

\* The device may change its info at any time; a call in the servant sees it.
LEMMA InfoDevice ==
    ASSUME IInv, InfoInv, DeviceChanges
    PROVE  InfoInv'
<1>1. /\ UNCHANGED <<pc, reply, file, buffer, scanned>>
      /\ faults' = [faults EXCEPT !.change = @ + 1]
  BY DEF DeviceChanges
<1>2. /\ faults \in [curl : 0..MaxCurlFails, hangup : 0..MaxHangups,
                     change : 0..MaxDeviceChanges]
  BY DEF IInv, KindInv
<1>3. faults'.curl = faults.curl
  BY <1>1, <1>2
<1>4. \A c \in Calls : InServant(c)' = InServant(c)
  BY <1>1 DEF InServant
<1>5. Busy' = Busy /\ (OneInServant <=> OneInServant')
  BY <1>4 DEF Busy, OneInServant
<1>6. ASSUME NEW c \in InfoCalls, InfoAt(c) PROVE InfoAt(c)'
  <2>1. /\ seen'[c] = (IF InServant(c) THEN seen[c] \cup {device'} ELSE seen[c])
    BY DEF DeviceChanges
  <2>2. seen[c] \subseteq seen'[c] /\ (InServant(c) => device' \in seen'[c])
    BY <2>1
  <2>3. c \in Calls
    BY DEF Calls
  <2>4. \A x : x \in {FirstWord(b) : b \in seen[c]} => x \in {FirstWord(b) : b \in seen'[c]}
    BY <2>2
  <2>5. QED
    BY <1>1, <1>4, <1>6, <2>2, <2>3, <2>4 DEF InfoAt
<1>7. QED
  BY <1>3, <1>5, <1>6 DEF InfoInv

\* The rest of the environment.
LEMMA InfoElsewhere ==
    ASSUME IInv, InfoInv,
           \/ SocatStart \/ SocatDies \/ PeerConnects \/ SocatDrains
           \/ \E m \in Messages : PeerSends(m) \/ SocatForwards(m) \/ PeerEnds(m)
           \/ UNCHANGED vars
    PROVE  InfoInv'
<1>1. UNCHANGED <<pc, reply, driver>>
  BY DEF SocatStart, SocatDies, SocatForwards, PeerConnects, PeerEnds, SocatDrains, PeerSends,
         vars
<1>2. faults'.curl = faults.curl
  <2>1. CASE SocatDies
    <3>1. /\ faults \in [curl : 0..MaxCurlFails, hangup : 0..MaxHangups,
                         change : 0..MaxDeviceChanges]
          /\ faults' = [faults EXCEPT !.hangup = @ + 1]
      BY <2>1 DEF SocatDies, IInv, KindInv
    <3>2. QED
      BY <3>1
  <2>2. CASE ~ SocatDies
    BY <2>2 DEF SocatStart, SocatForwards, PeerConnects, PeerEnds, SocatDrains, PeerSends, vars
  <2>3. QED
    BY <2>1, <2>2
<1>3. Busy' = Busy /\ (OneInServant <=> OneInServant')
  BY <1>1 DEF Busy, OneInServant, InServant
<1>4. ASSUME NEW c \in InfoCalls, InfoAt(c) PROVE InfoAt(c)'
  BY <1>1, <1>4, InfoFrame
<1>5. QED
  BY <1>2, <1>3, <1>4 DEF InfoInv

\* With one pool thread, the default, readInfoFromDevice returns what the device
\* said during the call, for any calls and any changes of the device, as long as
\* curl gets an answer and no answer of this call is without a word.
THEOREM InfoIsFresh ==
    ASSUME PoolSize = 1
    PROVE  Spec => []InfoFreshIfFetched
<1>1. ASSUME Init PROVE InfoInv
  <2>1. \A c \in Calls : pc[c] = "start"
    BY <1>1 DEF Init
  <2>2. \A c \in Calls : ~ InServant(c)
    BY <2>1 DEF InServant
  <2>3. Busy = {}
    BY <2>2 DEF Busy
  <2>4. IsFiniteSet(Busy)
    BY <2>3, FS_EmptySet
  <2>5. OneInServant
    BY <2>2 DEF OneInServant
  <2>6. \A c \in InfoCalls : InfoAt(c)
    BY <2>1, <2>2 DEF InfoAt, Calls
  <2>7. QED
    BY <2>4, <2>5, <2>6 DEF InfoInv
<1>2. ASSUME IInv, InfoInv, [Next]_vars PROVE InfoInv'
  <2>1. CASE \E c \in Calls : ClientCast(c) \/ Server(c)
    <3>1. PICK c \in Calls : ClientCast(c) \/ Server(c)
      BY <2>1
    <3>2. CASE ClientCast(c) \/ DispatchIsA(c) \/ DispatchCall(c)
      BY <1>2, <3>2, InfoDispatch
    <3>3. CASE \/ c \in ReadCalls \cup WriteCalls /\ Open(c)
               \/ c \in ReadCalls /\ (ReadData(c) \/ ReadFails(c))
               \/ c \in WriteCalls /\ (WriteSome(c) \/ WriteFails(c))
      BY <1>2, <3>3, InfoSerial
    <3>4. CASE c \in InfoCalls /\ (TruncateFile(c) \/ Scan(c)
                                   \/ StoreBegin(c) \/ StoreEnd(c) \/ CopyBuffer(c))
      BY <1>2, <3>4, InfoDriver
    <3>5. QED
      BY <3>1, <3>2, <3>3, <3>4 DEF Server
  <2>f. CASE \E c \in InfoCalls : Fetch(c)
    BY <1>2, <2>f, InfoDriver DEF Fetch
  <2>2. CASE DeviceChanges
    BY <1>2, <2>2, InfoDevice
  <2>3. CASE \/ SocatStart \/ SocatDies \/ PeerConnects \/ SocatDrains
             \/ \E m \in Messages : PeerSends(m) \/ SocatForwards(m) \/ PeerEnds(m)
             \/ UNCHANGED vars
    BY <1>2, <2>3, InfoElsewhere
  <2>4. QED
    BY <1>2, <2>1, <2>f, <2>2, <2>3 DEF Next, Environment
<1>3. InfoInv => InfoFreshIfFetched
  BY DEF InfoInv, InfoFreshIfFetched, InfoAt
<1>4. QED
  BY <1>1, <1>2, <1>3, Invariance, PTL DEF Spec
=============================================================================
