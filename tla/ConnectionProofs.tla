-------------------------- MODULE ConnectionProofs -------------------------
(***************************************************************************)
(* Proofs about Connection, for every capacity of either direction and any *)
(* number of messages: requests go up and messages down whole and in       *)
(* order, as Channel says.  The invariants are about the words not taken   *)
(* yet: those in an in_buf, in the connection and in an out_buf.           *)
(***************************************************************************)
EXTENDS Connection, TLAPS

-----------------------------------------------------------------------------
(* Sequences of words. *)

(* Words of the connection; those of s are of the first n messages. *)
Words == [m : Nat \ {0}, k : 1..3]
Within(s, n) == \A i \in 1..Len(s) : s[i].m <= n

(* Sequences with the same words in the same places are the same. *)
LEMMA SameWords ==
    ASSUME NEW s \in Seq(Words), NEW t \in Seq(Words), Len(s) = Len(t),
           \A i \in 1..Len(t) : s[i] = t[i]
    PROVE  s = t
OBVIOUS

(* The first words of a sequence and the rest of it. *)
LEMMA Parts ==
    ASSUME NEW s \in Seq(Words), NEW n \in 0..Len(s)
    PROVE  /\ Upto(s, n) \in Seq(Words) /\ Len(Upto(s, n)) = n
           /\ \A i \in 1..n : Upto(s, n)[i] = s[i]
           /\ From(s, n) \in Seq(Words) /\ Len(From(s, n)) = Len(s) - n
           /\ \A i \in 1..(Len(s) - n) : From(s, n)[i] = s[n + i]
           /\ Upto(s, n) \o From(s, n) = s
<1>1. Len(s) \in Nat /\ \A i \in 1..Len(s) : s[i] \in Words
  OBVIOUS
<1>2. /\ Upto(s, n) \in Seq(Words) /\ Len(Upto(s, n)) = n
      /\ \A i \in 1..n : Upto(s, n)[i] = s[i]
  BY <1>1 DEF Upto
<1>3. /\ From(s, n) \in Seq(Words) /\ Len(From(s, n)) = Len(s) - n
      /\ \A i \in 1..(Len(s) - n) : From(s, n)[i] = s[n + i]
  BY <1>1 DEF From
<1>4. Upto(s, n) \o From(s, n) = s
  <2> DEFINE u == Upto(s, n)
             v == From(s, n)
  <2>1. /\ u \in Seq(Words) /\ Len(u) = n /\ v \in Seq(Words) /\ Len(v) = Len(s) - n
        /\ (\A i \in 1..n : u[i] = s[i]) /\ \A i \in 1..(Len(s) - n) : v[i] = s[n + i]
    BY <1>2, <1>3, Zenon
  <2> HIDE DEF u, v
  <2>2. Len(u \o v) = Len(s) /\ u \o v \in Seq(Words)
    BY <1>1, <2>1
  <2>3. ASSUME NEW i \in 1..Len(s) PROVE (u \o v)[i] = s[i]
    <3>1. CASE i <= n
      BY <1>1, <2>1, <3>1
    <3>2. CASE i > n
      <4>1. i - n \in 1..(Len(s) - n) /\ n + (i - n) = i
        BY <1>1, <3>2
      <4>2. v[i - n] = s[i]
        BY <2>1, <4>1
      <4>3. (u \o v)[i] = v[i - n]
        BY <1>1, <2>1, <3>2
      <4> QED BY <4>2, <4>3, Zenon
    <3>3. i <= n \/ i > n
      BY <1>1
    <3> QED BY <3>1, <3>2, <3>3, Zenon
  <2>4. u \o v = s
    BY <2>2, <2>3, SameWords, Zenon
  <2> QED BY <2>4, Zenon DEF u, v
<1> QED BY <1>2, <1>3, <1>4, Zenon

(* Two sequences joined. *)
LEMMA Joined ==
    ASSUME NEW s \in Seq(Words), NEW t \in Seq(Words)
    PROVE  /\ s \o t \in Seq(Words) /\ Len(s \o t) = Len(s) + Len(t)
           /\ Len(s) \in Nat /\ Len(t) \in Nat
           /\ \A i \in 1..Len(s) : (s \o t)[i] = s[i]
           /\ \A i \in 1..Len(t) : (s \o t)[Len(s) + i] = t[i]
OBVIOUS

(* Joining sequences of words is associative. *)
LEMMA Regrouped ==
    ASSUME NEW a \in Seq(Words), NEW b \in Seq(Words), NEW c \in Seq(Words)
    PROVE  (a \o b) \o c = a \o (b \o c)
OBVIOUS

(* Nothing joined to a sequence of words leaves it as it was. *)
LEMMA WithNothing == ASSUME NEW s \in Seq(Words) PROVE s \o <<>> = s /\ <<>> \o s = s
OBVIOUS

(* What moves from one buffer to the next leaves the two as they were.     *)
LEMMA Regroup ==
    ASSUME NEW s \in Seq(Words), NEW t \in Seq(Words), NEW n \in 0..Len(t)
    PROVE  (s \o Upto(t, n)) \o From(t, n) = s \o t
<1>1. (s \o Upto(t, n)) \o From(t, n) = s \o (Upto(t, n) \o From(t, n))
  <2>1. Upto(t, n) \in Seq(Words) /\ From(t, n) \in Seq(Words)
    BY Parts, Zenon
  <2> QED BY <2>1, Regrouped, Zenon
<1> QED BY <1>1, Parts, Zenon

(* The words of a part of a sequence are of the same messages. *)
LEMMA WithinParts ==
    ASSUME NEW s \in Seq(Words), NEW n \in 0..Len(s), NEW b \in Nat, Within(s, b)
    PROVE  Within(Upto(s, n), b) /\ Within(From(s, n), b)
<1>1. Len(s) \in Nat /\ \A i \in 1..Len(s) : s[i].m <= b
  BY DEF Within
<1>2. Within(Upto(s, n), b)
  <2>1. \A i \in 1..n : i \in 1..Len(s)
    BY <1>1
  <2> QED BY <1>1, <2>1, Parts, Zenon DEF Within
<1>3. Within(From(s, n), b)
  <2>1. \A i \in 1..(Len(s) - n) : n + i \in 1..Len(s)
    BY <1>1
  <2>2. Len(From(s, n)) = Len(s) - n /\ \A i \in 1..(Len(s) - n) : From(s, n)[i] = s[n + i]
    BY Parts, Zenon
  <2> QED BY <1>1, <2>1, <2>2 DEF Within
<1> QED BY <1>2, <1>3, Zenon

(* And so are those of two sequences joined. *)
LEMMA WithinJoined ==
    ASSUME NEW s \in Seq(Words), NEW t \in Seq(Words), NEW b \in Nat, Within(s, b), Within(t, b)
    PROVE  Within(s \o t, b)
<1>1. ASSUME NEW i \in 1..(Len(s) + Len(t)) PROVE (s \o t)[i].m <= b
  <2>1. CASE i \in 1..Len(s)
    BY <2>1, Joined DEF Within
  <2>2. CASE i \notin 1..Len(s)
    <3>1. i - Len(s) \in 1..Len(t) /\ i = Len(s) + (i - Len(s))
      BY <2>2, Joined
    <3> QED BY <3>1, Joined DEF Within
  <2> QED BY <2>1, <2>2
<1> QED BY <1>1, Joined, Zenon DEF Within

(* Words of the first messages are words of the first messages and more. *)
LEMMA WithinMore ==
    ASSUME NEW s \in Seq(Words), NEW b \in Nat, NEW c \in Nat, b <= c, Within(s, b)
    PROVE  Within(s, c)
<1>1. \A i \in 1..Len(s) : s[i] \in Words
  OBVIOUS
<1>2. ASSUME NEW w \in Words, w.m <= b PROVE w.m <= c
  BY <1>2 DEF Words
<1> QED BY <1>1, <1>2, Zenon DEF Within

(* The words of each kind of message. *)
LEMMA Sizes ==
    /\ Size("greet") = 2 /\ Size("reply") = 3 /\ Size("hb") = 1 /\ Size("quit") = 1
    /\ \A kind \in Kinds : Size(kind) \in 1..3
BY DEF Size, Kinds

(* A message put into out_buf is all its words in order. *)
LEMMA Staged ==
    ASSUME NEW m \in Nat \ {0}, NEW kind \in Kinds
    PROVE  /\ WordsOf(m, kind) \in Seq(Words) /\ Len(WordsOf(m, kind)) = Size(kind)
           /\ \A k \in 1..Size(kind) : WordsOf(m, kind)[k] = Word(m, k)
           /\ Within(WordsOf(m, kind), m)
<1>1. Size(kind) \in 1..3
  BY Sizes, Zenon
<1>2. \A k \in 1..Size(kind) : Word(m, k) \in Words /\ Word(m, k).m = m
  BY <1>1 DEF Word, Words
<1>3. WordsOf(m, kind) \in Seq(Words) /\ Len(WordsOf(m, kind)) = Size(kind)
  BY <1>1, <1>2 DEF WordsOf
<1>4. \A k \in 1..Size(kind) : WordsOf(m, kind)[k] = Word(m, k)
  BY Zenon DEF WordsOf
<1> QED BY <1>2, <1>3, <1>4 DEF Within

(* What is read from a sequence behind what was read before. *)
LEMMA Moved ==
    ASSUME NEW s \in Seq(Words), NEW t \in Seq(Words), NEW n \in 0..Len(t),
           NEW b \in Nat, Within(s, b), Within(t, b)
    PROVE  /\ s \o Upto(t, n) \in Seq(Words) /\ From(t, n) \in Seq(Words)
           /\ Len(s \o Upto(t, n)) = Len(s) + n /\ Len(From(t, n)) = Len(t) - n
           /\ Within(s \o Upto(t, n), b) /\ Within(From(t, n), b)
<1>1. Upto(t, n) \in Seq(Words) /\ From(t, n) \in Seq(Words)
      /\ Len(Upto(t, n)) = n /\ Len(From(t, n)) = Len(t) - n
  BY Parts, Zenon
<1>2. Within(Upto(t, n), b) /\ Within(From(t, n), b)
  BY WithinParts, Zenon
<1>3. s \o Upto(t, n) \in Seq(Words) /\ Within(s \o Upto(t, n), b)
  BY <1>1, <1>2, Joined, WithinJoined, Zenon
<1>4. Len(s \o Upto(t, n)) = Len(s) + n
  BY <1>1, Joined, Zenon
<1> QED BY <1>1, <1>2, <1>3, <1>4, Zenon

(* Nothing is a sequence of words. *)
LEMMA Empty == <<>> \in Seq(Words) /\ Len(<<>>) = 0 /\ \A b \in Nat : Within(<<>>, b)
BY DEF Within

(* As much as there is or as there is room for. *)
LEMMA Room ==
    ASSUME NEW s \in Seq(Words), NEW t \in Seq(Words), NEW c \in Nat, Len(t) < c
    PROVE  Least(Len(s), c - Len(t)) \in 0..Len(s)
BY DEF Least

upward == <<s_in, up, r_out, asked, heard, heeded, utorn>>
downward == <<spc, rpc, s_out, down, r_in, sent, got, next, torn>>

(* The types of each direction, and that the words on their way are of     *)
(* messages that were put in.                                              *)
UpTypes == /\ r_out \in Seq(Words) /\ up \in Seq(Words) /\ s_in \in Seq(Words)
           /\ asked \in Seq(Requests) /\ heeded \in Nat \ {0} /\ utorn \in BOOLEAN
           /\ Within(r_out, Len(asked)) /\ Within(up, Len(asked)) /\ Within(s_in, Len(asked))
DownTypes == /\ spc \in {"accept", "run", "telling", "told", "closed", "killed"}
             /\ rpc \in {"greet", "run", "ended", "killed"}
             /\ s_out \in Seq(Words) /\ down \in Seq(Words) /\ r_in \in Seq(Words)
             /\ sent \in Seq(Kinds) /\ next \in Nat \ {0} /\ torn \in BOOLEAN
             /\ Within(s_out, Len(sent)) /\ Within(down, Len(sent)) /\ Within(r_in, Len(sent))

(* The sender reads words of a request: the types are kept. *)
LEMMA SenderReadUp ==
    ASSUME UpTypes, NEW n \in 1..2, SenderRead(n) PROVE UpTypes'
<1>1. n \in 0..Len(up) /\ Len(asked) \in Nat
  BY DEF UpTypes, SenderRead, Least
<1>2. s_in' \in {<<>>, s_in \o Upto(up, n)} /\ heeded' \in {heeded, heeded + 1} /\ up' = From(up, n)
      /\ UNCHANGED <<r_out, asked, utorn>>
  BY Zenon DEF SenderRead, receiver
<1>3. /\ s_in \o Upto(up, n) \in Seq(Words) /\ From(up, n) \in Seq(Words)
      /\ Within(s_in \o Upto(up, n), Len(asked)) /\ Within(From(up, n), Len(asked))
  BY <1>1, Moved, Zenon DEF UpTypes
<1>4. heeded' \in Nat \ {0}
  BY <1>2 DEF UpTypes
<1>5. s_in' \in Seq(Words) /\ up' \in Seq(Words)
      /\ Within(s_in', Len(asked')) /\ Within(up', Len(asked'))
  BY <1>1, <1>2, <1>3, Empty, Zenon
<1> QED BY <1>2, <1>4, <1>5, Zenon DEF UpTypes

(* The receiver writes words of a request: the types are kept. *)
LEMMA ReceiverWriteUp ==
    ASSUME UpTypes, ReceiverWrite PROVE UpTypes'
<1> DEFINE n == Least(Len(r_out), UpCap - Len(up))
<1>1. n \in 0..Len(r_out) /\ Len(asked) \in Nat
  BY Room, ConnectionAssumption DEF UpTypes, ReceiverWrite
<1>2. up' = up \o Upto(r_out, n) /\ r_out' = From(r_out, n)
      /\ UNCHANGED <<s_in, asked, heeded, utorn>>
  BY Zenon DEF ReceiverWrite, sender, ups
<1> HIDE DEF n
<1>3. /\ up \o Upto(r_out, n) \in Seq(Words) /\ From(r_out, n) \in Seq(Words)
      /\ Within(up \o Upto(r_out, n), Len(asked)) /\ Within(From(r_out, n), Len(asked))
  BY <1>1, Moved, Zenon DEF UpTypes
<1> QED BY <1>2, <1>3, Zenon DEF UpTypes

(* What request_gap asks for is a request. *)
LEMMA GapRange ==
    ASSUME NEW low \in 0..MaxAsked
    PROVE  [low |-> low, high |-> low + 1] \in Requests
BY ConnectionAssumption DEF Requests

(* A request is put into out_buf: the types are kept, and there is one     *)
(* more, or one replaced.                                                  *)
LEMMA RequestGapUp ==
    ASSUME UpTypes, NEW low \in 0..MaxAsked, RequestGap(low)
    PROVE  UpTypes' /\ Len(asked') = (IF Len(r_out) = 2 THEN Len(asked) ELSE Len(asked) + 1)
<1> DEFINE range == [low |-> low, high |-> low + 1]
           L == Len(asked')
<1>1. /\ asked' = IF Len(r_out) = 2 THEN [asked EXCEPT ![Len(asked)] = range]
                  ELSE Append(asked, range)
      /\ utorn' = (utorn \/ Len(r_out) = 1) /\ r_out' = <<Word(L, 1), Word(L, 2)>>
      /\ UNCHANGED <<s_in, up, heeded>>
  BY Zenon DEF RequestGap, sender
<1>2. range \in Requests
  BY GapRange, Zenon
<1>3. Len(r_out) = 2 => Len(asked) >= 1
  <2> HAVE Len(r_out) = 2
  <2>3. 1 \in 1..Len(r_out)
    OBVIOUS
  <2>4. r_out \in Seq(Words)
    BY Zenon DEF UpTypes
  <2>5. r_out[1] \in Words
    BY <2>3, <2>4
  <2>1. r_out[1] \in Words /\ r_out[1].m <= Len(asked)
    BY <2>3, <2>5, Zenon DEF UpTypes, Within
  <2>2. \A w \in Words : w.m \in Nat \ {0}
    BY DEF Words
  <2> QED BY <2>1, <2>2 DEF UpTypes
<1>4. /\ asked' \in Seq(Requests) /\ L \in Nat \ {0} /\ Len(asked) \in Nat /\ Len(asked) <= L
      /\ L = IF Len(r_out) = 2 THEN Len(asked) ELSE Len(asked) + 1
  <2> HIDE DEF range
  <2>1. CASE Len(r_out) = 2
    BY <1>1, <1>2, <1>3, <2>1 DEF UpTypes
  <2>2. CASE Len(r_out) # 2
    BY <1>1, <1>2, <2>2 DEF UpTypes
  <2> QED BY <2>1, <2>2, Zenon
<1> HIDE DEF L, range
<1>5. r_out' \in Seq(Words) /\ Within(r_out', L)
  <2>1. Word(L, 1) \in Words /\ Word(L, 2) \in Words /\ Word(L, 1).m = L /\ Word(L, 2).m = L
    BY <1>4 DEF Word, Words
  <2> QED BY <1>1, <1>4, <2>1 DEF Within
<1>6. Within(up, L) /\ Within(s_in, L)
  BY <1>4, WithinMore, Zenon DEF UpTypes
<1>7. utorn' \in BOOLEAN
  BY <1>1, Zenon
<1> QED BY <1>1, <1>4, <1>5, <1>6, <1>7, Zenon DEF UpTypes, L

-----------------------------------------------------------------------------
(* Upward: requests. *)

(* The words of s are the words p + 1, p + 2, ... of the upward direction, *)
(* counted from the first request on, two words each.                      *)
InPlace(s, p) == \A i \in 1..Len(s) : s[i].k \in 1..2 /\ 2 * s[i].m + s[i].k = p + i

(* The word of the upward direction that will be put in next. *)
UpCount == 2 * heeded + Len(s_in) + Len(up) + Len(r_out)

(* Nothing is missing or twice between the request the sender expects and  *)
(* the last one asked for, until one is torn; out_buf holds the last words *)
(* of the last request.                                                    *)
UpInv ==
    /\ UpTypes /\ Len(s_in) <= 1 /\ Len(r_out) <= 2
    /\ \A i \in 1..Len(r_out) : r_out[i] = Word(Len(asked), 2 - Len(r_out) + i)
    /\ \A i \in 1..Len(asked) : asked[i].low < asked[i].high
    /\ UpCount <= 2 * Len(asked) + 2
    /\ ~utorn => UpCount = 2 * Len(asked) + 2
                 /\ InPlace(s_in, 2 * heeded) /\ InPlace(up, 2 * heeded + Len(s_in))

(* Steps that leave this direction alone. *)
LEMMA UpInvUnchanged == UpInv /\ UNCHANGED upward => UpInv'
BY DEF UpInv, UpTypes, UpCount, InPlace, Within, upward

(* The places of two sequences joined, of the first words and of the rest. *)
LEMMA PlacesJoined ==
    ASSUME NEW s \in Seq(Words), NEW t \in Seq(Words), NEW p \in Int,
           InPlace(s, p), InPlace(t, p + Len(s))
    PROVE  InPlace(s \o t, p)
<1>1. ASSUME NEW i \in 1..(Len(s) + Len(t))
      PROVE  (s \o t)[i].k \in 1..2 /\ 2 * (s \o t)[i].m + (s \o t)[i].k = p + i
  <2>1. CASE i \in 1..Len(s)
    BY <2>1, Joined, Zenon DEF InPlace
  <2>2. CASE i \notin 1..Len(s)
    <3> DEFINE j == i - Len(s)
    <3>1. j \in 1..Len(t) /\ i = Len(s) + j /\ p + i = (p + Len(s)) + j
      <4>1. Len(s) \in Nat /\ Len(t) \in Nat
        OBVIOUS
      <4> QED BY <2>2, <4>1
    <3> HIDE DEF j
    <3>2. (s \o t)[i] = t[j]
      BY <3>1, Joined, Zenon
    <3> QED BY <3>1, <3>2, Zenon DEF InPlace
  <2> QED BY <2>1, <2>2, Zenon
<1> QED BY <1>1, Joined, Zenon DEF InPlace

(* The places of the first words of a sequence and of the rest. *)
LEMMA PlacesParts ==
    ASSUME NEW s \in Seq(Words), NEW n \in 0..Len(s), NEW p \in Int, InPlace(s, p)
    PROVE  InPlace(Upto(s, n), p) /\ InPlace(From(s, n), p + n)
<1>1. Len(s) \in Nat
  OBVIOUS
<1>2. InPlace(Upto(s, n), p)
  <2>1. \A i \in 1..n : i \in 1..Len(s)
    BY <1>1
  <2>2. Len(Upto(s, n)) = n /\ \A i \in 1..n : Upto(s, n)[i] = s[i]
    BY Parts, Zenon
  <2> QED BY <2>1, <2>2, Zenon DEF InPlace
<1>3. ASSUME NEW i \in 1..(Len(s) - n)
      PROVE  From(s, n)[i].k \in 1..2 /\ 2 * From(s, n)[i].m + From(s, n)[i].k = p + n + i
  <2>1. n + i \in 1..Len(s) /\ p + (n + i) = p + n + i
    BY <1>1
  <2> QED BY <2>1, Parts, Zenon DEF InPlace
<1> QED BY <1>2, <1>3, Parts, Zenon DEF InPlace

(* The two words of a request in their places are one whole request. *)
LEMMA InPlaceWhole ==
    ASSUME NEW ws \in Seq(Words), NEW h \in Nat, Len(ws) = 2, InPlace(ws, 2 * h)
    PROVE  ws[1] = Word(h, 1) /\ ws[2] = Word(h, 2) /\ IsWhole(ws)
<1>1. ws[1] \in Words /\ ws[2] \in Words
  OBVIOUS
<1>2. ASSUME NEW w \in Words, w.k \in 1..2, 2 * w.m + w.k = 2 * h + 1 PROVE w = Word(h, 1)
  BY <1>2 DEF Words, Word
<1>3. ASSUME NEW w \in Words, w.k \in 1..2, 2 * w.m + w.k = 2 * h + 2 PROVE w = Word(h, 2)
  BY <1>3 DEF Words, Word
<1>4. ws[1] = Word(h, 1) /\ ws[2] = Word(h, 2)
  <2>1. 1 \in 1..Len(ws) /\ 2 \in 1..Len(ws)
    OBVIOUS
  <2> QED BY <1>1, <1>2, <1>3, <2>1, Zenon DEF InPlace
<1>5. Word(h, 1).m = h /\ 1..Len(ws) = {1, 2}
  BY DEF Word
<1> QED BY <1>4, <1>5, Zenon DEF IsWhole

(* A step of Channel as this direction sees it. *)
UpStep == [UpChannel!Next]_(UpChannel!vars)

(* The sender takes the request it expects: Take of Channel. *)
LEMMA TakesRequest ==
    ASSUME heeded <= Len(asked), heard' = Append(heard, asked[heeded]), heeded' = heeded + 1,
           UNCHANGED <<asked, utorn>>
    PROVE  UpStep
BY Zenon DEF UpStep, UpChannel!Next, UpChannel!Take

(* It takes something else once a request is torn: TakeTorn. *)
LEMMA TakesTorn ==
    ASSUME utorn, NEW m \in Requests \cup {GarbledRange}, heard' = Append(heard, m), heeded' \in Nat,
           UNCHANGED <<asked, utorn>>
    PROVE  UpStep
BY Zenon DEF UpStep, UpChannel!Next, UpChannel!TakeTorn

(* The receiver asks: Put, which may tear the request before. *)
LEMMA PutsRequest ==
    ASSUME NEW m \in Requests, asked' = Append(asked, m), utorn' \in {utorn, TRUE},
           UNCHANGED <<heard, heeded>>
    PROVE  UpStep
BY Zenon DEF UpStep, UpChannel!Next, UpChannel!Put

(* It asks for something else before any of it was written: Replace. *)
LEMMA ReplacesRequest ==
    ASSUME NEW m \in Requests, asked' = [asked EXCEPT ![Len(asked)] = m], Len(asked) >= heeded,
           UNCHANGED <<heard, heeded, utorn>>
    PROVE  UpStep
BY Zenon DEF UpStep, UpChannel!Next, UpChannel!Replace

(* Nothing is put in or taken: a stuttering step. *)
LEMMA KeepsRequests == UNCHANGED ups => UpStep
BY Zenon DEF UpStep, UpChannel!vars, ups

(* A request the sender has read, or a part of it. *)
LEMMA SenderReadStep ==
    ASSUME UpInv, NEW n \in 1..2, SenderRead(n)
    PROVE  UpInv' /\ UpStep
<1> DEFINE ws == s_in \o Upto(up, n)
           rest == From(up, n)
<1>1. /\ s_in \in Seq(Words) /\ up \in Seq(Words) /\ r_out \in Seq(Words) /\ heeded \in Nat \ {0}
      /\ asked \in Seq(Requests) /\ Within(s_in, Len(asked)) /\ Within(up, Len(asked))
  BY Zenon DEF UpInv, UpTypes
<1>2. Len(s_in) \in Nat /\ Len(up) \in Nat /\ Len(r_out) \in Nat /\ Len(asked) \in Nat
  BY <1>1
<1>3. n \in 0..Len(up) /\ n <= 2 - Len(s_in)
  BY <1>2 DEF SenderRead, Least
<1>4. /\ ws \in Seq(Words) /\ rest \in Seq(Words) /\ Within(ws, Len(asked))
      /\ Len(ws) = Len(s_in) + n /\ Len(rest) = Len(up) - n
  BY <1>1, <1>2, <1>3, Moved
<1>5. ~utorn => InPlace(ws, 2 * heeded) /\ InPlace(rest, 2 * heeded + Len(ws))
  <2> HAVE ~utorn
  <2> DEFINE p == 2 * heeded
  <2>1. InPlace(s_in, p) /\ InPlace(up, p + Len(s_in))
    BY Zenon DEF UpInv
  <2>2. p \in Int /\ p + Len(s_in) \in Int /\ p + Len(s_in) + n = p + Len(ws)
    BY <1>1, <1>2, <1>4
  <2> HIDE DEF p
  <2>3. InPlace(Upto(up, n), p + Len(s_in)) /\ InPlace(rest, p + Len(s_in) + n)
    BY <1>1, <1>3, <2>1, <2>2, PlacesParts, Zenon
  <2>4. Upto(up, n) \in Seq(Words)
    BY <1>1, <1>3, Parts, Zenon
  <2>5. InPlace(ws, p)
    BY <1>1, <2>1, <2>2, <2>3, <2>4, PlacesJoined, Zenon
  <2> QED BY <2>2, <2>3, <2>5, Zenon DEF p
<1>6. UpTypes'
  BY SenderReadUp, Zenon DEF UpInv
<1>7. up' = rest /\ UNCHANGED <<r_out, asked, utorn>>
  BY Zenon DEF SenderRead, receiver
<1>8. /\ Len(r_out') <= 2
      /\ \A i \in 1..Len(r_out') : r_out'[i] = Word(Len(asked'), 2 - Len(r_out') + i)
      /\ \A i \in 1..Len(asked') : asked'[i].low < asked'[i].high
  BY <1>7, Zenon DEF UpInv
<1>9. /\ UpCount <= 2 * Len(asked) + 2
      /\ ~utorn => UpCount = 2 * Len(asked) + 2
  BY Zenon DEF UpInv
<1>10. IF Len(ws) < 2 THEN s_in' = ws /\ UNCHANGED <<heard, heeded>>
       ELSE /\ s_in' = <<>>
            /\ \/ /\ LowOf(ws[1]) < LowOf(ws[2])
                  /\ heard' = Append(heard, IF IsWhole(ws) THEN asked[ws[1].m] ELSE GarbledRange)
                  /\ heeded' = heeded + 1
               \/ ~(LowOf(ws[1]) < LowOf(ws[2])) /\ UNCHANGED <<heard, heeded>>
  BY Zenon DEF SenderRead
<1> HIDE DEF ws, rest
<1>11. CASE Len(ws) < 2
  <2>1. s_in' = ws /\ UNCHANGED <<heard, heeded>>
    BY <1>10, <1>11, Zenon
  <2>2. UpCount' = UpCount /\ Len(s_in') <= 1
    <3>1. /\ Len(s_in') = Len(s_in) + n /\ Len(up') = Len(up) - n /\ Len(r_out') = Len(r_out)
          /\ heeded' = heeded /\ heeded \in Nat
      BY <1>1, <1>4, <1>7, <2>1
    <3> QED BY <1>2, <1>4, <1>11, <3>1 DEF UpCount
  <2>3. UpInv'
    BY <1>5, <1>6, <1>7, <1>8, <1>9, <2>1, <2>2, Zenon DEF UpInv
  <2> QED BY <1>7, <2>1, <2>3, KeepsRequests, Zenon DEF ups
<1>12. CASE ~(Len(ws) < 2)
  <2>1. s_in' = <<>> /\ Len(ws) = 2 /\ Len(s_in') = 0
    BY <1>2, <1>3, <1>4, <1>10, <1>12
  <2>2. ws[1] \in Words /\ ws[1].m \in 1..Len(asked)
    <3>1. 1 \in 1..Len(ws)
      BY <2>1
    <3>2. ws[1] \in Words
      BY <1>4, <3>1
    <3>3. ws[1].m \in Nat \ {0}
      BY <3>2 DEF Words
    <3>4. ws[1].m <= Len(asked)
      BY <1>4, <3>1, Zenon DEF Within
    <3> QED BY <1>2, <3>2, <3>3, <3>4
  <2>3. ~utorn => /\ ws[1] = Word(heeded, 1) /\ ws[2] = Word(heeded, 2) /\ IsWhole(ws)
                  /\ heeded \in 1..Len(asked)
    <3> HAVE ~utorn
    <3>1. heeded \in Nat
      BY <1>1
    <3>2. ws[1] = Word(heeded, 1) /\ ws[2] = Word(heeded, 2) /\ IsWhole(ws)
      BY <1>4, <1>5, <2>1, <3>1, InPlaceWhole, Zenon
    <3>3. heeded = ws[1].m
      BY <3>2 DEF Word
    <3> QED BY <2>2, <3>2, <3>3, Zenon
  <2>4. ~utorn => LowOf(ws[1]) < LowOf(ws[2])
    <3> HAVE ~utorn
    <3>1. Word(heeded, 1).k = 1 /\ Word(heeded, 2).k # 1 /\ Word(heeded, 1).m = heeded
          /\ Word(heeded, 2).m = heeded
      BY DEF Word
    <3>2. LowOf(ws[1]) = asked[heeded].low /\ LowOf(ws[2]) = asked[heeded].high
      BY <2>3, <3>1, Zenon DEF LowOf
    <3> QED BY <2>3, <3>2, Zenon DEF UpInv
  <2>5. InPlace(s_in', 2 * heeded')
    BY <2>1 DEF InPlace
  <2>6. CASE heeded' = heeded + 1 /\ LowOf(ws[1]) < LowOf(ws[2])
             /\ heard' = Append(heard, IF IsWhole(ws) THEN asked[ws[1].m] ELSE GarbledRange)
    <3>1. UpCount' = UpCount /\ 2 * heeded' + Len(s_in') = 2 * heeded + Len(ws)
      <4>1. /\ Len(s_in) + n = 2 /\ Len(up') = Len(up) - n /\ Len(r_out') = Len(r_out)
            /\ heeded \in Nat
        BY <1>1, <1>4, <1>7, <2>1, Zenon
      <4> QED BY <1>2, <2>1, <2>6, <4>1 DEF UpCount
    <3>2. Len(s_in') <= 1
      BY <2>1
    <3>3. UpInv'
      BY <1>5, <1>6, <1>7, <1>8, <1>9, <2>5, <3>1, <3>2, Zenon DEF UpInv
    <3>4. CASE utorn
      <4>1. (IF IsWhole(ws) THEN asked[ws[1].m] ELSE GarbledRange) \in Requests \cup {GarbledRange}
        <5>1. asked[ws[1].m] \in Requests
          BY <1>1, <2>2
        <5> QED BY <5>1, Zenon
      <4>2. heeded' \in Nat
        BY <1>1, <2>6
      <4> QED BY <1>7, <2>6, <3>3, <3>4, <4>1, <4>2, TakesTorn, Zenon
    <3>5. CASE ~utorn
      <4>1. heeded <= Len(asked) /\ ws[1].m = heeded
        BY <1>2, <2>3, <3>5 DEF Word
      <4>2. heard' = Append(heard, asked[heeded])
        BY <2>3, <2>6, <3>5, <4>1, Zenon
      <4> QED BY <1>7, <2>6, <3>3, <4>1, <4>2, TakesRequest, Zenon
    <3> QED BY <3>4, <3>5, Zenon
  <2>7. CASE ~(LowOf(ws[1]) < LowOf(ws[2])) /\ UNCHANGED <<heard, heeded>>
    <3>1. utorn
      BY <2>4, <2>7, Zenon
    <3>2. UpCount' <= UpCount /\ UpCount' \in Int /\ UpCount \in Int /\ Len(s_in') <= 1
      BY <1>1, <1>2, <1>3, <1>4, <1>7, <2>1, <2>7 DEF UpCount
    <3>3. UpCount' <= 2 * Len(asked') + 2
      BY <1>2, <1>7, <1>9, <3>2
    <3>4. UpInv'
      BY <1>6, <1>7, <1>8, <3>1, <3>2, <3>3, Zenon DEF UpInv
    <3> QED BY <1>7, <2>7, <3>4, KeepsRequests, Zenon DEF ups
  <2> QED BY <1>10, <1>12, <2>6, <2>7, Zenon
<1> QED BY <1>11, <1>12, Zenon

(* What the receiver writes of a request joins what is on its way. *)
LEMMA ReceiverWriteStep ==
    ASSUME UpInv, ReceiverWrite
    PROVE  UpInv' /\ UpStep
<1> DEFINE n == Least(Len(r_out), UpCap - Len(up))
           rest == From(r_out, n)
<1>1. /\ s_in \in Seq(Words) /\ up \in Seq(Words) /\ r_out \in Seq(Words) /\ heeded \in Nat \ {0}
      /\ asked \in Seq(Requests) /\ Within(r_out, Len(asked)) /\ Within(up, Len(asked))
  BY Zenon DEF UpInv, UpTypes
<1>2. Len(s_in) \in Nat /\ Len(up) \in Nat /\ Len(r_out) \in Nat /\ Len(asked) \in Nat
  BY <1>1
<1>3. n \in 0..Len(r_out)
  BY <1>1, Room, ConnectionAssumption DEF ReceiverWrite
<1>4. up' = up \o Upto(r_out, n) /\ r_out' = rest /\ UNCHANGED <<s_in, asked, heeded, utorn, heard>>
  BY Zenon DEF ReceiverWrite, sender, ups
<1> HIDE DEF n
<1>5. /\ Len(up \o Upto(r_out, n)) = Len(up) + n /\ Len(rest) = Len(r_out) - n
      /\ \A i \in 1..(Len(r_out) - n) : rest[i] = r_out[n + i]
      /\ Upto(r_out, n) \in Seq(Words) /\ Len(Upto(r_out, n)) = n
      /\ \A i \in 1..n : Upto(r_out, n)[i] = r_out[i]
  <2>1. Len(up \o Upto(r_out, n)) = Len(up) + n /\ Len(rest) = Len(r_out) - n
    BY <1>1, <1>2, <1>3, Moved
  <2> QED BY <1>1, <1>3, <2>1, Parts, Zenon
<1> HIDE DEF rest
<1>6. UpTypes'
  BY ReceiverWriteUp, Zenon DEF UpInv
<1>7. UpCount' = UpCount /\ Len(r_out') <= 2
  <2>1. /\ Len(up') = Len(up) + n /\ Len(r_out') = Len(r_out) - n /\ heeded' = heeded
        /\ Len(s_in') = Len(s_in) /\ Len(r_out) <= 2 /\ heeded \in Nat
    BY <1>1, <1>4, <1>5 DEF UpInv
  <2> QED BY <1>2, <1>3, <2>1 DEF UpCount
<1>8. \A i \in 1..Len(r_out') : r_out'[i] = Word(Len(asked'), 2 - Len(r_out') + i)
  <2>1. ASSUME NEW i \in 1..(Len(r_out) - n) PROVE rest[i] = Word(Len(asked), 2 - (Len(r_out) - n) + i)
    <3>1. n + i \in 1..Len(r_out) /\ 2 - Len(r_out) + (n + i) = 2 - (Len(r_out) - n) + i
      BY <1>2, <1>3
    <3>2. r_out[n + i] = Word(Len(asked), 2 - Len(r_out) + (n + i))
      BY <3>1, Zenon DEF UpInv
    <3> QED BY <1>5, <3>1, <3>2, Zenon
  <2> QED BY <1>4, <1>5, <2>1, Zenon
<1>9. ~utorn => InPlace(up', 2 * heeded + Len(s_in))
  <2> HAVE ~utorn
  <2> DEFINE p == 2 * heeded + Len(s_in)
  <2>1. InPlace(up, p) /\ UpCount = 2 * Len(asked) + 2
    BY Zenon DEF UpInv
  <2>2. p \in Int /\ p + Len(up) + Len(r_out) = 2 * Len(asked) + 2
    BY <1>1, <1>2, <2>1 DEF UpCount
  <2> HIDE DEF p
  <2>3. ASSUME NEW i \in 1..n
        PROVE  r_out[i].k \in 1..2 /\ 2 * r_out[i].m + r_out[i].k = p + Len(up) + i
    <3>1. i \in 1..Len(r_out) /\ Len(r_out) <= 2 /\ i \in Nat
      BY <1>2, <1>3 DEF UpInv
    <3>2. r_out[i] = Word(Len(asked), 2 - Len(r_out) + i)
      BY <3>1, Zenon DEF UpInv
    <3>3. r_out[i].m = Len(asked) /\ r_out[i].k = 2 - Len(r_out) + i
      BY <3>2 DEF Word
    <3>4. 2 - Len(r_out) + i \in 1..2 /\ 2 * Len(asked) + (2 - Len(r_out) + i) = p + Len(up) + i
      BY <1>2, <2>2, <3>1
    <3> QED BY <3>3, <3>4, Zenon
  <2>4. InPlace(Upto(r_out, n), p + Len(up))
    BY <1>5, <2>3, Zenon DEF InPlace
  <2> QED BY <1>1, <1>4, <1>5, <2>1, <2>2, <2>4, PlacesJoined, Zenon DEF p
<1>10. UpInv'
  BY <1>4, <1>6, <1>7, <1>8, <1>9, Zenon DEF UpInv
<1> QED BY <1>4, <1>10, KeepsRequests, Zenon DEF ups

(* A gap is asked for, whatever is in out_buf. *)
LEMMA RequestGapStep ==
    ASSUME UpInv, NEW low \in 0..MaxAsked, RequestGap(low)
    PROVE  UpInv' /\ UpStep
<1> DEFINE range == [low |-> low, high |-> low + 1]
           L == Len(asked')
<1>1. /\ asked' = IF Len(r_out) = 2 THEN [asked EXCEPT ![Len(asked)] = range]
                  ELSE Append(asked, range)
      /\ utorn' = (utorn \/ Len(r_out) = 1) /\ r_out' = <<Word(L, 1), Word(L, 2)>>
      /\ UNCHANGED <<s_in, up, heeded, heard>>
  BY Zenon DEF RequestGap, sender
<1>2. range \in Requests /\ range.low < range.high
  BY GapRange
<1>3. UpTypes' /\ L = (IF Len(r_out) = 2 THEN Len(asked) ELSE Len(asked) + 1)
  BY RequestGapUp, Zenon DEF UpInv
<1>4. /\ s_in \in Seq(Words) /\ up \in Seq(Words) /\ r_out \in Seq(Words) /\ heeded \in Nat \ {0}
      /\ asked \in Seq(Requests) /\ utorn \in BOOLEAN /\ Len(r_out) <= 2
  BY Zenon DEF UpInv, UpTypes
<1>5. Len(s_in) \in Nat /\ Len(up) \in Nat /\ Len(r_out) \in Nat /\ Len(asked) \in Nat
  BY <1>4
<1>6. /\ Len(r_out') = 2 /\ r_out'[1] = Word(L, 1) /\ r_out'[2] = Word(L, 2)
      /\ \A i \in 1..Len(r_out') : r_out'[i] = Word(L, 2 - Len(r_out') + i)
  BY <1>1
<1>7. \A i \in 1..L : asked'[i].low < asked'[i].high
  <2> HIDE DEF range
  <2>1. \A i \in 1..Len(asked) : asked[i].low < asked[i].high
    BY Zenon DEF UpInv
  <2>2. \A i \in 1..L : asked'[i] = range \/ (i \in 1..Len(asked) /\ asked'[i] = asked[i])
    BY <1>1, <1>3, <1>4
  <2> QED BY <1>2, <2>1, <2>2, Zenon
<1> HIDE DEF L, range
<1>8. UpCount' = 2 * heeded + Len(s_in) + Len(up) + 2
  BY <1>1, <1>6 DEF UpCount
<1>9. UpCount = 2 * heeded + Len(s_in) + Len(up) + Len(r_out) /\ UpCount <= 2 * Len(asked) + 2
      /\ (~utorn => UpCount = 2 * Len(asked) + 2)
  BY Zenon DEF UpCount, UpInv
<1>10. CASE Len(r_out) = 2
  <2>1. UpCount' = UpCount /\ L = Len(asked) /\ utorn' = utorn
    BY <1>1, <1>3, <1>4, <1>8, <1>9, <1>10
  <2>2. UpInv'
    <3>1. /\ Len(s_in') <= 1 /\ Len(r_out') <= 2
      BY <1>1, <1>6 DEF UpInv
    <3>2. ~utorn => InPlace(s_in, 2 * heeded) /\ InPlace(up, 2 * heeded + Len(s_in))
      BY Zenon DEF UpInv
    <3> QED BY <1>1, <1>3, <1>6, <1>7, <1>9, <2>1, <3>1, <3>2, Zenon DEF UpInv, L
  <2>3. Len(asked) >= heeded
    BY <1>4, <1>5, <1>9, <1>10
  <2> QED BY <1>1, <1>2, <1>10, <2>1, <2>2, <2>3, ReplacesRequest, Zenon
<1>11. CASE Len(r_out) # 2
  <2>1. L = Len(asked) + 1 /\ asked' = Append(asked, range) /\ utorn' \in {utorn, TRUE}
    BY <1>1, <1>3, <1>4, <1>11, Zenon
  <2>2. UpCount' <= 2 * L + 2 /\ (~utorn' => ~utorn /\ UpCount' = 2 * L + 2)
    <3>1. UpCount' <= 2 * L + 2
      BY <1>4, <1>5, <1>8, <1>9, <2>1
    <3>2. ~utorn' => ~utorn /\ Len(r_out) # 1
      BY <1>1, Zenon
    <3>5. Len(r_out) <= 2 /\ heeded \in Nat
      BY <1>4
    <3>3. Len(r_out) # 1 => Len(r_out) = 0
      <4>1. \A l \in Nat : l <= 2 /\ l # 2 /\ l # 1 => l = 0
        OBVIOUS
      <4> QED BY <1>5, <1>11, <3>5, <4>1, Zenon
    <3>4. ASSUME Len(r_out) = 0, UpCount = 2 * Len(asked) + 2 PROVE UpCount' = 2 * L + 2
      <4>1. UpCount = 2 * heeded + Len(s_in) + Len(up) + Len(r_out) /\ L = Len(asked) + 1
        BY <1>9, <2>1, Zenon
      <4> QED BY <1>5, <1>8, <3>4, <3>5, <4>1
    <3> QED BY <1>9, <3>1, <3>2, <3>3, <3>4, Zenon
  <2>3. UpInv'
    <3>1. Len(s_in') <= 1 /\ Len(r_out') <= 2
      BY <1>1, <1>6 DEF UpInv
    <3>2. ~utorn => InPlace(s_in, 2 * heeded) /\ InPlace(up, 2 * heeded + Len(s_in))
      BY Zenon DEF UpInv
    <3> QED BY <1>1, <1>3, <1>6, <1>7, <2>2, <3>1, <3>2, Zenon DEF UpInv, L
  <2> QED BY <1>1, <1>2, <2>1, <2>3, PutsRequest, Zenon
<1> QED BY <1>10, <1>11, Zenon

(* Nothing is asked for when the receiver has connected. *)
LEMMA UpInit == Init => UpInv /\ UpChannel!Init
<1> HAVE Init
<1>1. UpChannel!Init
  BY Zenon DEF Init, UpChannel!Init
<1>2. UpTypes
  <2>1. <<>> \in Seq(Requests) /\ 1 \in Nat \ {0} /\ Len(<<>>) \in Nat
    OBVIOUS
  <2> QED BY <2>1, Empty, Zenon DEF Init, UpTypes
<1>3. /\ s_in = <<>> /\ r_out = <<>> /\ up = <<>> /\ asked = <<>> /\ heeded = 1
  BY Zenon DEF Init
<1> QED BY <1>1, <1>2, <1>3 DEF UpInv, UpCount, InPlace

(* Every step of the two processes. *)
LEMMA UpNext ==
    ASSUME UpInv, [Next]_vars
    PROVE  UpInv' /\ UpStep
<1>1. CASE UNCHANGED upward
  BY <1>1, UpInvUnchanged, KeepsRequests, Zenon DEF upward, ups
<1>2. ASSUME NEW n \in 1..2, SenderRead(n) PROVE UpInv' /\ UpStep
  BY <1>2, SenderReadStep, Zenon
<1>3. CASE ReceiverWrite
  BY <1>3, ReceiverWriteStep, Zenon
<1>4. ASSUME NEW low \in 0..MaxAsked, RequestGap(low) PROVE UpInv' /\ UpStep
  BY <1>4, RequestGapStep, Zenon
<1>5. TcpOnAccept \/ TcpOnWrite \/ WriteQuit \/ SenderClose \/ SenderHup => UNCHANGED upward
  BY Zenon DEF TcpOnAccept, TcpOnWrite, WriteQuit, SenderClose, SenderHup, upward, receiver, ups
<1>6. WillQuit \/ SenderDies \/ ReceiverEnds \/ Reset \/ ReceiverEOF => UNCHANGED upward
  BY Zenon DEF WillQuit, SenderDies, ReceiverEnds, Reset, ReceiverEOF, upward, sender, receiver, ups
<1>7. ASSUME NEW n \in 1..DownCap, ReadGreeting(n) \/ ReceiverRead(n) PROVE UNCHANGED upward
  BY <1>7, Zenon DEF ReadGreeting, ReceiverRead, upward, sender, ups
<1>8. UNCHANGED vars => UNCHANGED upward
  BY Zenon DEF vars, sender, receiver, ups, upward
<1> QED BY <1>1, <1>2, <1>3, <1>4, <1>5, <1>6, <1>7, <1>8, Zenon DEF Next, Sender, Receiver

(* However writing and reading divide them, the requests that request_gap  *)
(* puts into out_buf reach the sender whole and in order, as Channel says, *)
(* until one replaces another that is partly written: for every capacity   *)
(* of the connection and any number of requests.                           *)
THEOREM RequestsWholeTheorem == Spec => RequestsWhole
<1>1. UpInv /\ [Next]_vars => UpInv' /\ [UpChannel!Next]_(UpChannel!vars)
  BY UpNext, Zenon DEF UpStep
<1> QED BY <1>1, UpInit, PTL DEF Spec, RequestsWhole, UpChannel!Spec

-----------------------------------------------------------------------------
(* Downward: words that follow each other. *)

(* The word that follows w when the messages z are written one after       *)
(* another, and words that follow each other.                              *)
Follow(w, z) == IF w.k < Size(z[w.m]) THEN Word(w.m, w.k + 1) ELSE Word(w.m + 1, 1)
InStep(s, z) == \A i \in 1..(Len(s) - 1) : s[i + 1] = Follow(s[i], z)

(* The first word of s is the first of message n; it is not before message *)
(* n, or in the middle of the one before.                                  *)
Sharp(s, n) == s # <<>> => s[1] = Word(n, 1)
Near(s, n) == s # <<>> => s[1].m >= n \/ (s[1].k > 1 /\ s[1].m >= n - 1)

(* The last word of s is the last word of z. *)
Ends(s, z, n) == IF s = <<>> THEN n <= Len(z) + 1
                 ELSE Follow(s[Len(s)], z) = Word(Len(z) + 1, 1)

(* A word is its two fields. *)
LEMMA WordFields ==
    /\ \A w \in Words : w.m \in Nat \ {0} /\ w.k \in 1..3 /\ w = Word(w.m, w.k)
    /\ \A m, k : Word(m, k).m = m /\ Word(m, k).k = k
BY DEF Words, Word

(* A sequence of words that is not empty has a first and a last one. *)
LEMMA Nonempty ==
    ASSUME NEW s \in Seq(Words)
    PROVE  /\ Len(s) \in Nat /\ (s = <<>> <=> Len(s) = 0)
           /\ s # <<>> => 1 \in 1..Len(s) /\ Len(s) \in 1..Len(s)
           /\ \A i \in 1..Len(s) : s[i] \in Words
OBVIOUS

(* The parts of a sequence in step are, and the second begins where the    *)
(* first ends.                                                             *)
LEMMA SplitInStep ==
    ASSUME NEW s \in Seq(Words), NEW t \in Seq(Words), NEW z, InStep(s \o t, z)
    PROVE  /\ InStep(s, z) /\ InStep(t, z)
           /\ s # <<>> /\ t # <<>> => t[1] = Follow(s[Len(s)], z)
<1>1. /\ Len(s \o t) = Len(s) + Len(t) /\ Len(s) \in Nat /\ Len(t) \in Nat
      /\ \A i \in 1..Len(s) : (s \o t)[i] = s[i]
      /\ \A i \in 1..Len(t) : (s \o t)[Len(s) + i] = t[i]
  BY Joined, Zenon
<1>2. \A i \in 1..(Len(s) + Len(t) - 1) : (s \o t)[i + 1] = Follow((s \o t)[i], z)
  BY <1>1 DEF InStep
<1>3. InStep(s, z)
  <2>1. ASSUME NEW i \in 1..(Len(s) - 1) PROVE s[i + 1] = Follow(s[i], z)
    <3>1. i \in 1..(Len(s) + Len(t) - 1) /\ i \in 1..Len(s) /\ i + 1 \in 1..Len(s)
      BY <1>1
    <3> QED BY <1>1, <1>2, <3>1, Zenon
  <2> QED BY <2>1, Zenon DEF InStep
<1>4. InStep(t, z)
  <2>1. ASSUME NEW i \in 1..(Len(t) - 1) PROVE t[i + 1] = Follow(t[i], z)
    <3>1. /\ Len(s) + i \in 1..(Len(s) + Len(t) - 1) /\ i \in 1..Len(t) /\ i + 1 \in 1..Len(t)
          /\ Len(s) + i + 1 = Len(s) + (i + 1)
      BY <1>1
    <3>2. (s \o t)[Len(s) + i] = t[i] /\ (s \o t)[Len(s) + (i + 1)] = t[i + 1]
      BY <1>1, <3>1, Zenon
    <3> QED BY <1>2, <3>1, <3>2, Zenon
  <2> QED BY <2>1, Zenon DEF InStep
<1>5. ASSUME s # <<>>, t # <<>> PROVE t[1] = Follow(s[Len(s)], z)
  <2>1. Len(s) \in 1..(Len(s) + Len(t) - 1) /\ Len(s) \in 1..Len(s) /\ 1 \in 1..Len(t)
    BY <1>1, <1>5, Nonempty
  <2> QED BY <1>1, <1>2, <2>1, Zenon
<1> QED BY <1>3, <1>4, <1>5, Zenon

(* And two sequences joined are in step if so. *)
LEMMA JoinInStep ==
    ASSUME NEW s \in Seq(Words), NEW t \in Seq(Words), NEW z, InStep(s, z), InStep(t, z),
           s # <<>> /\ t # <<>> => t[1] = Follow(s[Len(s)], z)
    PROVE  InStep(s \o t, z)
<1>1. /\ Len(s \o t) = Len(s) + Len(t) /\ Len(s) \in Nat /\ Len(t) \in Nat
      /\ \A i \in 1..Len(s) : (s \o t)[i] = s[i]
      /\ \A i \in 1..Len(t) : (s \o t)[Len(s) + i] = t[i]
  BY Joined, Zenon
<1>2. ASSUME NEW i \in 1..(Len(s) + Len(t) - 1) PROVE (s \o t)[i + 1] = Follow((s \o t)[i], z)
  <2>1. CASE i < Len(s)
    <3>1. i \in 1..(Len(s) - 1) /\ i \in 1..Len(s) /\ i + 1 \in 1..Len(s)
      BY <1>1, <2>1
    <3> QED BY <1>1, <3>1, Zenon DEF InStep
  <2>2. CASE i = Len(s)
    <3>1. i \in 1..Len(s) /\ 1 \in 1..Len(t) /\ s # <<>> /\ t # <<>>
      BY <1>1, <2>2
    <3> QED BY <1>1, <2>2, <3>1, Zenon
  <2>3. CASE i > Len(s)
    <3> DEFINE j == i - Len(s)
    <3>1. /\ j \in 1..(Len(t) - 1) /\ j \in 1..Len(t) /\ j + 1 \in 1..Len(t)
          /\ i = Len(s) + j /\ i + 1 = Len(s) + (j + 1)
      BY <1>1, <2>3
    <3> HIDE DEF j
    <3>2. (s \o t)[i] = t[j] /\ (s \o t)[i + 1] = t[j + 1]
      BY <1>1, <3>1, Zenon
    <3> QED BY <3>1, <3>2, Zenon DEF InStep
  <2> QED BY <1>1, <2>1, <2>2, <2>3
<1>3. Len(s \o t) = Len(s) + Len(t)
  BY <1>1, Zenon
<1> QED BY <1>2, <1>3 DEF InStep

(* Messages that s has no word of may change. *)
LEMMA SameInStep ==
    ASSUME NEW s \in Seq(Words), NEW z, NEW y, InStep(s, z),
           \A i \in 1..Len(s) : y[s[i].m] = z[s[i].m]
    PROVE  InStep(s, y) /\ (s # <<>> => Follow(s[Len(s)], y) = Follow(s[Len(s)], z))
<1>1. \A i \in 1..Len(s) : Follow(s[i], y) = Follow(s[i], z)
  BY Zenon DEF Follow
<1>2. \A i \in 1..(Len(s) - 1) : i \in 1..Len(s)
  BY Nonempty
<1> QED BY <1>1, <1>2, Nonempty, Zenon DEF InStep

(* The words of one message. *)
LEMMA StagedInStep ==
    ASSUME NEW m \in Nat \ {0}, NEW kind \in Kinds, NEW z, z[m] = kind
    PROVE  /\ InStep(WordsOf(m, kind), z) /\ WordsOf(m, kind) # <<>>
           /\ WordsOf(m, kind)[1] = Word(m, 1)
           /\ Follow(WordsOf(m, kind)[Len(WordsOf(m, kind))], z) = Word(m + 1, 1)
<1> DEFINE ws == WordsOf(m, kind)
           n == Size(kind)
<1>1. ws \in Seq(Words) /\ Len(ws) = n /\ \A k \in 1..n : ws[k] = Word(m, k)
  BY Staged, Zenon
<1>2. n \in 1..3
  BY Sizes, Zenon
<1>3. \A k \in 1..n : Follow(ws[k], z) = IF k < n THEN Word(m, k + 1) ELSE Word(m + 1, 1)
  <2>1. \A k \in 1..n : ws[k].m = m /\ ws[k].k = k
    BY <1>1 DEF Word
  <2> HIDE DEF ws
  <2> QED BY <2>1, Zenon DEF Follow
<1> HIDE DEF ws, n
<1>4. InStep(ws, z)
  <2>1. ASSUME NEW k \in 1..(n - 1) PROVE ws[k + 1] = Follow(ws[k], z)
    <3>1. k \in 1..n /\ k + 1 \in 1..n /\ k < n
      BY <1>2
    <3> QED BY <1>1, <1>3, <3>1, Zenon
  <2> QED BY <1>1, <2>1, Zenon DEF InStep
<1>5. ws # <<>> /\ ws[1] = Word(m, 1)
  BY <1>1, <1>2
<1>6. Follow(ws[Len(ws)], z) = Word(m + 1, 1)
  <2>1. n \in 1..n /\ ~(n < n)
    BY <1>2
  <2> QED BY <1>1, <1>3, <2>1, Zenon
<1> QED BY <1>4, <1>5, <1>6, Zenon DEF ws

(* The first and the last word of two sequences joined. *)
LEMMA FirstAndLast ==
    ASSUME NEW s \in Seq(Words), NEW t \in Seq(Words), t # <<>>
    PROVE  /\ s \o t # <<>> /\ (s \o t)[1] = (IF s = <<>> THEN t[1] ELSE s[1])
           /\ (s \o t)[Len(s \o t)] = t[Len(t)]
<1>1. /\ Len(s \o t) = Len(s) + Len(t) /\ Len(s) \in Nat /\ Len(t) \in Nat
      /\ \A i \in 1..Len(s) : (s \o t)[i] = s[i]
      /\ \A i \in 1..Len(t) : (s \o t)[Len(s) + i] = t[i]
  BY Joined, Zenon
<1>2. 1 \in 1..Len(t) /\ Len(t) \in 1..Len(t)
  BY Nonempty, Zenon
<1>3. s \o t # <<>>
  <2>1. Len(s \o t) # 0
    BY <1>1, <1>2
  <2> QED BY <2>1
<1>4. (s \o t)[Len(s \o t)] = t[Len(t)]
  BY <1>1, <1>2, Zenon
<1>5. s = <<>> => (s \o t)[1] = t[1]
  <2> HAVE s = <<>>
  <2>1. Len(s) + 1 = 1 /\ (s \o t)[Len(s) + 1] = t[1]
    BY <1>1, <1>2
  <2> QED BY <2>1
<1>6. s # <<>> => (s \o t)[1] = s[1]
  BY <1>1, Nonempty, Zenon
<1> QED BY <1>3, <1>4, <1>5, <1>6, Zenon

(* A message more behind s. *)
LEMMA StreamGrows ==
    ASSUME NEW s \in Seq(Words), NEW z \in Seq(Kinds), NEW n \in Nat, NEW kind \in Kinds,
           Within(s, Len(z)), InStep(s, z), Ends(s, z, n)
    PROVE  LET u == s \o WordsOf(Len(z) + 1, kind)
               y == Append(z, kind)
           IN  /\ InStep(u, y) /\ Ends(u, y, n) /\ u # <<>>
               /\ Near(s, n) => Near(u, n)
               /\ Sharp(s, n) /\ (s = <<>> => n = Len(z) + 1) => Sharp(u, n)
<1> DEFINE L == Len(z) + 1
           y == Append(z, kind)
           t == WordsOf(L, kind)
           u == s \o t
<1>1. L \in Nat \ {0} /\ Len(z) \in Nat /\ y[L] = kind /\ Len(y) = L
      /\ \A i \in 1..Len(z) : y[i] = z[i]
  OBVIOUS
<1> HIDE DEF L, y
<1>2. /\ t \in Seq(Words) /\ Len(t) = Size(kind)
      /\ InStep(t, y) /\ t # <<>> /\ t[1] = Word(L, 1) /\ Follow(t[Len(t)], y) = Word(L + 1, 1)
  <2>1. t \in Seq(Words) /\ Len(t) = Size(kind)
    BY <1>1, Staged, Zenon
  <2>2. L \in Nat \ {0} /\ y[L] = kind
    BY <1>1, Zenon
  <2>3. InStep(t, y) /\ t # <<>> /\ t[1] = Word(L, 1) /\ Follow(t[Len(t)], y) = Word(L + 1, 1)
    BY <2>2, StagedInStep, Zenon
  <2> QED BY <2>1, <2>3, Zenon
<1> HIDE DEF t
<1>3. InStep(s, y) /\ (s # <<>> => Follow(s[Len(s)], y) = Follow(s[Len(s)], z))
  <2>1. \A i \in 1..Len(s) : s[i].m \in 1..Len(z)
    <3>1. \A i \in 1..Len(s) : s[i] \in Words /\ s[i].m <= Len(z)
      BY Nonempty, Zenon DEF Within
    <3>2. \A w \in Words : w.m <= Len(z) => w.m \in 1..Len(z)
      BY <1>1, WordFields
    <3> QED BY <3>1, <3>2, Zenon
  <2>2. \A i \in 1..Len(s) : y[s[i].m] = z[s[i].m]
    BY <1>1, <2>1, Zenon
  <2>3. InStep(s, z)
    OBVIOUS
  <2> QED BY <2>2, <2>3, SameInStep, Zenon
<1>4. s # <<>> => t[1] = Follow(s[Len(s)], y)
  BY <1>2, <1>3, Zenon DEF Ends, L
<1>5. InStep(u, y)
  BY <1>2, <1>3, <1>4, JoinInStep, Zenon
<1>7. u # <<>> /\ u[Len(u)] = t[Len(t)] /\ u[1] = (IF s = <<>> THEN t[1] ELSE s[1])
  BY <1>2, FirstAndLast, Zenon
<1> HIDE DEF u
<1>8. Ends(u, y, n)
  BY <1>1, <1>2, <1>7, Zenon DEF Ends
<1>9. Near(s, n) => Near(u, n)
  <2>1. CASE s = <<>>
    <3>1. u[1].m = L /\ n <= L
      <4>1. u[1] = Word(L, 1) /\ n <= L
        BY <1>2, <1>7, <2>1, Zenon DEF Ends, L
      <4> QED BY <4>1, WordFields, Zenon
    <3> QED BY <1>1, <3>1 DEF Near
  <2>2. CASE s # <<>>
    BY <1>7, <2>2, Zenon DEF Near
  <2> QED BY <2>1, <2>2, Zenon
<1>10. Sharp(s, n) /\ (s = <<>> => n = L) => Sharp(u, n)
  BY <1>2, <1>7, Zenon DEF Sharp
<1> QED BY <1>5, <1>7, <1>8, <1>9, <1>10, Zenon DEF u, t, L, y

(* The farewell takes the place of the last message t, no word of which is *)
(* before it.                                                              *)
LEMMA StreamReplaced ==
    ASSUME NEW s \in Seq(Words), NEW t \in Seq(Words), NEW z \in Seq(Kinds), NEW n \in Nat,
           Len(z) >= 1, t # <<>>, t[1] = Word(Len(z), 1),
           Within(s, Len(z) - 1), InStep(s \o t, z)
    PROVE  LET u == s \o WordsOf(Len(z), "quit")
           IN  /\ InStep(u, [z EXCEPT ![Len(z)] = "quit"]) /\ u # <<>>
               /\ Near(s \o t, n) => Near(u, n)
               /\ Sharp(s \o t, n) => Sharp(u, n)
<1> DEFINE L == Len(z)
           y == [z EXCEPT ![L] = "quit"]
           v == WordsOf(L, "quit")
           u == s \o v
<1>1. L \in Nat \ {0} /\ y[L] = "quit" /\ \A i \in 1..(L - 1) : y[i] = z[i]
  OBVIOUS
<1> HIDE DEF y
<1>2. /\ v \in Seq(Words) /\ InStep(v, y) /\ v # <<>> /\ v[1] = Word(L, 1)
  <2>1. "quit" \in Kinds
    BY DEF Kinds
  <2> QED BY <1>1, <2>1, Staged, StagedInStep, Zenon
<1> HIDE DEF v
<1>3. InStep(s, z) /\ (s # <<>> => t[1] = Follow(s[Len(s)], z))
  BY SplitInStep, Zenon
<1>4. InStep(s, y) /\ (s # <<>> => Follow(s[Len(s)], y) = Follow(s[Len(s)], z))
  <2>1. \A i \in 1..Len(s) : s[i].m \in 1..(L - 1)
    <3>1. \A i \in 1..Len(s) : s[i] \in Words /\ s[i].m <= L - 1
      BY Nonempty, Zenon DEF Within
    <3>2. \A w \in Words : w.m <= L - 1 => w.m \in 1..(L - 1)
      BY <1>1, WordFields
    <3> QED BY <3>1, <3>2, Zenon
  <2>2. \A i \in 1..Len(s) : y[s[i].m] = z[s[i].m]
    BY <1>1, <2>1, Zenon
  <2> QED BY <1>3, <2>2, SameInStep, Zenon
<1>5. InStep(u, y)
  BY <1>2, <1>3, <1>4, JoinInStep, Zenon
<1>6. u # <<>> /\ s \o t # <<>> /\ u[1] = (s \o t)[1]
  <2>1. u # <<>> /\ u[1] = (IF s = <<>> THEN v[1] ELSE s[1])
    BY <1>2, FirstAndLast, Zenon
  <2>2. s \o t # <<>> /\ (s \o t)[1] = (IF s = <<>> THEN t[1] ELSE s[1])
    BY FirstAndLast, Zenon
  <2>3. v[1] = t[1]
    BY <1>2, Zenon
  <2> HIDE DEF u
  <2>4. CASE s = <<>>
    BY <2>1, <2>2, <2>3, <2>4, Zenon
  <2>5. CASE s # <<>>
    BY <2>1, <2>2, <2>5
  <2> QED BY <2>4, <2>5, Zenon
<1> HIDE DEF u
<1>7. Near(s \o t, n) => Near(u, n)
  BY <1>6, Zenon DEF Near
<1>8. Sharp(s \o t, n) => Sharp(u, n)
  BY <1>6, Zenon DEF Sharp
<1> QED BY <1>5, <1>6, <1>7, <1>8, Zenon DEF u, v, y

(* Words a receiver takes together: a heartbeat or farewell, or three that *)
(* begin with the first word of a reply or inside a message.               *)
Unit(ws, z) == /\ Len(ws) \in {1, 3}
               /\ Len(ws) = 1 => ws[1].k = 1 /\ Size(z[ws[1].m]) = 1
               /\ Len(ws) = 3 /\ ws[1].k = 1 => Size(z[ws[1].m]) = 3

(* Where the word behind three words can be. *)
LEMMA ThreeOn ==
    ASSUME NEW a \in Words, NEW b \in Words, NEW c \in Words, NEW z,
           b = Follow(a, z), c = Follow(b, z), Size(z[a.m]) \in 1..3,
           Size(z[b.m]) \in 1..3, Size(z[c.m]) \in 1..3,
           a.k = 1 => Size(z[a.m]) = 3
    PROVE  /\ a.k = 1 => b = Word(a.m, 2) /\ c = Word(a.m, 3) /\ Follow(c, z) = Word(a.m + 1, 1)
           /\ a.k > 1 => /\ c.m >= a.m + 1 /\ Follow(c, z).m >= a.m + 1
                         /\ Follow(c, z).k = 1 => Follow(c, z).m >= a.m + 2
<1>1. a.m \in Nat /\ a.k \in 1..3 /\ b.m \in Nat /\ b.k \in 1..3 /\ c.m \in Nat /\ c.k \in 1..3
  BY WordFields
<1>2. ASSUME NEW v \in Words, NEW w, w = Follow(v, z)
      PROVE  IF v.k < Size(z[v.m]) THEN w.m = v.m /\ w.k = v.k + 1 ELSE w.m = v.m + 1 /\ w.k = 1
  BY <1>2, WordFields, Zenon DEF Follow
<1>3. /\ IF a.k < Size(z[a.m]) THEN b.m = a.m /\ b.k = a.k + 1 ELSE b.m = a.m + 1 /\ b.k = 1
      /\ IF b.k < Size(z[b.m]) THEN c.m = b.m /\ c.k = b.k + 1 ELSE c.m = b.m + 1 /\ c.k = 1
      /\ IF c.k < Size(z[c.m]) THEN Follow(c, z).m = c.m /\ Follow(c, z).k = c.k + 1
         ELSE Follow(c, z).m = c.m + 1 /\ Follow(c, z).k = 1
  BY <1>2, Zenon
<1>5. ASSUME a.k = 1
      PROVE  b = Word(a.m, 2) /\ c = Word(a.m, 3) /\ Follow(c, z) = Word(a.m + 1, 1)
  <2>1. Size(z[a.m]) = 3
    BY <1>5, Zenon
  <2>2. b = Word(a.m, 2)
    BY <1>1, <1>5, <2>1 DEF Follow
  <2>3. b.m = a.m /\ b.k = 2
    BY <2>2 DEF Word
  <2>4. c = Word(a.m, 3)
    BY <2>1, <2>3 DEF Follow
  <2>5. c.m = a.m /\ c.k = 3
    BY <2>4 DEF Word
  <2>6. Follow(c, z) = Word(a.m + 1, 1)
    <3>1. ~(c.k < Size(z[c.m]))
      BY <2>1, <2>5
    <3> QED BY <2>5, <3>1, Zenon DEF Follow
  <2> QED BY <2>2, <2>4, <2>6, Zenon
<1>6. ASSUME a.k > 1
      PROVE  /\ c.m >= a.m + 1 /\ Follow(c, z).m >= a.m + 1
             /\ Follow(c, z).k = 1 => Follow(c, z).m >= a.m + 2
  <2>1. CASE b.m = a.m /\ b.k = a.k + 1
    <3>1. c.m = a.m + 1 /\ c.k = 1
      BY <1>1, <1>3, <1>6, <2>1
    <3> QED BY <1>1, <1>3, <3>1
  <2>2. CASE b.m = a.m + 1 /\ b.k = 1
    <3>1. (c.m = a.m + 1 /\ c.k = 2) \/ (c.m = a.m + 2 /\ c.k = 1)
      BY <1>1, <1>3, <2>2
    <3> QED BY <1>1, <1>3, <3>1
  <2> QED BY <1>3, <2>1, <2>2, Zenon
<1> QED BY <1>5, <1>6, Zenon

(* Where the word behind a message of one word can be. *)
LEMMA OneOn ==
    ASSUME NEW a \in Words, NEW z, a.k = 1, Size(z[a.m]) = 1
    PROVE  Follow(a, z) = Word(a.m + 1, 1)
BY DEF Follow

(* Where a unit that begins near message n ends. *)
LEMMA UnitEnds ==
    ASSUME NEW ws \in Seq(Words), NEW z \in Seq(Kinds), NEW n \in Nat,
           Within(ws, Len(z)), InStep(ws, z), Unit(ws, z),
           ws[1].m >= n \/ (ws[1].k > 1 /\ ws[1].m >= n - 1)
    PROVE  /\ ws # <<>>
           /\ LET f == Follow(ws[Len(ws)], z)
              IN  f.m >= n + 1 \/ (f.k > 1 /\ f.m >= n)
           /\ ws[Len(ws)].m >= n
           /\ ws[1] = Word(n, 1) =>
                 IsWhole(ws) /\ Follow(ws[Len(ws)], z) = Word(n + 1, 1) /\ ws[Len(ws)].m = n
<1>1. \A i \in 1..Len(ws) : ws[i] \in Words /\ ws[i].m \in 1..Len(z) /\ Size(z[ws[i].m]) \in 1..3
  <2>1. \A w \in Words : w.m <= Len(z) => w.m \in 1..Len(z)
    BY WordFields
  <2>2. \A i \in 1..Len(ws) : ws[i] \in Words /\ ws[i].m \in 1..Len(z)
    BY <2>1, Nonempty, Zenon DEF Within
  <2>3. \A i \in 1..Len(z) : z[i] \in Kinds
    OBVIOUS
  <2> QED BY <2>2, <2>3, Sizes, Zenon
<1>2. CASE Len(ws) = 1
  <2> DEFINE a == ws[1]
  <2>1. 1 \in 1..Len(ws) /\ ws # <<>>
    <3>1. Len(ws) # 0 /\ 1 \in 1..Len(ws)
      BY <1>2
    <3> QED BY <3>1, Nonempty, Zenon
  <2>2. a \in Words /\ a.k = 1 /\ Follow(a, z) = Word(a.m + 1, 1)
    BY <1>1, <1>2, <2>1, OneOn, Zenon DEF Unit
  <2>3. a.m \in Nat /\ Word(a.m + 1, 1).m = a.m + 1
    BY <2>2, WordFields
  <2> HIDE DEF a
  <2>4. a.m >= n
    BY <2>2 DEF a
  <2>5. Word(a.m + 1, 1).m >= n + 1
    BY <2>3, <2>4
  <2>6. ASSUME a = Word(n, 1) PROVE a.m = n /\ IsWhole(ws)
    <3>1. a.m = n
      BY <2>6, WordFields, Zenon
    <3>2. 1..Len(ws) = {1}
      BY <1>2
    <3> QED BY <2>6, <3>1, <3>2, Zenon DEF IsWhole, a
  <2> QED BY <1>2, <2>1, <2>2, <2>4, <2>5, <2>6, Zenon DEF a
<1>3. CASE Len(ws) = 3
  <2> DEFINE a == ws[1]
             b == ws[2]
             c == ws[3]
  <2>1. 1 \in 1..Len(ws) /\ 2 \in 1..Len(ws) /\ 3 \in 1..Len(ws) /\ ws # <<>>
        /\ 1 \in 1..(Len(ws) - 1) /\ 2 \in 1..(Len(ws) - 1) /\ 1 + 1 = 2 /\ 2 + 1 = 3
    <3>1. Len(ws) # 0 /\ 1..Len(ws) = {1, 2, 3} /\ 1..(Len(ws) - 1) = {1, 2}
      BY <1>3
    <3> QED BY <3>1, Nonempty
  <2>2. /\ a \in Words /\ b \in Words /\ c \in Words
        /\ Size(z[a.m]) \in 1..3 /\ Size(z[b.m]) \in 1..3 /\ Size(z[c.m]) \in 1..3
    BY <1>1, <2>1, Zenon
  <2>3. b = Follow(a, z) /\ c = Follow(b, z)
    <3>1. ws[1 + 1] = Follow(ws[1], z) /\ ws[2 + 1] = Follow(ws[2], z)
      BY <2>1, Zenon DEF InStep
    <3> QED BY <3>1
  <2>4. a.k = 1 => Size(z[a.m]) = 3
    BY <1>3, Zenon DEF Unit
  <2>5. a.m >= n \/ (a.k > 1 /\ a.m >= n - 1)
    OBVIOUS
  <2>6. a.m \in Nat /\ a.k \in 1..3 /\ c.m \in Nat
    BY <2>2, WordFields
  <2> HIDE DEF a, b, c
  <2>7. /\ a.k = 1 => b = Word(a.m, 2) /\ c = Word(a.m, 3) /\ Follow(c, z) = Word(a.m + 1, 1)
        /\ a.k > 1 => /\ c.m >= a.m + 1 /\ Follow(c, z).m >= a.m + 1
                      /\ Follow(c, z).k = 1 => Follow(c, z).m >= a.m + 2
    BY <2>2, <2>3, <2>4, ThreeOn
  <2>8. c.m >= n /\ (Follow(c, z).m >= n + 1 \/ (Follow(c, z).k > 1 /\ Follow(c, z).m >= n))
    <3>1. CASE a.k = 1
      <4>1. c.m = a.m /\ Follow(c, z).m = a.m + 1
        BY <2>7, <3>1, WordFields, Zenon
      <4> QED BY <2>5, <2>6, <3>1, <4>1
    <3>2. CASE a.k > 1
      <4>1. Follow(c, z).m \in Nat /\ Follow(c, z).k \in Nat \ {0}
        BY <2>2, WordFields DEF Follow
      <4>2. /\ c.m >= a.m + 1 /\ Follow(c, z).m >= a.m + 1
            /\ Follow(c, z).k = 1 => Follow(c, z).m >= a.m + 2
        BY <2>7, <3>2, Zenon
      <4>3. a.m >= n - 1
        BY <2>5, <2>6
      <4>4. c.m >= n
        BY <2>6, <4>2, <4>3
      <4>5. \A q \in Nat, k \in Nat \ {0} :
               q >= a.m + 1 /\ (k = 1 => q >= a.m + 2) => q >= n + 1 \/ (k > 1 /\ q >= n)
        BY <2>6, <4>3
      <4> QED BY <4>1, <4>2, <4>4, <4>5, Zenon
    <3> QED BY <2>6, <3>1, <3>2
  <2>9. ASSUME a = Word(n, 1)
        PROVE  IsWhole(ws) /\ Follow(c, z) = Word(n + 1, 1) /\ c.m = n
    <3>1. a.m = n /\ a.k = 1
      BY <2>9, WordFields, Zenon
    <3>2. b = Word(n, 2) /\ c = Word(n, 3) /\ Follow(c, z) = Word(n + 1, 1) /\ c.m = n
      BY <2>7, <3>1, WordFields, Zenon
    <3>3. 1..Len(ws) = {1, 2, 3}
      BY <1>3
    <3> QED BY <2>9, <3>1, <3>2, <3>3, Zenon DEF IsWhole, a, b, c
  <2> QED BY <1>3, <2>1, <2>8, <2>9, Zenon DEF a, c
<1> QED BY <1>2, <1>3, Zenon DEF Unit

(* The first word of two sequences joined, when the first is not empty. *)
LEMMA HeadOf ==
    ASSUME NEW s \in Seq(Words), NEW t \in Seq(Words), s # <<>>
    PROVE  s \o t # <<>> /\ (s \o t)[1] = s[1]
<1>1. Len(s \o t) = Len(s) + Len(t) /\ Len(s) \in Nat /\ Len(t) \in Nat
      /\ \A i \in 1..Len(s) : (s \o t)[i] = s[i]
  BY Joined, Zenon
<1>2. 1 \in 1..Len(s)
  BY Nonempty, Zenon
<1>3. Len(s \o t) # 0
  BY <1>1, <1>2
<1>4. s \o t # <<>>
  BY <1>3
<1> QED BY <1>1, <1>2, <1>4, Zenon

(* The last word of the last message is of the last message. *)
LEMMA EndOf ==
    ASSUME NEW w \in Words, NEW z, NEW l \in Nat, Follow(w, z) = Word(l + 1, 1)
    PROVE  w.m = l
<1>1. w.m \in Nat /\ w.k \in 1..3
  BY WordFields
<1>2. w.k + 1 # 1 /\ (w.m + 1 = l + 1 => w.m = l)
  BY <1>1
<1>3. Follow(w, z).m = l + 1 /\ Follow(w, z).k = 1
  BY DEF Word
<1>4. \/ Follow(w, z) = Word(w.m, w.k + 1)
      \/ Follow(w, z) = Word(w.m + 1, 1)
  BY Zenon DEF Follow
<1>5. \/ Follow(w, z).k = w.k + 1
      \/ Follow(w, z).m = w.m + 1
  BY <1>4 DEF Word
<1> QED BY <1>2, <1>3, <1>5

(* The first words of a stream are taken as a unit. *)
LEMMA StreamTaken ==
    ASSUME NEW ws \in Seq(Words), NEW rest \in Seq(Words), NEW z \in Seq(Kinds), NEW n \in Nat,
           Within(ws, Len(z)), InStep(ws \o rest, z), Near(ws \o rest, n), Unit(ws, z)
    PROVE  /\ InStep(rest, z) /\ Near(rest, n + 1)
           /\ Ends(ws \o rest, z, n) => Ends(rest, z, n + 1)
           /\ Sharp(ws \o rest, n) => Sharp(rest, n + 1) /\ IsWhole(ws) /\ ws[1] = Word(n, 1)
           /\ Sharp(ws \o rest, n) /\ Ends(ws \o rest, z, n) /\ rest = <<>> => n = Len(z)
<1>1. ws # <<>>
  <2>1. Len(ws) # 0
    BY DEF Unit
  <2> QED BY <2>1, Nonempty, Zenon
<1>2. ws \o rest # <<>> /\ (ws \o rest)[1] = ws[1]
  BY <1>1, HeadOf, Zenon
<1>3. /\ InStep(ws, z) /\ InStep(rest, z)
      /\ rest # <<>> => rest[1] = Follow(ws[Len(ws)], z)
  BY <1>1, SplitInStep, Zenon
<1>4. ws[1].m >= n \/ (ws[1].k > 1 /\ ws[1].m >= n - 1)
  BY <1>2, Zenon DEF Near
<1> DEFINE f == Follow(ws[Len(ws)], z)
           l == ws[Len(ws)]
<1>5. /\ f.m >= n + 1 \/ (f.k > 1 /\ f.m >= n)
      /\ l.m >= n
      /\ ws[1] = Word(n, 1) => IsWhole(ws) /\ f = Word(n + 1, 1) /\ l.m = n
  BY <1>3, <1>4, UnitEnds, Zenon
<1>6. l \in Words
  BY <1>1, Nonempty, Zenon
<1>7. rest = <<>> => ws \o rest = ws
  OBVIOUS
<1>8. rest # <<>> => (ws \o rest)[Len(ws \o rest)] = rest[Len(rest)]
  BY FirstAndLast, Zenon
<1>9. f.m >= n + 1 \/ (f.k > 1 /\ f.m >= (n + 1) - 1)
  <2>1. (n + 1) - 1 = n
    OBVIOUS
  <2> QED BY <1>5, <2>1, Zenon
<1>10. Near(rest, n + 1)
  BY <1>3, <1>9, Zenon DEF Near
<1>11. Ends(ws \o rest, z, n) /\ rest = <<>> => l.m = Len(z)
  <2> HAVE Ends(ws \o rest, z, n) /\ rest = <<>>
  <2>1. f = Word(Len(z) + 1, 1)
    BY <1>1, <1>7, Zenon DEF Ends
  <2>2. Len(z) \in Nat
    OBVIOUS
  <2> QED BY <1>6, <2>1, <2>2, EndOf, Zenon
<1>12. Ends(ws \o rest, z, n) => Ends(rest, z, n + 1)
  <2>1. CASE rest = <<>>
    <3>1. l.m = Len(z) => n + 1 <= Len(z) + 1
      BY <1>5, <1>6, WordFields
    <3> QED BY <1>11, <2>1, <3>1, Zenon DEF Ends
  <2>2. CASE rest # <<>>
    BY <1>2, <1>8, <2>2, Zenon DEF Ends
  <2> QED BY <2>1, <2>2, Zenon
<1>13. ASSUME Sharp(ws \o rest, n)
       PROVE  /\ Sharp(rest, n + 1) /\ IsWhole(ws) /\ ws[1] = Word(n, 1) /\ l.m = n
  <2>1. ws[1] = Word(n, 1)
    BY <1>2, <1>13, Zenon DEF Sharp
  <2> QED BY <1>3, <1>5, <2>1, Zenon DEF Sharp
<1> QED BY <1>3, <1>10, <1>11, <1>12, <1>13, Zenon

-----------------------------------------------------------------------------
(* Downward: the invariant, and the steps that keep it. *)

(* A step of Channel as this direction sees it. *)
DownStep == [DownChannel!Next]_(DownChannel!vars)

(* Nothing is put in or taken: a stuttering step. *)
LEMMA KeepsMessages == UNCHANGED downs => DownStep
BY Zenon DEF DownStep, DownChannel!vars, downs

(* The sender puts a message into out_buf: Put. *)
LEMMA PutsMessage ==
    ASSUME NEW m \in Kinds, sent' = Append(sent, m), torn' \in {torn, TRUE}, UNCHANGED <<got, next>>
    PROVE  DownStep
BY Zenon DEF DownStep, DownChannel!Next, DownChannel!Put

(* The farewell takes the place of a message not begun: Replace. *)
LEMMA ReplacesMessage ==
    ASSUME NEW m \in Kinds, sent' = [sent EXCEPT ![Len(sent)] = m], Len(sent) >= next,
           UNCHANGED <<got, next, torn>>
    PROVE  DownStep
BY Zenon DEF DownStep, DownChannel!Next, DownChannel!Replace

(* The receiver takes the message it expects: Take. *)
LEMMA TakesMessage ==
    ASSUME next <= Len(sent), got' = Append(got, sent[next]), next' = next + 1,
           UNCHANGED <<sent, torn>>
    PROVE  DownStep
BY Zenon DEF DownStep, DownChannel!Next, DownChannel!Take

(* It takes the greeting, and perhaps what follows: TakeFirst. *)
LEMMA TakesGreeting ==
    ASSUME got = <<>>, sent # <<>>, got' = <<sent[1]>>, next' \in 2..(Len(sent) + 1),
           torn' \in {torn, TRUE}, UNCHANGED sent
    PROVE  DownStep
BY Zenon DEF DownStep, DownChannel!Next, DownChannel!TakeFirst

(* It takes something else once a message is torn: TakeTorn. *)
LEMMA TakesAnything ==
    ASSUME torn, NEW m \in Kinds \cup {Garbled}, got' = Append(got, m), next' \in Nat,
           UNCHANGED <<sent, torn>>
    PROVE  DownStep
BY Zenon DEF DownStep, DownChannel!Next, DownChannel!TakeTorn

(* How it begins: nothing is sent before the connection is accepted, and   *)
(* the greeting is the first message and only the first.                   *)
StartInv ==
    /\ spc = "accept" => r_in = <<>> /\ down = <<>> /\ s_out = <<>> /\ sent = <<>>
                         /\ rpc # "run" /\ next = 1
    /\ spc = "run" => sent # <<>>
    /\ rpc = "run" => next >= 2
    /\ sent # <<>> => sent[1] = "greet"
    /\ \A i \in 2..Len(sent) : sent[i] # "greet"

(* The last words of the last message are in out_buf, all of them or some. *)
(* What is in in_buf is the beginning of a reply, or taken for one.        *)
OutInv ==
    /\ s_out # <<>> => Len(sent) >= 2
    /\ spc = "run" =>
          /\ Len(s_out) <= Size(sent[Len(sent)])
          /\ \A i \in 1..Len(s_out) :
                s_out[i] = Word(Len(sent), Size(sent[Len(sent)]) - Len(s_out) + i)
          /\ s_out # <<>> /\ s_out[1].k = 1 =>
                Within(r_in, Len(sent) - 1) /\ Within(down, Len(sent) - 1)
    /\ Len(r_in) <= 2 /\ (r_in # <<>> => Announces(r_in[1]) \notin {"quit", "hb"})

(* The words the receiver has not taken yet and the sender will write. *)
Unwritten == IF Up(spc) THEN s_out ELSE <<>>
Stream == (r_in \o down) \o Unwritten

(* Before the greeting is read nothing is asked for, so it is followed by  *)
(* messages of one word only.                                              *)
GreetInv ==
    rpc = "greet" =>
        /\ r_in = <<>> /\ up = <<>> /\ heard = <<>> /\ got = <<>> /\ next = 1 /\ ~torn
        /\ \A i \in 2..Len(sent) : sent[i] \in {"hb", "quit"}
        /\ \A i \in 1..Len(Stream) :
              Stream[i] = IF i = 1 THEN Word(1, 1) ELSE IF i = 2 THEN Word(1, 2) ELSE Word(i - 1, 1)
        /\ spc = "run" => Len(Stream) = Len(sent) + 1

(* Nothing is missing in the stream, and its first word is the next one    *)
(* the receiver expects: exactly, until something is torn, and then at     *)
(* least not an earlier one.                                               *)
StreamInv ==
    /\ ~torn \/ spc \in {"accept", "run"} => InStep(Stream, sent) /\ Near(Stream, next)
    /\ ~torn /\ Up(rpc) => Sharp(Stream, next)
    /\ spc = "run" => Ends(Stream, sent, next)
    /\ spc = "run" /\ ~torn /\ Up(rpc) /\ Stream = <<>> => next = Len(sent) + 1

(* All of it is kept by every step. *)
DownInv == DownTypes /\ StartInv /\ OutInv /\ GreetInv /\ StreamInv

(* The stream is made of words of messages that were put in. *)
LEMMA StreamType ==
    ASSUME DownTypes
    PROVE  /\ Unwritten \in Seq(Words) /\ r_in \o down \in Seq(Words) /\ Stream \in Seq(Words)
           /\ Within(Unwritten, Len(sent)) /\ Within(r_in \o down, Len(sent))
           /\ Within(Stream, Len(sent)) /\ Len(sent) \in Nat
<1>1. Len(sent) \in Nat
  BY DEF DownTypes
<1>2. Unwritten \in Seq(Words) /\ Within(Unwritten, Len(sent))
  BY <1>1, Empty, Zenon DEF DownTypes, Unwritten
<1>3. r_in \o down \in Seq(Words) /\ Within(r_in \o down, Len(sent))
  BY <1>1, Joined, WithinJoined, Zenon DEF DownTypes
<1> QED BY <1>1, <1>2, <1>3, Joined, WithinJoined, Zenon DEF Stream

(* Steps that leave this direction alone. *)
LEMMA DownKept ==
    ASSUME DownInv, UNCHANGED downward, rpc = "greet" => UNCHANGED <<up, heard>>
    PROVE  DownInv' /\ DownStep
<1>1. Stream' = Stream /\ UNCHANGED downs
  BY Zenon DEF Stream, Unwritten, downward, downs
<1>2. DownTypes' /\ StartInv'
  BY Zenon DEF DownInv, DownTypes, StartInv, Within, downward
<1>3. OutInv'
  BY Zenon DEF DownInv, OutInv, Within, Announces, downward
<1>4. GreetInv'
  BY <1>1, Zenon DEF DownInv, GreetInv, downward
<1>5. StreamInv'
  BY <1>1, Zenon DEF DownInv, StreamInv, Near, Sharp, Ends, InStep, Follow, downward
<1> QED BY <1>1, <1>2, <1>3, <1>4, <1>5, KeepsMessages, Zenon DEF DownInv

(* A stream that breaks off. *)
LEMMA StreamCut ==
    ASSUME DownInv, NEW s \in Seq(Words), NEW t \in Seq(Words), Stream = s \o t, Stream' = s,
           UNCHANGED <<sent, got, next, torn, rpc, r_in>>, spc' \notin {"accept", "run"},
           rpc = "greet" => UNCHANGED <<up, heard>>
    PROVE  StreamInv' /\ GreetInv'
<1>1. s # <<>> => Stream # <<>> /\ Stream[1] = s[1]
  BY HeadOf, Zenon
<1>2. InStep(Stream, sent) => InStep(s, sent)
  BY SplitInStep, Zenon
<1>3. Near(Stream, next) => Near(s, next)
  BY <1>1, Zenon DEF Near
<1>4. Sharp(Stream, next) => Sharp(s, next)
  BY <1>1, Zenon DEF Sharp
<1>5. StreamInv'
  BY <1>2, <1>3, <1>4, Zenon DEF DownInv, StreamInv
<1>6. \A i \in 1..Len(s) : i \in 1..Len(Stream) /\ Stream[i] = s[i]
  <2>1. Len(s \o t) = Len(s) + Len(t) /\ Len(s) \in Nat /\ Len(t) \in Nat
    BY Joined, Zenon
  <2>2. \A i \in 1..Len(s) : i \in 1..Len(s \o t)
    BY <2>1
  <2> QED BY <2>2, Joined, Zenon
<1>7. GreetInv'
  BY <1>6, Zenon DEF DownInv, GreetInv
<1> QED BY <1>5, <1>7, Zenon

(* The sender closes or dies: what is in out_buf is not written any more.  *)
LEMMA SenderLeaves ==
    ASSUME DownInv, spc \in {"accept", "run", "telling", "told"}, spc' \in {"closed", "killed"},
           UNCHANGED <<rpc, s_out, down, r_in, sent, got, next, torn>>,
           rpc = "greet" => UNCHANGED <<up, heard>>
    PROVE  DownInv' /\ DownStep
<1>1. Up(spc) /\ ~Up(spc)' /\ spc' \notin {"accept", "run"}
  BY Zenon DEF Up
<1>2. r_in \o down \in Seq(Words) /\ Unwritten \in Seq(Words)
  BY StreamType, Zenon DEF DownInv
<1>3. Stream' = r_in \o down
  <2>1. Stream' = (r_in \o down) \o <<>>
    BY <1>1, Zenon DEF Stream, Unwritten
  <2> QED BY <1>2, <2>1, WithNothing
<1>4. StreamInv' /\ GreetInv'
  BY <1>1, <1>2, <1>3, StreamCut, Zenon DEF Stream
<1>5. DownTypes' /\ StartInv'
  BY <1>1, Zenon DEF DownInv, DownTypes, StartInv, Within
<1>6. OutInv'
  BY <1>1, Zenon DEF DownInv, OutInv, Announces
<1> QED BY <1>4, <1>5, <1>6, KeepsMessages, Zenon DEF DownInv, downs

(* The receiver ends. *)
LEMMA ReceiverLeaves ==
    ASSUME DownInv, rpc' \in {"ended", "killed"},
           UNCHANGED <<spc, s_out, down, r_in, sent, got, next, torn>>
    PROVE  DownInv' /\ DownStep
<1>1. Stream' = Stream
  BY Zenon DEF Stream, Unwritten
<1>2. ~Up(rpc)' /\ rpc' # "greet" /\ rpc' # "run"
  BY Zenon DEF Up
<1>3. DownTypes' /\ StartInv'
  BY <1>2, Zenon DEF DownInv, DownTypes, StartInv, Within
<1>4. OutInv'
  BY Zenon DEF DownInv, OutInv, Within, Announces
<1>5. GreetInv'
  BY <1>2, Zenon DEF GreetInv
<1>6. StreamInv'
  BY <1>1, <1>2, Zenon DEF DownInv, StreamInv
<1> QED BY <1>3, <1>4, <1>5, <1>6, KeepsMessages, Zenon DEF DownInv, downs

(* What is in the connection is lost with a reset. *)
LEMMA ResetStep ==
    ASSUME DownInv, Reset
    PROVE  DownInv' /\ DownStep
<1>1. /\ ~Up(spc) /\ ~Up(spc)' /\ spc' \notin {"accept", "run"} /\ down' = <<>> /\ up # <<>>
      /\ UNCHANGED <<spc, rpc, s_out, r_in, sent, got, next, torn, up, heard>>
  BY Zenon DEF Reset, sender, receiver, downs, ups, Up
<1>2. r_in \in Seq(Words) /\ down \in Seq(Words) /\ <<>> \in Seq(Words) /\ r_in \o down \in Seq(Words)
  BY Joined, Empty, Zenon DEF DownInv, DownTypes
<1>3. Stream = r_in \o down /\ Stream' = r_in
  <2>1. Stream = (r_in \o down) \o <<>> /\ Stream' = (r_in \o <<>>) \o <<>>
    BY <1>1, Zenon DEF Stream, Unwritten
  <2> QED BY <1>2, <2>1, WithNothing
<1>4. StreamInv' /\ GreetInv'
  BY <1>1, <1>2, <1>3, StreamCut, Zenon
<1>5. DownTypes' /\ StartInv'
  <2>1. Within(<<>>, Len(sent))
    BY Empty, StreamType, Zenon DEF DownInv
  <2>2. DownTypes'
    BY <1>1, <1>2, <2>1, Zenon DEF DownInv, DownTypes, Within
  <2> QED BY <1>1, <2>2, Zenon DEF DownInv, StartInv
<1>6. OutInv'
  BY <1>1, Zenon DEF DownInv, OutInv, Announces
<1> QED BY <1>1, <1>4, <1>5, <1>6, KeepsMessages, Zenon DEF DownInv, downs

(* Writing moves words from out_buf to the connection and changes nothing  *)
(* of the stream.                                                          *)
LEMMA Written ==
    ASSUME NEW r \in Seq(Words), NEW d \in Seq(Words), NEW s \in Seq(Words), NEW n \in 0..Len(s)
    PROVE  (r \o (d \o Upto(s, n))) \o From(s, n) = (r \o d) \o s
<1>1. Upto(s, n) \in Seq(Words) /\ From(s, n) \in Seq(Words)
  BY Parts, Zenon
<1>2. d \o Upto(s, n) \in Seq(Words)
  BY <1>1, Joined, Zenon
<1>3. (r \o (d \o Upto(s, n))) \o From(s, n) = r \o ((d \o Upto(s, n)) \o From(s, n))
  <2>1. ASSUME NEW x \in Seq(Words), NEW y \in Seq(Words) PROVE (r \o x) \o y = r \o (x \o y)
    BY Regrouped, Zenon
  <2> QED BY <1>1, <1>2, <2>1, Zenon
<1>4. (d \o Upto(s, n)) \o From(s, n) = d \o s
  BY Regroup, Zenon
<1>5. r \o (d \o s) = (r \o d) \o s
  BY Regrouped, Zenon
<1> QED BY <1>3, <1>4, <1>5, Zenon

(* The greeting is written whole. *)
LEMMA TcpOnAcceptStep ==
    ASSUME DownInv, TcpOnAccept
    PROVE  DownInv' /\ DownStep
<1> DEFINE ws == WordsOf(1, "greet")
           z == <<"greet">>
<1>1. /\ spc = "accept" /\ spc' = "run" /\ sent' = z /\ down' = ws
      /\ UNCHANGED <<s_out, r_in, rpc, got, next, torn, up, heard>>
  BY Zenon DEF TcpOnAccept, receiver, ups
<1>2. r_in = <<>> /\ s_out = <<>> /\ sent = <<>> /\ rpc # "run" /\ next = 1
  BY <1>1, Zenon DEF DownInv, StartInv
<1>3. "greet" \in Kinds /\ 1 \in Nat \ {0} /\ z[1] = "greet" /\ z \in Seq(Kinds) /\ Len(z) = 1
      /\ z = Append(<<>>, "greet")
  BY DEF Kinds
<1> HIDE DEF z
<1>4. /\ ws \in Seq(Words) /\ Len(ws) = 2 /\ Within(ws, 1) /\ ws[1] = Word(1, 1) /\ ws[2] = Word(1, 2)
  <2>1. ws \in Seq(Words) /\ Len(ws) = Size("greet") /\ Within(ws, 1)
        /\ \A k \in 1..Size("greet") : ws[k] = Word(1, k)
    BY <1>3, Staged, Zenon
  <2>2. Size("greet") = 2 /\ 1 \in 1..2 /\ 2 \in 1..2
    BY Sizes
  <2> QED BY <2>1, <2>2, Zenon
<1>5. InStep(ws, z) /\ ws # <<>> /\ Follow(ws[Len(ws)], z) = Word(1 + 1, 1)
  BY <1>3, StagedInStep, Zenon
<1> HIDE DEF ws
<1>6. Stream' = ws
  <2>1. Up(spc)'
    BY <1>1, Zenon DEF Up
  <2>2. Stream' = (<<>> \o ws) \o <<>>
    BY <1>1, <1>2, <2>1, Zenon DEF Stream, Unwritten
  <2> QED BY <1>4, <2>2, WithNothing
<1>7. DownTypes'
  <2>1. Within(s_out', Len(sent')) /\ Within(r_in', Len(sent')) /\ Within(down', Len(sent'))
    BY <1>1, <1>2, <1>3, <1>4, Empty
  <2>2. spc' \in {"accept", "run", "telling", "told", "closed", "killed"}
    BY <1>1, Zenon
  <2> QED BY <1>1, <1>3, <1>4, <2>1, <2>2, Zenon DEF DownInv, DownTypes
<1>8. StartInv'
  <2>1. \A i \in 2..Len(sent') : FALSE
    BY <1>1, <1>3
  <2>2. sent' # <<>>
    BY <1>1, <1>3
  <2> QED BY <1>1, <1>2, <1>3, <2>1, <2>2, Zenon DEF StartInv
<1>9. OutInv'
  <2>1. Len(s_out') = 0 /\ Len(r_in') = 0 /\ Size(sent'[Len(sent')]) = 2
    BY <1>1, <1>2, <1>3, Sizes
  <2> QED BY <1>1, <1>2, <2>1 DEF OutInv
<1>10. GreetInv'
  <2>1. \A i \in 2..Len(sent') : FALSE
    BY <1>1, <1>3
  <2>2. \A i \in 1..Len(ws) : ws[i] = IF i = 1 THEN Word(1, 1) ELSE
                                 IF i = 2 THEN Word(1, 2) ELSE Word(i - 1, 1)
    <3>1. 1..Len(ws) = {1, 2}
      BY <1>4
    <3> QED BY <1>4, <3>1
  <2>3. Len(ws) = Len(sent') + 1
    BY <1>1, <1>3, <1>4
  <2> QED BY <1>1, <1>6, <2>1, <2>2, <2>3, Zenon DEF DownInv, GreetInv
<1>11. StreamInv'
  <2>1. Near(ws, 1)
    BY <1>4, WordFields DEF Near
  <2>2. Sharp(ws, 1)
    BY <1>4, Zenon DEF Sharp
  <2>3. Ends(ws, z, 1)
    BY <1>3, <1>5, Zenon DEF Ends
  <2> QED BY <1>1, <1>2, <1>5, <1>6, <2>1, <2>2, <2>3, Zenon DEF StreamInv
<1>12. DownStep
  BY <1>1, <1>2, <1>3, PutsMessage, Zenon
<1> QED BY <1>7, <1>8, <1>9, <1>10, <1>11, <1>12, Zenon DEF DownInv

(* Some of out_buf is written. *)
LEMMA WriteOn ==
    ASSUME DownInv, NEW n \in 0..Len(s_out), s_out # <<>> => n >= 1, spc = "run",
           down' = down \o Upto(s_out, n), s_out' = From(s_out, n),
           UNCHANGED <<spc, rpc, r_in, sent, got, next, torn, up, heard>>
    PROVE  DownInv' /\ DownStep
<1>1. s_out \in Seq(Words) /\ down \in Seq(Words) /\ r_in \in Seq(Words) /\ Len(sent) \in Nat
      /\ Within(s_out, Len(sent)) /\ Within(down, Len(sent))
  BY StreamType, Zenon DEF DownInv, DownTypes
<1>2. /\ down' \in Seq(Words) /\ s_out' \in Seq(Words)
      /\ Within(down', Len(sent)) /\ Within(s_out', Len(sent))
  BY <1>1, Moved, Zenon
<1>3. /\ Len(s_out') = Len(s_out) - n /\ Len(s_out) \in Nat
      /\ \A i \in 1..(Len(s_out) - n) : s_out'[i] = s_out[n + i]
  <2>1. Len(s_out) \in Nat
    BY <1>1
  <2> QED BY <1>1, <2>1, Parts, Zenon
<1>4. Stream' = Stream
  <2>1. Up(spc) /\ Up(spc)'
    BY Zenon DEF Up
  <2>2. (r_in \o (down \o Upto(s_out, n))) \o From(s_out, n) = (r_in \o down) \o s_out
    BY <1>1, Written, Zenon
  <2> QED BY <2>1, <2>2, Zenon DEF Stream, Unwritten
<1>5. DownTypes'
  BY <1>2, Zenon DEF DownInv, DownTypes, Within
<1>6. StartInv'
  BY Zenon DEF DownInv, StartInv
<1>7. OutInv'
  <2> DEFINE S == Size(sent[Len(sent)])
  <2>1. /\ Len(s_out) <= S
        /\ \A i \in 1..Len(s_out) : s_out[i] = Word(Len(sent), S - Len(s_out) + i)
        /\ s_out # <<>> => Len(sent) >= 2
        /\ Len(r_in) <= 2 /\ (r_in # <<>> => Announces(r_in[1]) \notin {"quit", "hb"})
    BY Zenon DEF DownInv, OutInv
  <2>2. s_out' # <<>> => s_out # <<>>
    <3>1. s_out' # <<>> => Len(s_out') # 0
      BY <1>2, Nonempty, Zenon
    <3>2. Len(s_out') # 0 => Len(s_out) # 0
      BY <1>3
    <3> QED BY <1>1, <3>1, <3>2, Nonempty, Zenon
  <2>3. S \in Int
    <3>1. sent # <<>> /\ sent \in Seq(Kinds)
      BY Zenon DEF DownInv, DownTypes, StartInv
    <3>2. sent[Len(sent)] \in Kinds
      BY <3>1
    <3>3. S \in 1..3
      BY <3>2, Sizes, Zenon
    <3> QED BY <3>3
  <2> HIDE DEF S
  <2>4. Len(s_out') <= S
    BY <1>3, <2>1, <2>3
  <2>5. ASSUME NEW i \in 1..Len(s_out') PROVE s_out'[i] = Word(Len(sent), S - Len(s_out') + i)
    <3>1. n + i \in 1..Len(s_out) /\ i \in 1..(Len(s_out) - n)
          /\ S - Len(s_out) + (n + i) = S - Len(s_out') + i
      BY <1>3, <2>3
    <3>2. s_out[n + i] = Word(Len(sent), S - Len(s_out) + (n + i))
      BY <2>1, <3>1, Zenon
    <3> QED BY <1>3, <3>1, <3>2, Zenon
  <2>6. s_out' # <<>> => s_out'[1].k # 1
    <3> HAVE s_out' # <<>>
    <3>1. 1 \in 1..Len(s_out') /\ n >= 1
      BY <1>2, <2>2, Nonempty, Zenon
    <3>2. s_out'[1].k = S - Len(s_out') + 1
      <4>1. s_out'[1] = Word(Len(sent), S - Len(s_out') + 1)
        BY <2>5, <3>1, Zenon
      <4> QED BY <4>1 DEF Word
    <3> QED BY <1>3, <2>1, <2>3, <3>1, <3>2
  <2>7. Announces(r_in[1])' = Announces(r_in[1])
    BY Zenon DEF Announces
  <2> QED BY <2>1, <2>2, <2>4, <2>5, <2>6, <2>7, Zenon DEF OutInv, S
<1>8. GreetInv'
  BY <1>4, Zenon DEF DownInv, GreetInv
<1>9. StreamInv'
  BY <1>4, Zenon DEF DownInv, StreamInv
<1> QED BY <1>5, <1>6, <1>7, <1>8, <1>9, KeepsMessages, Zenon DEF DownInv, downs

(* The messages with one more. *)
LEMMA OneMore ==
    ASSUME NEW z \in Seq(Kinds), NEW kind \in Kinds
    PROVE  /\ Append(z, kind) \in Seq(Kinds) /\ Len(Append(z, kind)) = Len(z) + 1 /\ Len(z) \in Nat
           /\ \A i \in 1..Len(z) : Append(z, kind)[i] = z[i]
           /\ Append(z, kind)[Len(z) + 1] = kind /\ Append(z, kind) # <<>>
OBVIOUS

(* What the beginning says stays true with a message more. *)
LEMMA StartGrows ==
    ASSUME DownInv, sent # <<>>, NEW kind \in Kinds, kind # "greet", sent' = Append(sent, kind),
           spc' # "accept", UNCHANGED <<rpc, next>>
    PROVE  StartInv'
<1>1. /\ sent \in Seq(Kinds) /\ Len(sent) \in Nat /\ Len(sent') = Len(sent) + 1
      /\ \A i \in 1..Len(sent) : sent'[i] = sent[i]
      /\ sent'[Len(sent) + 1] = kind /\ sent' # <<>>
  BY OneMore, StreamType, Zenon DEF DownInv, DownTypes
<1>2. sent'[1] = "greet"
  <2>1. 1 \in 1..Len(sent)
    BY <1>1
  <2> QED BY <1>1, <2>1, Zenon DEF DownInv, StartInv
<1>3. ASSUME NEW i \in 2..Len(sent') PROVE sent'[i] # "greet"
  <2>1. CASE i = Len(sent) + 1
    BY <1>1, <2>1, Zenon
  <2>2. CASE i # Len(sent) + 1
    <3>1. i \in 2..Len(sent) /\ i \in 1..Len(sent)
      BY <1>1, <2>2
    <3> QED BY <1>1, <3>1, Zenon DEF DownInv, StartInv
  <2> QED BY <2>1, <2>2, Zenon
<1> QED BY <1>1, <1>2, <1>3, Zenon DEF DownInv, StartInv

(* in_buf is read the same with a message more. *)
LEMMA AnnouncesGrow ==
    ASSUME DownInv, NEW kind \in Kinds, sent' = Append(sent, kind), UNCHANGED r_in
    PROVE  Len(r_in') <= 2 /\ (r_in' # <<>> => Announces(r_in[1])' \notin {"quit", "hb"})
<1>1. /\ sent \in Seq(Kinds) /\ Len(sent) \in Nat /\ r_in \in Seq(Words) /\ Within(r_in, Len(sent))
      /\ \A i \in 1..Len(sent) : sent'[i] = sent[i]
  BY OneMore, StreamType, Zenon DEF DownInv, DownTypes
<1>2. ASSUME r_in # <<>> PROVE Announces(r_in[1])' = Announces(r_in[1])
  <2>1. 1 \in 1..Len(r_in) /\ r_in[1] \in Words
    BY <1>1, <1>2, Nonempty, Zenon
  <2>2. r_in[1].m <= Len(sent) /\ r_in[1].m \in Nat \ {0}
    BY <1>1, <2>1, WordFields, Zenon DEF Within
  <2>3. r_in[1].m \in 1..Len(sent)
    BY <1>1, <2>2
  <2> QED BY <1>1, <2>3, Zenon DEF Announces
<1> QED BY <1>2, Zenon DEF DownInv, OutInv

(* Before the greeting is read only messages of one word are added. *)
LEMMA GreetGrows ==
    ASSUME DownInv, spc = "run", NEW kind \in Kinds, sent' = Append(sent, kind),
           kind \in {"hb", "quit"}, torn' = torn, spc' = "run" \/ spc' = "telling",
           Stream' = Stream \o WordsOf(Len(sent) + 1, kind),
           UNCHANGED <<rpc, r_in, got, next, up, heard>>
    PROVE  GreetInv'
<1> SUFFICES ASSUME rpc = "greet" PROVE GreetInv'
  BY Zenon DEF GreetInv
<1> DEFINE L == Len(sent)
           t == WordsOf(L + 1, kind)
<1>1. /\ sent \in Seq(Kinds) /\ L \in Nat /\ Len(sent') = L + 1 /\ Stream \in Seq(Words)
      /\ \A i \in 1..L : sent'[i] = sent[i]
      /\ sent'[L + 1] = kind
  BY OneMore, StreamType, Zenon DEF DownInv, DownTypes
<1>2. /\ r_in = <<>> /\ up = <<>> /\ heard = <<>> /\ got = <<>> /\ next = 1 /\ ~torn
      /\ \A i \in 2..L : sent[i] \in {"hb", "quit"}
      /\ \A i \in 1..Len(Stream) :
              Stream[i] = IF i = 1 THEN Word(1, 1) ELSE IF i = 2 THEN Word(1, 2) ELSE Word(i - 1, 1)
      /\ Len(Stream) = L + 1
  BY Zenon DEF DownInv, GreetInv
<1>3. t \in Seq(Words) /\ Len(t) = 1 /\ t[1] = Word(L + 1, 1)
  <2>1. Size(kind) = 1
    BY Sizes, Zenon
  <2>2. L + 1 \in Nat \ {0} /\ 1 \in 1..1
    BY <1>1
  <2> QED BY <2>1, <2>2, Staged, Zenon
<1>4. sent # <<>>
  BY Zenon DEF DownInv, StartInv
<1>5. L >= 1
  BY <1>1, <1>4
<1> HIDE DEF t, L
<1>6. ASSUME NEW i \in 2..Len(sent') PROVE sent'[i] \in {"hb", "quit"}
  <2>1. CASE i = L + 1
    BY <1>1, <2>1, Zenon
  <2>2. CASE i # L + 1
    <3>1. i \in 2..L /\ i \in 1..L
      BY <1>1, <2>2
    <3> QED BY <1>1, <1>2, <3>1, Zenon
  <2> QED BY <2>1, <2>2, Zenon
<1>7. Len(Stream') = L + 2 /\ Stream'[L + 2] = Word(L + 1, 1) /\ \A i \in 1..(L + 1) : Stream'[i] = Stream[i]
  <2>1. Stream' = Stream \o t
    BY Zenon DEF t, L
  <2>2. /\ Len(Stream \o t) = Len(Stream) + Len(t)
        /\ \A i \in 1..Len(Stream) : (Stream \o t)[i] = Stream[i]
        /\ \A i \in 1..Len(t) : (Stream \o t)[Len(Stream) + i] = t[i]
    BY <1>1, <1>3, Joined, Zenon
  <2>3. (Stream \o t)[Len(Stream) + 1] = t[1]
    BY <1>3, <2>2
  <2>4. Len(Stream) + 1 = L + 2 /\ Len(Stream) + Len(t) = L + 2
    BY <1>1, <1>2, <1>3
  <2> QED BY <1>2, <1>3, <2>1, <2>2, <2>3, <2>4, Zenon
<1>8. ASSUME NEW i \in 1..Len(Stream')
      PROVE  Stream'[i] = IF i = 1 THEN Word(1, 1) ELSE IF i = 2 THEN Word(1, 2) ELSE Word(i - 1, 1)
  <2>1. CASE i = L + 2
    <3>1. i # 1 /\ i # 2 /\ i - 1 = L + 1
      BY <1>1, <1>5, <2>1
    <3> QED BY <1>7, <2>1, <3>1, Zenon
  <2>2. CASE i # L + 2
    <3>1. i \in 1..(L + 1) /\ i \in 1..Len(Stream)
      BY <1>1, <1>2, <1>7, <2>2
    <3>2. Stream'[i] = Stream[i]
      BY <1>7, <3>1, Zenon
    <3> QED BY <1>2, <3>1, <3>2, Zenon
  <2> QED BY <2>1, <2>2, Zenon
<1>9. Len(Stream') = Len(sent') + 1
  BY <1>1, <1>7
<1> QED BY <1>2, <1>6, <1>8, <1>9, Zenon DEF GreetInv

(* All of out_buf is written and a message is put there. *)
LEMMA StageOn ==
    ASSUME DownInv, spc = "run", NEW kind \in {"hb", "reply"}, kind = "reply" => heard # <<>>,
           down' = down \o s_out, sent' = Append(sent, kind), s_out' = WordsOf(Len(sent) + 1, kind),
           UNCHANGED <<spc, rpc, r_in, got, next, torn, up, heard>>
    PROVE  DownInv' /\ DownStep
<1> DEFINE L == Len(sent)
           t == WordsOf(L + 1, kind)
<1>1. kind \in Kinds /\ kind # "greet"
  BY Zenon DEF Kinds
<1>2. /\ sent \in Seq(Kinds) /\ L \in Nat /\ Len(sent') = L + 1 /\ sent' \in Seq(Kinds)
      /\ sent'[L + 1] = kind
      /\ s_out \in Seq(Words) /\ down \in Seq(Words) /\ r_in \in Seq(Words)
      /\ Within(s_out, L) /\ Within(down, L) /\ Within(r_in, L)
      /\ Stream \in Seq(Words) /\ Within(Stream, L)
  BY <1>1, OneMore, StreamType, Zenon DEF DownInv, DownTypes
<1>3. sent # <<>> /\ next \in Nat /\ L >= 1
  <2>1. sent # <<>> /\ next \in Nat \ {0}
    BY Zenon DEF DownInv, DownTypes, StartInv
  <2> QED BY <1>2, <2>1
<1>4. L + 1 \in Nat \ {0} /\ L <= L + 1 /\ L + 1 \in Nat
  BY <1>2
<1>5. /\ t \in Seq(Words) /\ Len(t) = Size(kind) /\ Within(t, L + 1)
      /\ \A k \in 1..Size(kind) : t[k] = Word(L + 1, k)
  BY <1>1, <1>4, Staged, Zenon
<1>6. down' \in Seq(Words) /\ Within(down', L)
  BY <1>2, Joined, WithinJoined, Zenon
<1>7. Stream' = Stream \o t
  <2>1. Up(spc) /\ Up(spc)'
    BY Zenon DEF Up
  <2>2. r_in \o (down \o s_out) = (r_in \o down) \o s_out
    BY <1>2, Regrouped, Zenon
  <2> QED BY <2>1, <2>2, Zenon DEF Stream, Unwritten
<1>8. DownTypes'
  <2>1. Within(down', L + 1) /\ Within(r_in, L + 1)
    BY <1>2, <1>4, <1>6, WithinMore, Zenon
  <2> QED BY <1>2, <1>5, <1>6, <2>1, Zenon DEF DownInv, DownTypes
<1>9. StartInv'
  BY <1>1, <1>3, StartGrows, Zenon
<1>10. OutInv'
  <2>1. Len(sent') >= 2
    BY <1>2, <1>3
  <2>2. Size(sent'[Len(sent')]) = Size(kind) /\ Len(s_out') = Size(kind)
    BY <1>2, <1>5, Zenon
  <2>3. Size(kind) \in 1..3
    BY <1>1, Sizes, Zenon
  <2>4. ASSUME NEW i \in 1..Len(s_out')
        PROVE  s_out'[i] = Word(Len(sent'), Size(sent'[Len(sent')]) - Len(s_out') + i)
    <3>1. i \in 1..Size(kind) /\ Size(kind) - Size(kind) + i = i
      BY <2>2, <2>3
    <3> QED BY <1>2, <1>5, <2>2, <3>1, Zenon
  <2>5. Len(sent') - 1 = L /\ Len(s_out') <= Size(sent'[Len(sent')])
    BY <1>2, <2>2, <2>3
  <2>6. Within(r_in', Len(sent') - 1) /\ Within(down', Len(sent') - 1)
    BY <1>2, <1>6, <2>5, Zenon
  <2>7. Len(r_in') <= 2 /\ (r_in' # <<>> => Announces(r_in[1])' \notin {"quit", "hb"})
    BY <1>1, AnnouncesGrow, Zenon
  <2> QED BY <2>1, <2>4, <2>5, <2>6, <2>7, Zenon DEF OutInv
<1>11. GreetInv'
  <2>1. rpc = "greet" => kind = "hb"
    BY Zenon DEF DownInv, GreetInv
  <2>2. CASE rpc = "greet"
    BY <1>1, <1>7, <2>1, <2>2, GreetGrows, Zenon
  <2>3. CASE rpc # "greet"
    BY <2>3, Zenon DEF GreetInv
  <2> QED BY <2>2, <2>3, Zenon
<1>12. StreamInv'
  <2>1. InStep(Stream, sent) /\ Near(Stream, next) /\ Ends(Stream, sent, next)
    BY Zenon DEF DownInv, StreamInv
  <2>2. /\ InStep(Stream \o t, Append(sent, kind)) /\ Ends(Stream \o t, Append(sent, kind), next)
        /\ Near(Stream \o t, next) /\ Stream \o t # <<>>
        /\ Sharp(Stream, next) /\ (Stream = <<>> => next = L + 1) => Sharp(Stream \o t, next)
    BY <1>1, <1>2, <1>3, <2>1, StreamGrows, Zenon
  <2>3. ~torn /\ Up(rpc) => Sharp(Stream \o t, next)
    BY <2>2, Zenon DEF DownInv, StreamInv
  <2> QED BY <1>7, <2>2, <2>3, Zenon DEF StreamInv
<1>13. DownStep
  BY <1>1, PutsMessage, Zenon
<1> QED BY <1>8, <1>9, <1>10, <1>11, <1>12, <1>13, Zenon DEF DownInv

(* Writing goes on, and a message is put into out_buf when it is empty. *)
LEMMA TcpOnWriteStep ==
    ASSUME DownInv, TcpOnWrite
    PROVE  DownInv' /\ DownStep
<1> DEFINE n == Least(Len(s_out), DownCap - Len(down))
<1>1. /\ spc = "run" /\ down' = down \o Upto(s_out, n)
      /\ UNCHANGED <<spc, rpc, r_in, got, next, torn, up, heard>>
  BY Zenon DEF TcpOnWrite, receiver, ups
<1>2. s_out \in Seq(Words) /\ down \in Seq(Words) /\ Len(down) < DownCap
  BY Zenon DEF TcpOnWrite, DownInv, DownTypes
<1>3. n \in 0..Len(s_out)
  BY <1>2, Room, ConnectionAssumption
<1>4. s_out # <<>> => n >= 1
  BY <1>2, ConnectionAssumption DEF Least
<1>5. \/ s_out' = From(s_out, n) /\ sent' = sent
      \/ From(s_out, n) = <<>> /\ \E kind \in Kinds : Stage(kind)
  BY Zenon DEF TcpOnWrite
<1> HIDE DEF n
<1>6. CASE s_out' = From(s_out, n) /\ sent' = sent
  BY <1>1, <1>3, <1>4, <1>6, WriteOn, Zenon
<1>7. CASE From(s_out, n) = <<>> /\ \E kind \in Kinds : Stage(kind)
  <2>1. PICK kind \in Kinds : Stage(kind)
    BY <1>7, Zenon
  <2>2. /\ kind \in {"hb", "reply"} /\ (kind = "reply" => heard # <<>>)
        /\ sent' = Append(sent, kind) /\ s_out' = WordsOf(Len(sent'), kind)
    BY <2>1, Zenon DEF Stage
  <2>3. Len(sent') = Len(sent) + 1
    BY <2>2, OneMore, Zenon DEF DownInv, DownTypes
  <2>4. Upto(s_out, n) = s_out
    <3>1. Upto(s_out, n) \o <<>> = s_out /\ Upto(s_out, n) \in Seq(Words)
      BY <1>2, <1>3, <1>7, Parts, Zenon
    <3> QED BY <3>1, WithNothing
  <2> QED BY <1>1, <2>2, <2>3, <2>4, StageOn, Zenon
<1> QED BY <1>5, <1>6, <1>7, Zenon

(* The farewell alone is in out_buf. *)
LEMMA QuitStaged ==
    ASSUME DownInv, sent' \in Seq(Kinds), Len(sent') >= 2, Len(sent) <= Len(sent'), spc' = "telling",
           s_out' = WordsOf(Len(sent'), "quit"), torn' \in BOOLEAN, UNCHANGED <<rpc, r_in, down, next>>
    PROVE  DownTypes'
<1>1. "quit" \in Kinds /\ Len(sent') \in Nat \ {0} /\ Len(sent') \in Nat
  BY DEF Kinds
<1>2. s_out' \in Seq(Words) /\ Within(s_out', Len(sent'))
  BY <1>1, Staged, Zenon
<1>3. /\ r_in \in Seq(Words) /\ down \in Seq(Words) /\ Len(sent) \in Nat
      /\ Within(r_in, Len(sent)) /\ Within(down, Len(sent))
  BY StreamType, Zenon DEF DownInv, DownTypes
<1>4. Within(r_in, Len(sent')) /\ Within(down, Len(sent'))
  BY <1>1, <1>3, WithinMore, Zenon
<1> QED BY <1>2, <1>4, Zenon DEF DownInv, DownTypes

(* Nothing is in out_buf, or what is there has been begun: the farewell is *)
(* one message more.                                                       *)
LEMMA QuitAppended ==
    ASSUME DownInv, spc = "run", spc' = "telling", sent' = Append(sent, "quit"),
           s_out' = WordsOf(Len(sent'), "quit"), UNCHANGED <<rpc, r_in, down, got, next, up, heard>>,
           \/ s_out = <<>> /\ torn' = torn
           \/ s_out # <<>> /\ s_out[1].k # 1 /\ torn'
    PROVE  DownInv' /\ DownStep
<1> DEFINE L == Len(sent)
           t == WordsOf(L + 1, "quit")
<1>1. "quit" \in Kinds /\ "quit" # "greet"
  BY DEF Kinds
<1>2. /\ sent \in Seq(Kinds) /\ L \in Nat /\ Len(sent') = L + 1 /\ sent' \in Seq(Kinds)
      /\ torn \in BOOLEAN /\ r_in \o down \in Seq(Words) /\ Within(r_in \o down, L)
  BY <1>1, OneMore, StreamType, Zenon DEF DownInv, DownTypes
<1>3. sent # <<>> /\ next \in Nat
  <2>1. sent # <<>> /\ next \in Nat \ {0}
    BY Zenon DEF DownInv, DownTypes, StartInv
  <2> QED BY <2>1
<1>4. Len(sent') >= 2 /\ L <= Len(sent') /\ L >= 1
  BY <1>2, <1>3
<1>5. torn' \in BOOLEAN /\ torn' \in {torn, TRUE}
  BY <1>2, Zenon
<1>6. DownTypes'
  BY <1>2, <1>4, <1>5, QuitStaged, Zenon
<1>7. StartInv'
  BY <1>1, <1>3, StartGrows, Zenon
<1>8. OutInv'
  BY <1>1, <1>4, AnnouncesGrow, Zenon DEF OutInv
<1>9. DownStep
  BY <1>1, <1>5, PutsMessage, Zenon
<1>10. CASE s_out = <<>> /\ torn' = torn
  <2>1. Stream = r_in \o down /\ Stream' = Stream \o t
    <3>1. Up(spc) /\ Up(spc)'
      BY Zenon DEF Up
    <3>2. Stream = (r_in \o down) \o <<>> /\ Stream' = (r_in \o down) \o t
      BY <1>2, <1>10, <3>1, Zenon DEF Stream, Unwritten
    <3> QED BY <1>2, <3>2, WithNothing
  <2>2. GreetInv'
    BY <1>1, <1>10, <2>1, GreetGrows, Zenon
  <2>3. InStep(Stream, sent) /\ Near(Stream, next) /\ Ends(Stream, sent, next)
    BY Zenon DEF DownInv, StreamInv
  <2>4. /\ InStep(Stream \o t, Append(sent, "quit")) /\ Near(Stream \o t, next)
        /\ Sharp(Stream, next) /\ (Stream = <<>> => next = L + 1) => Sharp(Stream \o t, next)
    BY <1>1, <1>2, <1>3, <2>1, <2>3, StreamGrows, Zenon
  <2>5. ~torn /\ Up(rpc) => Sharp(Stream \o t, next)
    BY <2>4, Zenon DEF DownInv, StreamInv
  <2>6. StreamInv'
    BY <1>10, <2>1, <2>4, <2>5, Zenon DEF StreamInv
  <2> QED BY <1>6, <1>7, <1>8, <1>9, <2>2, <2>6, Zenon DEF DownInv
<1>11. CASE s_out # <<>> /\ s_out[1].k # 1 /\ torn'
  <2>1. StreamInv'
    BY <1>11, Zenon DEF StreamInv
  <2>2. rpc # "greet"
    <3> SUFFICES ASSUME rpc = "greet" PROVE FALSE
      BY Zenon
    <3>1. s_out \in Seq(Words) /\ L >= 2
      BY <1>11, Zenon DEF DownInv, DownTypes, OutInv
    <3>2. L \in 2..L /\ 1 \in 1..Len(s_out)
      BY <1>2, <1>11, <3>1
    <3>3. sent[L] \in {"hb", "quit"}
      BY <3>2, Zenon DEF DownInv, GreetInv
    <3>4. Size(sent[L]) = 1
      BY <3>3, Sizes, Zenon
    <3>5. Len(s_out) <= 1 /\ s_out[1] = Word(L, 1 - Len(s_out) + 1)
      BY <3>2, <3>4, Zenon DEF DownInv, OutInv
    <3>6. 1 - Len(s_out) + 1 = 1
      BY <3>1, <3>2, <3>5
    <3>7. s_out[1].k = 1
      BY <3>5, <3>6 DEF Word
    <3> QED BY <1>11, <3>7, Zenon
  <2>3. GreetInv'
    BY <2>2, Zenon DEF GreetInv
  <2> QED BY <1>6, <1>7, <1>8, <1>9, <2>1, <2>3, Zenon DEF DownInv
<1> QED BY <1>10, <1>11, Zenon

(* The receiver has not taken what is still to be written: the farewell    *)
(* may take the place of a message not begun.                              *)
LEMMA NotTaken ==
    ASSUME DownInv, spc = "run", s_out # <<>>, s_out[1].k = 1
    PROVE  /\ Len(sent) >= next /\ s_out[1] = Word(Len(sent), 1)
           /\ Stream = (r_in \o down) \o s_out /\ Within(r_in \o down, Len(sent) - 1)
<1> DEFINE L == Len(sent)
           s == r_in \o down
<1>1. /\ s_out \in Seq(Words) /\ s \in Seq(Words) /\ r_in \in Seq(Words) /\ down \in Seq(Words)
      /\ Within(s_out, L) /\ Within(Stream, L) /\ Stream \in Seq(Words) /\ L \in Nat /\ L >= 2
      /\ Within(r_in, L - 1) /\ Within(down, L - 1)
  BY StreamType, Zenon DEF DownInv, DownTypes, OutInv
<1>2. Stream = s \o s_out
  BY Zenon DEF Stream, Unwritten, Up
<1>3. Within(s, L - 1)
  <2>1. L - 1 \in Nat
    BY <1>1
  <2> QED BY <1>1, <2>1, WithinJoined, Zenon
<1>4. s_out[1] = Word(L, 1)
  <2>1. 1 \in 1..Len(s_out)
    BY <1>1, Nonempty, Zenon
  <2>2. s_out[1].m = L
    <3>1. s_out[1] = Word(L, Size(sent[L]) - Len(s_out) + 1)
      BY <2>1, Zenon DEF DownInv, OutInv
    <3> QED BY <3>1 DEF Word
  <2>3. s_out[1] \in Words
    BY <1>1, <2>1, Nonempty, Zenon
  <2> QED BY <2>2, <2>3, WordFields, Zenon
<1>5. Stream # <<>> /\ Stream[1] = (IF s = <<>> THEN s_out[1] ELSE s[1])
  BY <1>1, <1>2, FirstAndLast, Zenon
<1>6. Stream[1].m >= next \/ (Stream[1].k > 1 /\ Stream[1].m >= next - 1)
  BY <1>5, Zenon DEF DownInv, StreamInv, Near
<1>7. next \in Nat
  <2>1. next \in Nat \ {0}
    BY Zenon DEF DownInv, DownTypes
  <2> QED BY <2>1
<1> HIDE DEF s, L
<1>8. CASE s = <<>>
  <2>1. Stream[1].m = L /\ Stream[1].k = 1
    BY <1>4, <1>5, <1>8 DEF Word
  <2>2. L >= next
    BY <1>1, <1>6, <1>7, <2>1
  <2> QED BY <1>2, <1>3, <1>4, <2>2, Zenon DEF s, L
<1>9. CASE s # <<>>
  <2>1. Stream[1] = s[1] /\ s[1] \in Words /\ s[1].m <= L - 1
    BY <1>1, <1>3, <1>5, <1>9, Nonempty, Zenon DEF Within
  <2>2. s[1].m \in Nat
    BY <2>1, WordFields
  <2>3. L >= next
    BY <1>1, <1>6, <1>7, <2>1, <2>2
  <2> QED BY <1>2, <1>3, <1>4, <2>3, Zenon DEF s, L
<1> QED BY <1>8, <1>9, Zenon

(* The farewell takes the place of a message not begun. *)
LEMMA QuitReplaces ==
    ASSUME DownInv, spc = "run", spc' = "telling", s_out # <<>>, s_out[1].k = 1,
           sent' = [sent EXCEPT ![Len(sent)] = "quit"], s_out' = WordsOf(Len(sent'), "quit"),
           UNCHANGED <<rpc, r_in, down, got, next, torn, up, heard>>
    PROVE  DownInv' /\ DownStep
<1> DEFINE L == Len(sent)
           s == r_in \o down
           t == WordsOf(L, "quit")
<1>1. /\ L >= next /\ s_out[1] = Word(L, 1) /\ Stream = s \o s_out /\ Within(s, L - 1)
  BY NotTaken, Zenon
<1>2. /\ sent \in Seq(Kinds) /\ s \in Seq(Words) /\ s_out \in Seq(Words) /\ L \in Nat
      /\ r_in \in Seq(Words) /\ Within(r_in, L - 1) /\ torn \in BOOLEAN
  BY StreamType, Zenon DEF DownInv, DownTypes, OutInv
<1>3. L >= 2 /\ next \in Nat
  <2>1. L >= 2 /\ next \in Nat \ {0}
    BY Zenon DEF DownInv, DownTypes, OutInv
  <2> QED BY <2>1
<1>4. "quit" \in Kinds
  BY DEF Kinds
<1>5. /\ sent' \in Seq(Kinds) /\ Len(sent') = L /\ sent'[L] = "quit"
      /\ \A i \in 1..(L - 1) : sent'[i] = sent[i]
  BY <1>2, <1>3, <1>4
<1>6. Len(sent') >= 2 /\ L <= Len(sent') /\ L \in Nat \ {0} /\ 1 \in 1..(L - 1) /\ L \in 2..L
  <2>1. L \in Nat /\ Len(sent') = L /\ L >= 2
    BY <1>2, <1>3, <1>5, Zenon
  <2> QED BY <2>1
<1>14. \A i \in 2..Len(sent') : i = L \/ (i \in 1..(L - 1) /\ i \in 2..L)
  <2>1. \A l \in Nat : \A i \in 2..l : i = l \/ (i \in 1..(l - 1) /\ i \in 2..l)
    OBVIOUS
  <2> QED BY <1>2, <1>5, <2>1, Zenon
<1>7. DownTypes'
  BY <1>2, <1>5, <1>6, QuitStaged, Zenon
<1>8. StartInv'
  <2>1. 1 \in 1..(L - 1) /\ sent # <<>> /\ sent' # <<>>
    <3>1. sent # <<>>
      BY Zenon DEF DownInv, StartInv
    <3>2. Len(sent') >= 2
      BY <1>6, Zenon
    <3>3. sent' # <<>>
      BY <3>2
    <3> QED BY <1>6, <3>1, <3>3, Zenon
  <2>2. ASSUME NEW i \in 2..Len(sent') PROVE sent'[i] # "greet"
    <3>1. CASE i = L
      BY <1>5, <3>1, Zenon
    <3>2. CASE i # L
      <4>1. i \in 1..(L - 1) /\ i \in 2..L
        BY <1>14, <3>2, Zenon
      <4> QED BY <1>5, <4>1, Zenon DEF DownInv, StartInv
    <3> QED BY <3>1, <3>2, Zenon
  <2>3. sent'[1] = "greet"
    BY <1>5, <2>1, Zenon DEF DownInv, StartInv
  <2> QED BY <2>1, <2>2, <2>3, Zenon DEF DownInv, StartInv
<1>9. OutInv'
  <2>1. ASSUME r_in # <<>> PROVE Announces(r_in[1])' = Announces(r_in[1])
    <3>1. 1 \in 1..Len(r_in) /\ r_in[1] \in Words
      BY <1>2, <2>1, Nonempty, Zenon
    <3>2. r_in[1].m <= L - 1 /\ r_in[1].m \in Nat \ {0}
      BY <1>2, <3>1, WordFields, Zenon DEF Within
    <3>3. r_in[1].m \in 1..(L - 1)
      BY <1>2, <3>2
    <3> QED BY <1>5, <3>3, Zenon DEF Announces
  <2> QED BY <1>6, <2>1, Zenon DEF DownInv, OutInv
<1>10. Stream' = s \o t
  BY <1>5, Zenon DEF Stream, Unwritten, Up
<1>11. GreetInv'
  <2> SUFFICES ASSUME rpc = "greet" PROVE GreetInv'
    BY Zenon DEF GreetInv
  <2>1. L \in 2..L /\ 1 \in 1..Len(s_out) /\ Len(s_out) \in Nat
    BY <1>2, <1>6, Nonempty, Zenon
  <2>2. sent[L] \in {"hb", "quit"}
    BY <2>1, Zenon DEF DownInv, GreetInv
  <2>3. Size(sent[L]) = 1
    BY <2>2, Sizes, Zenon
  <2>4. Len(s_out) <= 1
    BY <2>3, Zenon DEF DownInv, OutInv
  <2>5. Len(s_out) = 1 /\ 1 \in 1..1
    <3>1. (\A l \in Nat : 1 \in 1..l /\ l <= 1 => l = 1) /\ 1 \in 1..1
      OBVIOUS
    <3> QED BY <2>1, <2>4, <3>1, Zenon
  <2>6. t \in Seq(Words) /\ Len(t) = 1 /\ t[1] = Word(L, 1)
    BY <1>4, <1>6, <2>5, Sizes, Staged, Zenon
  <2>7. t = s_out
    BY <1>1, <1>2, <2>5, <2>6
  <2>8. Stream' = Stream
    BY <1>1, <1>10, <2>7, Zenon
  <2>9. ASSUME NEW i \in 2..Len(sent') PROVE sent'[i] \in {"hb", "quit"}
    <3>1. CASE i = L
      BY <1>5, <3>1, Zenon
    <3>2. CASE i # L
      <4>1. i \in 1..(L - 1) /\ i \in 2..L
        BY <1>14, <3>2, Zenon
      <4> QED BY <1>5, <4>1, Zenon DEF DownInv, GreetInv
    <3> QED BY <3>1, <3>2, Zenon
  <2> QED BY <2>8, <2>9, Zenon DEF DownInv, GreetInv
<1>12. StreamInv'
  <2>1. InStep(s \o s_out, sent) /\ Near(s \o s_out, next)
    BY <1>1, Zenon DEF DownInv, StreamInv
  <2>2. L >= 1
    BY <1>2, <1>3
  <2>3. InStep(s \o t, sent') /\ Near(s \o t, next) /\ (Sharp(s \o s_out, next) => Sharp(s \o t, next))
    BY <1>1, <1>2, <1>3, <2>1, <2>2, StreamReplaced, Zenon
  <2>4. ~torn /\ Up(rpc) => Sharp(s \o t, next)
    BY <1>1, <2>3, Zenon DEF DownInv, StreamInv
  <2> QED BY <1>10, <2>3, <2>4, Zenon DEF StreamInv
<1>13. DownStep
  BY <1>1, <1>4, ReplacesMessage, Zenon
<1> QED BY <1>7, <1>8, <1>9, <1>11, <1>12, <1>13, Zenon DEF DownInv

(* The farewell is put into out_buf, whatever is there. *)
LEMMA WillQuitStep ==
    ASSUME DownInv, WillQuit
    PROVE  DownInv' /\ DownStep
<1>1. /\ spc = "run" /\ spc' = "telling" /\ s_out' = WordsOf(Len(sent'), "quit")
      /\ sent' = IF s_out # <<>> /\ s_out[1].k = 1 THEN [sent EXCEPT ![Len(sent)] = "quit"]
                 ELSE Append(sent, "quit")
      /\ torn' = (torn \/ (s_out # <<>> /\ s_out[1].k > 1))
      /\ UNCHANGED <<rpc, r_in, down, got, next, up, heard>>
  BY Zenon DEF WillQuit, receiver, ups
<1>2. s_out \in Seq(Words) /\ torn \in BOOLEAN
  BY Zenon DEF DownInv, DownTypes
<1>3. s_out # <<>> => s_out[1].k \in 1..3
  BY <1>2, Nonempty, WordFields, Zenon
<1>4. CASE s_out = <<>>
  <2>1. torn' = torn
    BY <1>1, <1>2, <1>4, Zenon
  <2> QED BY <1>1, <1>4, <2>1, QuitAppended, Zenon
<1>5. CASE s_out # <<>> /\ s_out[1].k = 1
  <2>1. ~(s_out[1].k > 1)
    BY <1>5
  <2>2. torn' = torn
    BY <1>1, <1>2, <2>1, Zenon
  <2> QED BY <1>1, <1>5, <2>2, QuitReplaces, Zenon
<1>6. CASE s_out # <<>> /\ s_out[1].k # 1
  <2>1. s_out[1].k > 1
    BY <1>3, <1>6
  <2>2. torn'
    BY <1>1, <1>6, <2>1, Zenon
  <2> QED BY <1>1, <1>6, <2>2, QuitAppended, Zenon
<1> QED BY <1>4, <1>5, <1>6, Zenon

(* The farewell is written. *)
LEMMA WriteQuitStep ==
    ASSUME DownInv, WriteQuit
    PROVE  DownInv' /\ DownStep
<1>1. /\ spc = "telling" /\ spc' = "told" /\ down' = down \o s_out /\ s_out' = <<>>
      /\ UNCHANGED <<rpc, r_in, sent, got, next, torn, up, heard>>
  BY Zenon DEF WriteQuit, receiver, downs, ups
<1>2. /\ s_out \in Seq(Words) /\ down \in Seq(Words) /\ r_in \in Seq(Words) /\ Len(sent) \in Nat
      /\ Within(s_out, Len(sent)) /\ Within(down, Len(sent)) /\ Stream \in Seq(Words)
  BY StreamType, Zenon DEF DownInv, DownTypes
<1>3. down' \in Seq(Words) /\ Within(down', Len(sent))
  BY <1>1, <1>2, Joined, WithinJoined, Zenon
<1>4. Stream' = Stream
  <2>1. Stream = (r_in \o down) \o s_out
    BY <1>1, Zenon DEF Stream, Unwritten, Up
  <2>2. Stream' = (r_in \o (down \o s_out)) \o <<>>
    BY <1>1, Zenon DEF Stream, Unwritten, Up
  <2>3. (r_in \o down) \o s_out = r_in \o (down \o s_out)
    BY <1>2, Regrouped, Zenon
  <2>4. Stream' = Stream \o <<>>
    BY <2>1, <2>2, <2>3, Zenon
  <2> QED BY <1>2, <2>4, WithNothing
<1>5. DownTypes'
  BY <1>1, <1>2, <1>3, Empty, Zenon DEF DownInv, DownTypes, Within
<1>6. StartInv'
  BY <1>1, Zenon DEF DownInv, StartInv
<1>7. OutInv'
  BY <1>1, Zenon DEF DownInv, OutInv, Announces
<1>8. GreetInv'
  BY <1>1, <1>4, Zenon DEF DownInv, GreetInv
<1>9. StreamInv'
  BY <1>1, <1>4, Zenon DEF DownInv, StreamInv
<1> QED BY <1>1, <1>5, <1>6, <1>7, <1>8, <1>9, KeepsMessages, Zenon DEF DownInv, downs

(* What the receiver has in in_buf when it has read n words more, and what *)
(* follows.                                                                *)
Got(n) == r_in \o Upto(down, n)
Rest(n) == From(down, n) \o Unwritten

(* Reading divides the stream. *)
LEMMA ReadOn ==
    ASSUME DownInv, NEW n \in 1..Len(down)
    PROVE  /\ Got(n) \in Seq(Words) /\ Len(Got(n)) = Len(r_in) + n /\ Within(Got(n), Len(sent))
           /\ From(down, n) \in Seq(Words) /\ Within(From(down, n), Len(sent))
           /\ Rest(n) \in Seq(Words) /\ Stream = Got(n) \o Rest(n)
           /\ spc # "accept" /\ Len(sent) \in Nat
<1>1. /\ r_in \in Seq(Words) /\ down \in Seq(Words) /\ Unwritten \in Seq(Words) /\ Len(sent) \in Nat
      /\ Within(r_in, Len(sent)) /\ Within(down, Len(sent))
  BY StreamType, Zenon DEF DownInv, DownTypes
<1>2. n \in 0..Len(down) /\ Len(down) # 0
  BY <1>1
<1>3. /\ Got(n) \in Seq(Words) /\ Len(Got(n)) = Len(r_in) + n /\ Within(Got(n), Len(sent))
      /\ From(down, n) \in Seq(Words) /\ Within(From(down, n), Len(sent))
  BY <1>1, <1>2, Moved, Zenon DEF Got
<1>4. Rest(n) \in Seq(Words)
  BY <1>1, <1>3, Joined, Zenon DEF Rest
<1>5. Stream = Got(n) \o Rest(n)
  <2>1. Got(n) \o From(down, n) = r_in \o down
    BY <1>1, <1>2, Regroup, Zenon DEF Got
  <2>2. (Got(n) \o From(down, n)) \o Unwritten = Got(n) \o Rest(n)
    BY <1>1, <1>3, Regrouped, Zenon DEF Rest
  <2> QED BY <2>1, <2>2, Zenon DEF Stream
<1>6. spc # "accept"
  BY <1>2, Empty, Zenon DEF DownInv, StartInv
<1> QED BY <1>1, <1>3, <1>4, <1>5, <1>6, Zenon

(* A message that is not begun is not in the connection after reading. *)
LEMMA UnbegunKept ==
    ASSUME DownInv, NEW n \in 1..Len(down), spc = "run", s_out # <<>>, s_out[1].k = 1
    PROVE  Within(Got(n), Len(sent) - 1) /\ Within(From(down, n), Len(sent) - 1)
<1>1. /\ r_in \in Seq(Words) /\ down \in Seq(Words) /\ Len(sent) \in Nat /\ Len(sent) >= 2
      /\ Within(r_in, Len(sent) - 1) /\ Within(down, Len(sent) - 1)
  BY ReadOn, Zenon DEF DownInv, DownTypes, OutInv
<1>2. n \in 0..Len(down) /\ Len(sent) - 1 \in Nat
  BY <1>1
<1> QED BY <1>1, <1>2, Moved, Zenon DEF Got

(* What is read is taken: the stream goes on behind it. *)
LEMMA Consumed ==
    ASSUME DownInv, NEW n \in 1..Len(down), down' = From(down, n), r_in' = <<>>,
           rpc' \in {"run", "ended"}, next' \in Nat \ {0}, rpc' = "run" => next' >= 2,
           torn' \in BOOLEAN, UNCHANGED <<spc, s_out, sent>>
    PROVE  /\ Stream' = Rest(n)
           /\ DownTypes' /\ StartInv' /\ OutInv' /\ GreetInv'
<1>1. /\ From(down, n) \in Seq(Words) /\ Within(From(down, n), Len(sent)) /\ Len(sent) \in Nat
      /\ spc # "accept"
  BY ReadOn, Zenon
<1>2. Stream' = Rest(n)
  <2>1. <<>> \o From(down, n) = From(down, n)
    BY <1>1, WithNothing
  <2>2. Unwritten' = Unwritten
    BY Zenon DEF Unwritten
  <2>3. Stream' = (<<>> \o From(down, n)) \o Unwritten
    BY <2>2, Zenon DEF Stream
  <2> QED BY <2>1, <2>3, Zenon DEF Rest
<1>3. DownTypes'
  <2>1. Within(<<>>, Len(sent)) /\ <<>> \in Seq(Words)
    BY <1>1, Empty, Zenon
  <2> QED BY <1>1, <2>1, Zenon DEF DownInv, DownTypes, Within
<1>4. StartInv'
  BY <1>1, Zenon DEF DownInv, StartInv
<1>5. OutInv'
  <2>1. Len(<<>>) <= 2
    BY Empty
  <2>2. Within(<<>>, Len(sent) - 1)
    BY <1>1, Empty DEF Within
  <2>3. spc = "run" /\ s_out # <<>> /\ s_out[1].k = 1 => Within(From(down, n), Len(sent) - 1)
    BY UnbegunKept, Zenon
  <2> QED BY <2>1, <2>2, <2>3, Zenon DEF DownInv, OutInv
<1>6. GreetInv'
  BY Zenon DEF GreetInv
<1> QED BY <1>2, <1>3, <1>4, <1>5, <1>6, Zenon

(* A heartbeat, a reply or the farewell is taken; once something is torn,  *)
(* it may be something else.                                               *)
LEMMA Taken ==
    ASSUME DownInv, rpc = "run", NEW n \in 1..Len(down), down' = From(down, n), r_in' = <<>>,
           rpc' \in {"run", "ended"}, NEW m \in Kinds \cup {Garbled}, got' = Append(got, m),
           next' = next + 1, UNCHANGED <<spc, s_out, sent, torn>>,
           Got(n)[1].k = 1 /\ IsWhole(Got(n)) => m = sent[Got(n)[1].m],
           ~torn \/ spc = "run" => Unit(Got(n), sent)
    PROVE  DownInv' /\ DownStep
<1>1. /\ Got(n) \in Seq(Words) /\ Within(Got(n), Len(sent)) /\ Rest(n) \in Seq(Words)
      /\ Stream = Got(n) \o Rest(n) /\ spc # "accept" /\ Len(sent) \in Nat
  BY ReadOn, Zenon
<1>2. sent \in Seq(Kinds) /\ torn \in BOOLEAN /\ next \in Nat \ {0} /\ next >= 2
  BY Zenon DEF DownInv, DownTypes, StartInv
<1>3. next \in Nat /\ next' \in Nat \ {0} /\ next' >= 2 /\ next' \in Nat
  BY <1>2
<1>4. Stream' = Rest(n) /\ DownTypes' /\ StartInv' /\ OutInv' /\ GreetInv'
  BY <1>2, <1>3, Consumed, Zenon
<1>5. Got(n) # <<>> /\ Got(n)[1].m \in 1..Len(sent)
  <2>1. Len(Got(n)) = Len(r_in) + n /\ r_in \in Seq(Words)
    BY ReadOn, Zenon DEF DownInv, DownTypes
  <2>2. Len(r_in) \in Nat
    BY <2>1, Nonempty, Zenon
  <2>3. Len(Got(n)) # 0
    BY <2>1, <2>2
  <2>4. Got(n) # <<>> /\ 1 \in 1..Len(Got(n)) /\ Got(n)[1] \in Words
    BY <1>1, <2>3, Nonempty, Zenon
  <2>5. Got(n)[1].m <= Len(sent) /\ Got(n)[1].m \in Nat \ {0}
    BY <1>1, <2>4, WordFields, Zenon DEF Within
  <2>6. Got(n)[1].m \in 1..Len(sent)
    BY <1>1, <2>5
  <2> QED BY <2>4, <2>6, Zenon
<1>6. ASSUME ~torn \/ spc = "run"
      PROVE  /\ InStep(Rest(n), sent) /\ Near(Rest(n), next + 1)
             /\ Ends(Stream, sent, next) => Ends(Rest(n), sent, next + 1)
             /\ Sharp(Stream, next) =>
                   Sharp(Rest(n), next + 1) /\ IsWhole(Got(n)) /\ Got(n)[1] = Word(next, 1)
             /\ Sharp(Stream, next) /\ Ends(Stream, sent, next) /\ Rest(n) = <<>> => next = Len(sent)
  <2>1. InStep(Stream, sent) /\ Near(Stream, next)
    BY <1>6, Zenon DEF DownInv, StreamInv
  <2>2. InStep(Got(n) \o Rest(n), sent) /\ Near(Got(n) \o Rest(n), next) /\ Unit(Got(n), sent)
    BY <1>1, <1>6, <2>1, Zenon
  <2> QED BY <1>1, <1>2, <1>3, <2>2, StreamTaken, Zenon
<1>7. ~torn => Sharp(Stream, next)
  BY Zenon DEF DownInv, StreamInv, Up
<1>8. StreamInv'
  <2>1. ~torn \/ spc \in {"accept", "run"} => InStep(Rest(n), sent) /\ Near(Rest(n), next + 1)
    BY <1>1, <1>6, Zenon
  <2>2. ~torn => Sharp(Rest(n), next + 1)
    BY <1>6, <1>7, Zenon
  <2>3. spc = "run" => Ends(Stream, sent, next)
    BY Zenon DEF DownInv, StreamInv
  <2>4. spc = "run" => Ends(Rest(n), sent, next + 1)
    BY <1>6, <2>3, Zenon
  <2>5. spc = "run" /\ ~torn /\ Rest(n) = <<>> => next + 1 = Len(sent) + 1
    BY <1>6, <1>7, <2>3, Zenon
  <2> QED BY <1>4, <2>1, <2>2, <2>4, <2>5, Zenon DEF StreamInv
<1>9. DownStep
  <2>1. CASE torn
    BY <1>3, <2>1, TakesAnything, Zenon
  <2>2. CASE ~torn
    <3>1. IsWhole(Got(n)) /\ Got(n)[1] = Word(next, 1)
      BY <1>6, <1>7, <2>2, Zenon
    <3>2. Got(n)[1].m = next /\ Got(n)[1].k = 1
      BY <3>1 DEF Word
    <3>3. m = sent[next] /\ next \in 1..Len(sent)
      BY <1>5, <3>1, <3>2, Zenon
    <3>4. next <= Len(sent)
      BY <1>1, <3>3
    <3> QED BY <3>3, <3>4, TakesMessage, Zenon
  <2> QED BY <2>1, <2>2, Zenon
<1> QED BY <1>4, <1>8, <1>9, Zenon DEF DownInv

(* The beginning of a message is kept in in_buf: the stream is the same. *)
LEMMA Kept ==
    ASSUME DownInv, rpc = "run", NEW n \in 1..Len(down), down' = From(down, n), r_in' = Got(n),
           Len(Got(n)) < 3, Announces(Got(n)[1]) \notin {"quit", "hb"},
           UNCHANGED <<rpc, got, next, spc, s_out, sent, torn>>
    PROVE  DownInv' /\ DownStep
<1>1. /\ Got(n) \in Seq(Words) /\ Within(Got(n), Len(sent)) /\ spc # "accept"
      /\ From(down, n) \in Seq(Words) /\ Within(From(down, n), Len(sent))
      /\ r_in \in Seq(Words) /\ down \in Seq(Words)
  BY ReadOn, Zenon DEF DownInv, DownTypes
<1>2. Stream' = Stream
  <2>1. n \in 0..Len(down)
    BY <1>1
  <2>2. Got(n) \o From(down, n) = r_in \o down
    BY <1>1, <2>1, Regroup, Zenon DEF Got
  <2>3. Stream' = (Got(n) \o From(down, n)) \o Unwritten
    BY Zenon DEF Stream, Unwritten
  <2> QED BY <2>2, <2>3, Zenon DEF Stream
<1>3. DownTypes'
  BY <1>1, Zenon DEF DownInv, DownTypes, Within
<1>4. StartInv'
  BY <1>1, Zenon DEF DownInv, StartInv
<1>5. OutInv'
  <2>1. spc = "run" /\ s_out # <<>> /\ s_out[1].k = 1 =>
           Within(Got(n), Len(sent) - 1) /\ Within(From(down, n), Len(sent) - 1)
    BY UnbegunKept, Zenon
  <2>2. Len(Got(n)) \in Nat
    BY <1>1, Nonempty, Zenon
  <2>3. Len(Got(n)) <= 2
    BY <2>2
  <2>4. Announces(r_in[1])' = Announces(Got(n)[1])
    BY Zenon DEF Announces
  <2> QED BY <2>1, <2>3, <2>4, Zenon DEF DownInv, OutInv
<1>6. GreetInv'
  BY Zenon DEF GreetInv
<1>7. StreamInv'
  BY <1>2, Zenon DEF DownInv, StreamInv
<1> QED BY <1>3, <1>4, <1>5, <1>6, <1>7, KeepsMessages, Zenon DEF DownInv, downs

(* How much the receiver has when it looks at what it read. *)
LEMMA HowMuch ==
    ASSUME DownInv, NEW n \in 1..Len(down),
           n <= Least(Len(down), (IF r_in = <<>> THEN 1 ELSE 3) - Len(r_in))
    PROVE  /\ Len(Got(n)) \in 1..3 /\ Got(n)[1] \in Words /\ Got(n)[1].m \in 1..Len(sent)
           /\ Len(Got(n)) # 1 => Announces(Got(n)[1]) \notin {"quit", "hb"}
<1>1. /\ r_in \in Seq(Words) /\ Len(Got(n)) = Len(r_in) + n /\ Got(n) \in Seq(Words)
      /\ down \in Seq(Words) /\ Within(Got(n), Len(sent)) /\ Len(r_in) <= 2 /\ Len(sent) \in Nat
  BY ReadOn, Zenon DEF DownInv, DownTypes, OutInv
<1>2. Len(r_in) \in Nat /\ (r_in = <<>> <=> Len(r_in) = 0) /\ Len(down) \in Nat
  BY <1>1, Nonempty, Zenon
<1>3. n <= (IF r_in = <<>> THEN 1 ELSE 3) - Len(r_in)
  BY <1>2 DEF Least
<1>4. Len(Got(n)) \in 1..3 /\ (r_in = <<>> => Len(Got(n)) = 1) /\ Len(Got(n)) # 0
  BY <1>1, <1>2, <1>3
<1>5. Got(n) # <<>> /\ 1 \in 1..Len(Got(n)) /\ Got(n)[1] \in Words
  BY <1>1, <1>4, Nonempty, Zenon
<1>6. Got(n)[1].m <= Len(sent) /\ Got(n)[1].m \in Nat \ {0}
  BY <1>1, <1>5, WordFields, Zenon DEF Within
<1>7. Got(n)[1].m \in 1..Len(sent)
  BY <1>1, <1>6
<1>8. ASSUME r_in # <<>> PROVE Announces(Got(n)[1]) \notin {"quit", "hb"}
  <2>1. Upto(down, n) \in Seq(Words)
    <3>1. n \in 0..Len(down)
      BY <1>2
    <3> QED BY <1>1, <3>1, Parts, Zenon
  <2>2. Got(n)[1] = r_in[1]
    BY <1>1, <1>8, <2>1, HeadOf, Zenon DEF Got
  <2> QED BY <1>8, <2>2, Zenon DEF DownInv, OutInv
<1> QED BY <1>4, <1>5, <1>7, <1>8, Zenon

(* One word that announces a heartbeat or the farewell is all of it. *)
LEMMA ShortUnit ==
    ASSUME NEW ws, Len(ws) = 1, Announces(ws[1]) \in {"quit", "hb"}
    PROVE  /\ ws[1].k = 1 /\ sent[ws[1].m] = Announces(ws[1]) /\ Unit(ws, sent)
<1>1. "reply" # "quit" /\ "reply" # "hb" /\ 1 # 3
  OBVIOUS
<1>2. ws[1].k = 1 /\ sent[ws[1].m] = Announces(ws[1])
  BY <1>1, Zenon DEF Announces
<1>3. Size(sent[ws[1].m]) = 1
  BY <1>2, Sizes, Zenon
<1> QED BY <1>1, <1>2, <1>3, Zenon DEF Unit

(* Three words that begin a message are a reply. *)
LEMMA LongUnit ==
    ASSUME DownInv, rpc = "run", NEW n \in 1..Len(down), Len(Got(n)) = 3,
           Got(n)[1] \in Words, Got(n)[1].m \in 1..Len(sent),
           Announces(Got(n)[1]) \notin {"quit", "hb"}, ~torn \/ spc = "run"
    PROVE  Unit(Got(n), sent)
<1> SUFFICES ASSUME Got(n)[1].k = 1 PROVE Size(sent[Got(n)[1].m]) = 3
  <2>1. 1 # 3
    OBVIOUS
  <2> QED BY <2>1, Zenon DEF Unit
<1> DEFINE w == Got(n)[1]
<1>1. /\ Got(n) \in Seq(Words) /\ Rest(n) \in Seq(Words) /\ Stream = Got(n) \o Rest(n)
      /\ Len(sent) \in Nat /\ sent \in Seq(Kinds)
  BY ReadOn, Zenon DEF DownInv, DownTypes
<1>2. Got(n) # <<>>
  <2>1. Len(Got(n)) # 0
    OBVIOUS
  <2> QED BY <1>1, <2>1, Nonempty, Zenon
<1>3. Stream # <<>> /\ Stream[1] = w
  BY <1>1, <1>2, HeadOf, Zenon
<1>4. Near(Stream, next) /\ next >= 2 /\ next \in Nat \ {0}
  BY Zenon DEF DownInv, StreamInv, StartInv, DownTypes
<1>5. w.m >= next \/ (w.k > 1 /\ w.m >= next - 1)
  BY <1>3, <1>4, Zenon DEF Near
<1>6. w.m \in 2..Len(sent)
  BY <1>1, <1>4, <1>5
<1>7. sent[w.m] # "greet"
  BY <1>6, Zenon DEF DownInv, StartInv
<1>8. sent[w.m] \notin {"quit", "hb"}
  BY Zenon DEF Announces
<1>9. sent[w.m] \in Kinds
  BY <1>1
<1>10. sent[w.m] = "reply"
  BY <1>7, <1>8, <1>9, Zenon DEF Kinds
<1> QED BY <1>10, Sizes, Zenon

(* What the receiver does with what it has: the arms of ReceiverRead. *)
LEMMA ReadArms ==
    ASSUME NEW n \in 1..DownCap, ReceiverRead(n)
    PROVE  LET ws == Got(n) IN
           \/ Len(ws) = 1 /\ Announces(ws[1]) = "quit" /\ rpc' = "ended" /\ r_in' = <<>>
              /\ TakeMessage("quit")
           \/ Len(ws) = 1 /\ Announces(ws[1]) = "hb" /\ rpc' = rpc /\ r_in' = <<>>
              /\ TakeMessage("hb")
           \/ Len(ws) < 3 /\ Announces(ws[1]) \notin {"quit", "hb"} /\ r_in' = ws
              /\ UNCHANGED <<rpc, got, next>>
           \/ ~(Len(ws) < 3 /\ Announces(ws[1]) \notin {"quit", "hb"})
              /\ ~(Len(ws) = 1 /\ Announces(ws[1]) \in {"quit", "hb"})
              /\ r_in' = <<>> /\ UNCHANGED rpc
              /\ TakeMessage(IF IsWhole(ws) THEN sent[ws[1].m] ELSE Garbled)
BY Zenon DEF ReceiverRead, Got

(* Whatever the receiver has read is taken or kept. *)
LEMMA ReceiverReadStep ==
    ASSUME DownInv, NEW n \in 1..DownCap, ReceiverRead(n)
    PROVE  DownInv' /\ DownStep
<1> DEFINE ws == Got(n)
<1>1. /\ rpc = "run" /\ n <= Least(Len(down), (IF r_in = <<>> THEN 1 ELSE 3) - Len(r_in))
      /\ down' = From(down, n) /\ UNCHANGED <<spc, s_out, sent, torn, up, heard>>
  BY Zenon DEF ReceiverRead, sender, ups
<1>2. n \in 1..Len(down)
  <2>1. Len(down) \in Nat /\ Len(r_in) \in Nat
    <3>1. down \in Seq(Words) /\ r_in \in Seq(Words)
      BY Zenon DEF DownInv, DownTypes
    <3> QED BY <3>1, Nonempty, Zenon
  <2>2. DownCap \in Nat
    BY ConnectionAssumption
  <2> QED BY <1>1, <2>1, <2>2 DEF Least
<1>3. /\ Len(ws) \in 1..3 /\ ws[1] \in Words /\ ws[1].m \in 1..Len(sent)
      /\ Len(ws) # 1 => Announces(ws[1]) \notin {"quit", "hb"}
  BY <1>1, <1>2, HowMuch, Zenon
<1>4. "quit" \in Kinds /\ "hb" \in Kinds
  BY DEF Kinds
<1>5. ASSUME NEW m \in {"quit", "hb"}, Len(ws) = 1, Announces(ws[1]) = m, r_in' = <<>>,
             rpc' \in {"run", "ended"}, TakeMessage(m)
      PROVE  DownInv' /\ DownStep
  <2>1. sent[ws[1].m] = m /\ Unit(ws, sent)
    BY <1>5, ShortUnit, Zenon
  <2>2. m \in Kinds \cup {Garbled}
    BY <1>4, <1>5, Zenon
  <2>3. got' = Append(got, m) /\ next' = next + 1
    BY <1>5, Zenon DEF TakeMessage
  <2> QED BY <1>1, <1>2, <1>5, <2>1, <2>2, <2>3, Taken, Zenon
<1>6. CASE Len(ws) = 1 /\ Announces(ws[1]) = "quit" /\ rpc' = "ended" /\ r_in' = <<>>
           /\ TakeMessage("quit")
  BY <1>5, <1>6, Zenon
<1>7. CASE Len(ws) = 1 /\ Announces(ws[1]) = "hb" /\ rpc' = rpc /\ r_in' = <<>>
           /\ TakeMessage("hb")
  BY <1>1, <1>5, <1>7, Zenon
<1>8. CASE Len(ws) < 3 /\ Announces(ws[1]) \notin {"quit", "hb"} /\ r_in' = ws
           /\ UNCHANGED <<rpc, got, next>>
  BY <1>1, <1>2, <1>8, Kept, Zenon
<1>9. CASE /\ ~(Len(ws) < 3 /\ Announces(ws[1]) \notin {"quit", "hb"})
           /\ ~(Len(ws) = 1 /\ Announces(ws[1]) \in {"quit", "hb"})
           /\ r_in' = <<>> /\ UNCHANGED rpc
           /\ TakeMessage(IF IsWhole(ws) THEN sent[ws[1].m] ELSE Garbled)
  <2> DEFINE m == IF IsWhole(ws) THEN sent[ws[1].m] ELSE Garbled
  <2>1. Announces(ws[1]) \notin {"quit", "hb"} /\ ~(Len(ws) < 3)
    BY <1>3, <1>9, Zenon
  <2>2. Len(ws) = 3
    <3>1. \A l \in 1..3 : l < 3 \/ l = 3
      OBVIOUS
    <3> QED BY <1>3, <2>1, <3>1, Zenon
  <2>3. sent[ws[1].m] \in Kinds
    <3>1. sent \in Seq(Kinds)
      BY Zenon DEF DownInv, DownTypes
    <3> QED BY <1>3, <3>1
  <2>4. m \in Kinds \cup {Garbled} /\ (IsWhole(ws) => m = sent[ws[1].m])
    BY <2>3, Zenon
  <2>5. got' = Append(got, m) /\ next' = next + 1
    BY <1>9, Zenon DEF TakeMessage
  <2>6. ~torn \/ spc = "run" => Unit(ws, sent)
    BY <1>1, <1>2, <1>3, <2>1, <2>2, LongUnit, Zenon
  <2>7. rpc' \in {"run", "ended"} /\ r_in' = <<>>
    BY <1>1, <1>9, Zenon
  <2> HIDE DEF m
  <2> QED BY <1>1, <1>2, <2>4, <2>5, <2>6, <2>7, Taken, Zenon
<1> QED BY <1>6, <1>7, <1>8, <1>9, ReadArms, Zenon

(* Before the greeting is read, what comes behind its first n words. *)
LEMMA GreetingRest ==
    ASSUME DownInv, rpc = "greet", NEW n \in 1..Len(down)
    PROVE  /\ InStep(Rest(n), sent) /\ Len(sent) >= 1 /\ n <= Len(sent) + 1
           /\ Rest(n) # <<>> => Rest(n)[1] = IF n = 1 THEN Word(1, 2) ELSE Word(n, 1)
           /\ spc = "run" /\ Rest(n) # <<>> =>
                 Follow(Rest(n)[Len(Rest(n))], sent) = Word(Len(sent) + 1, 1)
           /\ spc = "run" /\ Rest(n) = <<>> => n = Len(sent) + 1
<1> DEFINE ws == Got(n)
           rest == Rest(n)
<1>1. /\ ws \in Seq(Words) /\ rest \in Seq(Words) /\ Stream = ws \o rest /\ Len(ws) = Len(r_in) + n
      /\ Len(sent) \in Nat
  BY ReadOn, Zenon
<1>2. r_in = <<>> /\ ~torn /\ next = 1
  BY Zenon DEF DownInv, GreetInv
<1>3. Len(ws) = n
  <2>1. Len(ws) = 0 + n
    BY <1>1, <1>2, Empty, Zenon
  <2> QED BY <2>1
<1>4. Len(Stream) = n + Len(rest) /\ Len(rest) \in Nat /\ Stream \in Seq(Words)
      /\ Within(Stream, Len(sent))
  BY <1>1, <1>3, Joined, StreamType, Zenon DEF DownInv
<1>5. /\ n \in 1..Len(Stream) /\ 1 \in 1..Len(Stream)
      /\ Len(rest) # 0 => n + 1 \in 1..Len(Stream) /\ 1 \in 1..Len(rest)
  BY <1>4
<1>6. \A i \in 1..Len(Stream) :
         Stream[i] = IF i = 1 THEN Word(1, 1) ELSE IF i = 2 THEN Word(1, 2) ELSE Word(i - 1, 1)
  BY Zenon DEF DownInv, GreetInv
<1>7. InStep(Stream, sent)
  BY <1>2, Zenon DEF DownInv, StreamInv
<1>8. InStep(rest, sent)
  BY <1>1, <1>7, SplitInStep, Zenon
<1>9. Stream[1].m <= Len(sent) /\ Stream[n].m <= Len(sent)
  BY <1>4, <1>5, Zenon DEF Within
<1>10. Len(sent) >= 1
  <2>1. Stream[1] = Word(1, 1)
    BY <1>5, <1>6, Zenon
  <2>2. Stream[1].m = 1
    BY <2>1 DEF Word
  <2>3. 1 <= Len(sent)
    BY <1>9, <2>2, Zenon
  <2> QED BY <1>1, <2>3
<1>11. n <= Len(sent) + 1
  <2>1. CASE n \in {1, 2}
    BY <1>1, <1>10, <2>1
  <2>2. CASE n \notin {1, 2}
    <3>1. Stream[n] = Word(n - 1, 1)
      BY <1>5, <1>6, <2>2
    <3>2. Stream[n].m = n - 1
      BY <3>1 DEF Word
    <3>3. n - 1 <= Len(sent)
      BY <1>9, <3>2, Zenon
    <3> QED BY <1>1, <3>3
  <2> QED BY <2>1, <2>2, Zenon
<1>12. ASSUME rest # <<>> PROVE rest[1] = IF n = 1 THEN Word(1, 2) ELSE Word(n, 1)
  <2>1. n + 1 \in 1..Len(Stream) /\ 1 \in 1..Len(rest)
    BY <1>1, <1>5, <1>12, Nonempty, Zenon
  <2>2. Stream[n + 1] = rest[1]
    <3>1. (ws \o rest)[Len(ws) + 1] = rest[1]
      BY <1>1, <2>1, Joined, Zenon
    <3> QED BY <1>1, <1>3, <3>1, Zenon
  <2>3. n + 1 # 1 /\ (n = 1 => n + 1 = 2) /\ (n # 1 => n + 1 # 2) /\ n + 1 - 1 = n
    OBVIOUS
  <2>4. Stream[n + 1] = IF n + 1 = 1 THEN Word(1, 1) ELSE IF n + 1 = 2 THEN Word(1, 2)
                        ELSE Word(n + 1 - 1, 1)
    BY <1>6, <2>1
  <2> QED BY <2>2, <2>3, <2>4
<1>13. ASSUME spc = "run", rest # <<>>
       PROVE  Follow(rest[Len(rest)], sent) = Word(Len(sent) + 1, 1)
  <2>1. Stream # <<>> /\ Stream[Len(Stream)] = rest[Len(rest)]
    BY <1>1, <1>13, FirstAndLast, Zenon
  <2>2. Ends(Stream, sent, next)
    BY <1>13, Zenon DEF DownInv, StreamInv
  <2> QED BY <2>1, <2>2, Zenon DEF Ends
<1>14. ASSUME spc = "run", rest = <<>> PROVE n = Len(sent) + 1
  <2>1. Len(Stream) = Len(sent) + 1
    BY <1>14, Zenon DEF DownInv, GreetInv
  <2>2. Len(rest) = 0
    BY <1>14, Empty, Zenon
  <2>3. Len(Stream) = n
    BY <1>4, <2>2
  <2> QED BY <2>1, <2>3, Zenon
<1> QED BY <1>8, <1>10, <1>11, <1>12, <1>13, <1>14, Zenon

(* The greeting is read: all of it and perhaps more, or its first word. *)
LEMMA ReadGreetingStep ==
    ASSUME DownInv, NEW n \in 1..DownCap, ReadGreeting(n)
    PROVE  DownInv' /\ DownStep
<1> DEFINE L == Len(sent)
           rest == Rest(n)
<1>1. /\ rpc = "greet" /\ n <= Len(down) /\ down' = From(down, n)
      /\ UNCHANGED <<spc, s_out, r_in, sent>>
  BY Zenon DEF ReadGreeting, sender
<1>2. n \in 1..Len(down)
  <2>1. down \in Seq(Words) /\ DownCap \in Nat \ {0}
    BY ConnectionAssumption, Zenon DEF DownInv, DownTypes
  <2>2. Len(down) \in Nat
    BY <2>1, Nonempty, Zenon
  <2> QED BY <1>1, <2>1, <2>2
<1>3. /\ InStep(rest, sent) /\ L >= 1 /\ n <= L + 1
      /\ rest # <<>> => rest[1] = IF n = 1 THEN Word(1, 2) ELSE Word(n, 1)
      /\ spc = "run" /\ rest # <<>> => Follow(rest[Len(rest)], sent) = Word(L + 1, 1)
      /\ spc = "run" /\ rest = <<>> => n = L + 1
  BY <1>1, <1>2, GreetingRest, Zenon
<1>4. r_in' = <<>> /\ got = <<>> /\ next = 1 /\ ~torn /\ torn \in BOOLEAN
  BY <1>1, Zenon DEF DownInv, GreetInv, DownTypes
<1>5. L \in Nat /\ spc # "accept"
  BY <1>2, ReadOn, Zenon
<1>6. sent # <<>> /\ sent[1] = "greet"
  <2>1. sent # <<>>
    <3>1. L # 0
      BY <1>3, <1>5
    <3> QED BY <3>1, Empty, Zenon
  <2> QED BY <2>1, Zenon DEF DownInv, StartInv
<1>7. ASSUME NEW k \in 1..(L + 1), spc = "run", rest = <<>> => k <= L + 1
      PROVE  Ends(rest, sent, k)
  BY <1>3, <1>7, Zenon DEF Ends
<1>8. CASE n >= 2 /\ rpc' = "run" /\ got' = <<"greet">> /\ next' = n /\ UNCHANGED torn
  <2>1. next' \in Nat \ {0} /\ next' >= 2 /\ next' \in 2..(L + 1) /\ n # 1 /\ n \in 1..(L + 1)
    BY <1>2, <1>3, <1>5, <1>8
  <2>2. torn' \in BOOLEAN /\ torn' \in {torn, TRUE} /\ ~torn'
    BY <1>4, <1>8, Zenon
  <2>3. Stream' = rest /\ DownTypes' /\ StartInv' /\ OutInv' /\ GreetInv'
    BY <1>1, <1>2, <1>4, <1>8, <2>1, <2>2, Consumed, Zenon
  <2>4. rest # <<>> => rest[1] = Word(n, 1)
    BY <1>3, <2>1, Zenon
  <2>5. Sharp(rest, n)
    BY <2>4, Zenon DEF Sharp
  <2>6. Near(rest, n)
    BY <2>4 DEF Near, Word
  <2>7. spc = "run" => Ends(rest, sent, n)
    BY <1>3, <1>7, <2>1, Zenon
  <2>8. StreamInv'
    BY <1>1, <1>3, <1>8, <2>3, <2>5, <2>6, <2>7, Zenon DEF StreamInv
  <2>9. DownStep
    BY <1>1, <1>4, <1>6, <1>8, <2>1, <2>2, TakesGreeting, Zenon
  <2> QED BY <2>3, <2>8, <2>9, Zenon DEF DownInv
<1>9. CASE n = 1 /\ rpc' = "run" /\ got' = <<"greet">> /\ next' = 2 /\ torn' = TRUE
  <2>1. next' \in Nat \ {0} /\ next' >= 2 /\ next' \in 2..(L + 1) /\ 2 \in 1..(L + 1)
    BY <1>3, <1>5, <1>9
  <2>2. torn' \in BOOLEAN /\ torn' \in {torn, TRUE} /\ torn'
    BY <1>9, Zenon
  <2>3. Stream' = rest /\ DownTypes' /\ StartInv' /\ OutInv' /\ GreetInv'
    BY <1>1, <1>2, <1>4, <1>9, <2>1, <2>2, Consumed, Zenon
  <2>4. rest # <<>> => rest[1] = Word(1, 2)
    BY <1>3, <1>9, Zenon
  <2>5. Near(rest, 2)
    BY <2>4 DEF Near, Word
  <2>6. 2 <= L + 1
    BY <1>3, <1>5
  <2>7. spc = "run" => Ends(rest, sent, 2)
    BY <1>7, <2>1, <2>6, Zenon
  <2>8. StreamInv'
    BY <1>1, <1>3, <1>9, <2>2, <2>3, <2>5, <2>7, Zenon DEF StreamInv
  <2>9. DownStep
    BY <1>1, <1>4, <1>6, <1>9, <2>1, <2>2, TakesGreeting, Zenon
  <2> QED BY <2>3, <2>8, <2>9, Zenon DEF DownInv
<1>10. CASE n = 1 /\ rpc' = "ended" /\ UNCHANGED <<got, next, torn>>
  <2>1. next' \in Nat \ {0} /\ rpc' # "run" /\ 1 \in 1..(L + 1) /\ 1 <= L + 1
    BY <1>4, <1>5, <1>10
  <2>2. torn' \in BOOLEAN /\ torn' = torn
    BY <1>4, <1>10, Zenon
  <2>3. Stream' = rest /\ DownTypes' /\ StartInv' /\ OutInv' /\ GreetInv'
    BY <1>1, <1>2, <1>4, <1>10, <2>1, <2>2, Consumed, Zenon
  <2>4. rest # <<>> => rest[1] = Word(1, 2)
    BY <1>3, <1>10, Zenon
  <2>5. Near(rest, 1)
    BY <2>4 DEF Near, Word
  <2>6. spc = "run" => Ends(rest, sent, 1)
    BY <1>7, <2>1, Zenon
  <2>7. ~Up(rpc)' /\ next' = 1
    BY <1>4, <1>10, Zenon DEF Up
  <2>8. StreamInv'
    BY <1>1, <1>3, <2>3, <2>5, <2>6, <2>7, Zenon DEF StreamInv
  <2>9. DownStep
    BY <1>1, <1>10, KeepsMessages, Zenon DEF downs
  <2> QED BY <2>3, <2>8, <2>9, Zenon DEF DownInv
<1> QED BY <1>8, <1>9, <1>10, Zenon DEF ReadGreeting

(* The receiver has connected, and nothing is sent. *)
LEMMA DownInit == Init => DownInv /\ DownChannel!Init
<1> HAVE Init
<1>1. /\ spc = "accept" /\ s_out = <<>> /\ rpc = "greet" /\ r_in = <<>> /\ down = <<>> /\ up = <<>>
      /\ sent = <<>> /\ got = <<>> /\ next = 1 /\ torn = FALSE /\ heard = <<>>
  BY Zenon DEF Init
<1>2. DownChannel!Init
  BY <1>1, Zenon DEF DownChannel!Init
<1>3. /\ <<>> \in Seq(Kinds) /\ 1 \in Nat \ {0} /\ Len(<<>>) \in Nat
      /\ (\A i \in 1..Len(<<>>) : FALSE) /\ (\A i \in 2..Len(<<>>) : FALSE)
      /\ (\A i \in 1..(Len(<<>>) - 1) : FALSE) /\ Len(<<>>) <= 2
  OBVIOUS
<1>4. DownTypes
  BY <1>1, <1>3, Empty, Zenon DEF DownTypes
<1>5. StartInv
  BY <1>1, <1>3, Zenon DEF StartInv
<1>6. OutInv
  BY <1>1, <1>3, Zenon DEF OutInv
<1>7. Stream = <<>>
  <2>1. Stream = (<<>> \o <<>>) \o <<>>
    BY <1>1, Zenon DEF Stream, Unwritten
  <2> QED BY <2>1
<1>8. GreetInv
  BY <1>1, <1>3, <1>7, Zenon DEF GreetInv
<1>9. StreamInv
  BY <1>1, <1>3, <1>7, Zenon DEF StreamInv, InStep, Near, Sharp
<1> QED BY <1>2, <1>4, <1>5, <1>6, <1>8, <1>9, Zenon DEF DownInv

(* A request is read: nothing of this direction changes, unless the sender *)
(* takes it for an error and closes.                                       *)
LEMMA SenderReadDown ==
    ASSUME DownInv, NEW n \in 1..2, SenderRead(n)
    PROVE  DownInv' /\ DownStep
<1>1. /\ spc = "run" /\ n <= Least(Len(up), 2 - Len(s_in))
      /\ UNCHANGED <<rpc, s_out, down, r_in, sent, got, next, torn>>
      /\ spc' = spc \/ spc' = "closed"
  BY Zenon DEF SenderRead, receiver, downs
<1>2. rpc # "greet"
  <2>1. ASSUME up = <<>> PROVE FALSE
    <3>1. Len(up) = 0
      BY <2>1
    <3> QED BY <1>1, <3>1 DEF Least
  <2> QED BY <2>1, Zenon DEF DownInv, GreetInv
<1>3. CASE spc' = spc
  <2>1. UNCHANGED downward
    BY <1>1, <1>3, Zenon DEF downward
  <2> QED BY <1>2, <2>1, DownKept, Zenon
<1>4. CASE spc' = "closed"
  BY <1>1, <1>2, <1>4, SenderLeaves, Zenon
<1> QED BY <1>1, <1>3, <1>4, Zenon

(* Every step of the two processes. *)
LEMMA DownNext ==
    ASSUME DownInv, [Next]_vars
    PROVE  DownInv' /\ DownStep
<1>1. CASE TcpOnAccept
  BY <1>1, TcpOnAcceptStep, Zenon
<1>2. CASE TcpOnWrite
  BY <1>2, TcpOnWriteStep, Zenon
<1>3. CASE WriteQuit
  BY <1>3, WriteQuitStep, Zenon
<1>4. CASE SenderClose \/ SenderHup \/ SenderDies
  <2>1. /\ spc \in {"accept", "run", "telling", "told"} /\ spc' \in {"closed", "killed"}
        /\ UNCHANGED <<rpc, s_out, down, r_in, sent, got, next, torn, up, heard>>
    BY <1>4, Zenon DEF SenderClose, SenderHup, SenderDies, receiver, downs, ups, Up, DownInv, DownTypes
  <2> QED BY <2>1, SenderLeaves, Zenon
<1>5. ASSUME NEW n \in 1..2, SenderRead(n) PROVE DownInv' /\ DownStep
  BY <1>5, SenderReadDown, Zenon
<1>6. CASE ReceiverWrite
  <2>1. UNCHANGED downward /\ rpc # "greet"
    BY <1>6, Zenon DEF ReceiverWrite, sender, downs, downward
  <2> QED BY <2>1, DownKept, Zenon
<1>7. ASSUME NEW low \in 0..MaxAsked, RequestGap(low) PROVE DownInv' /\ DownStep
  <2>1. UNCHANGED downward /\ rpc # "greet"
    BY <1>7, Zenon DEF RequestGap, sender, downs, downward
  <2> QED BY <2>1, DownKept, Zenon
<1>8. CASE ReceiverEOF \/ ReceiverEnds
  <2>1. /\ rpc' \in {"ended", "killed"}
        /\ UNCHANGED <<spc, s_out, down, r_in, sent, got, next, torn>>
    BY <1>8, Zenon DEF ReceiverEOF, ReceiverEnds, sender, downs
  <2> QED BY <2>1, ReceiverLeaves, Zenon
<1>9. ASSUME NEW n \in 1..DownCap, ReadGreeting(n) PROVE DownInv' /\ DownStep
  BY <1>9, ReadGreetingStep, Zenon
<1>10. ASSUME NEW n \in 1..DownCap, ReceiverRead(n) PROVE DownInv' /\ DownStep
  BY <1>10, ReceiverReadStep, Zenon
<1>11. CASE WillQuit
  BY <1>11, WillQuitStep, Zenon
<1>12. CASE Reset
  BY <1>12, ResetStep, Zenon
<1>13. CASE UNCHANGED vars
  <2>1. UNCHANGED downward /\ UNCHANGED <<up, heard>>
    BY <1>13, Zenon DEF vars, sender, receiver, downs, ups, downward
  <2> QED BY <2>1, DownKept, Zenon
<1> QED
  BY <1>1, <1>2, <1>3, <1>4, <1>5, <1>6, <1>7, <1>8, <1>9, <1>10, <1>11, <1>12, <1>13, Zenon
  DEF Next, Sender, Receiver

(* However writing and reading divide them, the messages of the sender     *)
(* reach the receiver whole and in order, as Channel says, until a         *)
(* farewell tears the reply that was being written or the greeting is read *)
(* in part: for every capacity of the connection and any number of         *)
(* messages.                                                               *)
THEOREM MessagesWholeTheorem == Spec => MessagesWhole
<1>1. DownInv /\ [Next]_vars => DownInv' /\ [DownChannel!Next]_(DownChannel!vars)
  BY DownNext, Zenon DEF DownStep
<1> QED BY <1>1, DownInit, PTL DEF Spec, MessagesWhole, DownChannel!Spec
=============================================================================
