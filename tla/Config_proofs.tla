--------------------------- MODULE Config_proofs ----------------------------
(***************************************************************************)
(* What readConfig makes of a file, for every file, every list of settings *)
(* and buffers of every size.  Nothing is assumed of what stoi returns.    *)
(***************************************************************************)
EXTENDS Config, SequenceTheorems, WellFoundedInduction, TLAPS

-----------------------------------------------------------------------------
(* The least of a set, and what stands before the first stop *)

LEMMA MinOf ==
  ASSUME NEW S \in SUBSET Nat, S # {}
  PROVE  Min(S) \in S /\ \A x \in S : Min(S) <= x
<1> DEFINE R == OpToRel(<, Nat)
<1>1. \A a, b \in Nat : <<a, b>> \in R <=> a < b
  BY DEF OpToRel
<1>2. IsWellFoundedOn(R, Nat)
  BY NatLessThanWellFounded
<1> HIDE DEF R
<1>3. \E x \in S : \A y \in S : ~ (<<y, x>> \in R)
  BY <1>2, WFMin
<1>4. PICK x \in S : \A y \in S : ~ (<<y, x>> \in R)
  BY <1>3
<1>5. ASSUME NEW y \in S PROVE x <= y
  <2>1. x \in Nat /\ y \in Nat /\ ~ (y < x)
    BY <1>1, <1>4
  <2> QED BY <2>1
<1> QED BY <1>5 DEF Min

LEMMA MinIs ==
  ASSUME NEW S \in SUBSET Nat, NEW x \in S, \A y \in S : x <= y
  PROVE  Min(S) = x
<1>1. Min(S) \in S /\ Min(S) <= x /\ x <= Min(S)
  BY MinOf
<1>2. Min(S) \in Nat /\ x \in Nat
  BY <1>1
<1> QED BY <1>1, <1>2

StopsOf(s, n) == {i \in DOMAIN s : s[i] \in Stops} \cup {n + 1, Len(s) + 1}

LEMMA StopsTyped ==
  ASSUME NEW S, NEW s \in Seq(S), NEW n \in Nat
  PROVE  /\ StopsOf(s, n) \in SUBSET (Nat \ {0})
         /\ StopsOf(s, n) \in SUBSET Nat
         /\ StopsOf(s, n) # {}
         /\ n + 1 \in StopsOf(s, n) /\ Len(s) + 1 \in StopsOf(s, n)
  BY DEF StopsOf

(* A prefix stays within the sequence and within n characters. *)
LEMMA UpToStopTyped ==
  ASSUME NEW S, NEW s \in Seq(S), NEW n \in Nat
  PROVE  UpToStop(s, n) \in Seq(S) /\ Len(UpToStop(s, n)) <= n
<1> DEFINE m == Min(StopsOf(s, n))
<1>1. m \in StopsOf(s, n) /\ m <= n + 1 /\ m <= Len(s) + 1
  BY StopsTyped, MinOf
<1>2. m \in Nat \ {0} /\ Len(s) \in Nat
  BY <1>1, StopsTyped
<1>3. UpToStop(s, n) = SubSeq(s, 1, m - 1)
  BY DEF UpToStop, StopsOf
<1> HIDE DEF m
<1>4. \A i \in 1 .. m - 1 : s[i] \in S
  BY <1>1, <1>2
<1>5. /\ SubSeq(s, 1, m - 1) \in Seq(S)
      /\ Len(SubSeq(s, 1, m - 1)) = IF 1 <= m - 1 THEN (m - 1) - 1 + 1 ELSE 0
  BY <1>2, <1>4, SubSeqProperties
<1> QED BY <1>1, <1>2, <1>3, <1>5

(* Cutting a sequence at its end or before a stop changes nothing. *)
LEMMA CutAtStop ==
  ASSUME NEW S, NEW s \in Seq(S), NEW n \in Nat, NEW p \in 0 .. Len(s),
         p < Len(s) => s[p + 1] \in Stops
  PROVE  UpToStop(SubSeq(s, 1, p), n) = UpToStop(s, n)
<1> DEFINE t == SubSeq(s, 1, p)
           m == Min(StopsOf(s, n))
<1>1. Len(s) \in Nat /\ p \in Nat
  OBVIOUS
<1>2. \A i \in 1 .. p : s[i] \in S
  BY <1>1
<1>3. /\ t \in Seq(S) /\ Len(t) = p
      /\ \A i \in 1 .. p : t[i] = s[i]
  <2>1. /\ t \in Seq(S) /\ Len(t) = IF 1 <= p THEN p - 1 + 1 ELSE 0
        /\ \A i \in 1 .. p - 1 + 1 : t[i] = s[1 + i - 1]
    BY <1>1, <1>2, SubSeqProperties
  <2> QED BY <1>1, <2>1
<1> HIDE DEF t
<1>4. m \in StopsOf(s, n) /\ \A y \in StopsOf(s, n) : m <= y
  BY StopsTyped, MinOf
<1>5. m \in Nat \ {0}
  BY <1>4, StopsTyped
<1> HIDE DEF m
<1>6. p + 1 \in StopsOf(s, n)
  BY <1>1 DEF StopsOf
<1>7. m <= p + 1
  BY <1>4, <1>6
<1>8. m \in StopsOf(t, n)
  BY <1>1, <1>3, <1>4, <1>5, <1>7 DEF StopsOf
<1>9. \A y \in StopsOf(t, n) : m <= y
  BY <1>1, <1>3, <1>4, <1>6 DEF StopsOf
<1>10. Min(StopsOf(t, n)) = m
  BY <1>3, <1>8, <1>9, StopsTyped, MinIs
<1>11. SubSeq(t, 1, m - 1) = SubSeq(s, 1, m - 1)
  <2>1. \A i \in 1 .. m - 1 : s[i] \in S /\ t[i] \in S /\ t[i] = s[i]
    BY <1>1, <1>2, <1>3, <1>5, <1>7
  <2>2. /\ SubSeq(s, 1, m - 1) \in Seq(S)
        /\ Len(SubSeq(s, 1, m - 1)) = IF 1 <= m - 1 THEN (m - 1) - 1 + 1 ELSE 0
        /\ \A i \in 1 .. (m - 1) - 1 + 1 : SubSeq(s, 1, m - 1)[i] = s[1 + i - 1]
    BY <1>5, <2>1, SubSeqProperties
  <2>3. /\ SubSeq(t, 1, m - 1) \in Seq(S)
        /\ Len(SubSeq(t, 1, m - 1)) = IF 1 <= m - 1 THEN (m - 1) - 1 + 1 ELSE 0
        /\ \A i \in 1 .. (m - 1) - 1 + 1 : SubSeq(t, 1, m - 1)[i] = t[1 + i - 1]
    BY <1>5, <2>1, SubSeqProperties
  <2>4. \A i \in 1 .. Len(SubSeq(t, 1, m - 1)) :
           SubSeq(t, 1, m - 1)[i] = SubSeq(s, 1, m - 1)[i]
    BY <1>5, <2>1, <2>2, <2>3
  <2> QED BY <2>2, <2>3, <2>4, SeqEqual
<1>12. UpToStop(s, n) = SubSeq(s, 1, m - 1) /\ UpToStop(t, n) = SubSeq(t, 1, m - 1)
  BY <1>10 DEF UpToStop, StopsOf, m
<1> QED BY <1>11, <1>12 DEF t

-----------------------------------------------------------------------------
(* read_str as a C string *)

LEMMA BufferSize == BufLen \in Nat \ {0} /\ Limit \in Nat /\ Limit + 1 = BufLen
  BY ConfigAssumption DEF Limit

(* A value that is copied to a cleared buffer is the string in it. *)
LEMMA CopyIsString ==
  ASSUME NEW value \in Seq(Char), Len(value) <= Limit
  PROVE  /\ CString(CopyTo(Cleared, value)) = value
         /\ CopyTo(Cleared, value)[BufLen] = Nul
<1> DEFINE buffer == CopyTo(Cleared, value)
           zeros == {i \in 1 .. BufLen : buffer[i] = Nul} \cup {BufLen + 1}
<1>1. Len(value) \in Nat /\ BufLen \in Nat \ {0} /\ Len(value) < BufLen
  BY BufferSize
<1>2. \A i \in 1 .. Len(value) : value[i] \in Char /\ value[i] # Nul
  BY ConfigAssumption
<1>3. \A i \in 1 .. BufLen : buffer[i] = IF i <= Len(value) THEN value[i] ELSE Nul
  BY DEF CopyTo, Cleared
<1>4. CString(buffer) = SubSeq(buffer, 1, Min(zeros) - 1)
  BY DEF CString
<1> HIDE DEF buffer
<1>5. Min(zeros) = Len(value) + 1
  <2>1. zeros \in SUBSET Nat /\ Len(value) + 1 \in zeros
    BY <1>1, <1>3
  <2>2. \A y \in zeros : Len(value) + 1 <= y
    BY <1>1, <1>2, <1>3
  <2> HIDE DEF zeros
  <2> QED BY <2>1, <2>2, MinIs
<1>6. \A i \in 1 .. Len(value) : buffer[i] \in Char /\ buffer[i] = value[i]
  BY <1>1, <1>2, <1>3
<1>7. /\ SubSeq(buffer, 1, Len(value)) \in Seq(Char)
      /\ Len(SubSeq(buffer, 1, Len(value)))
           = IF 1 <= Len(value) THEN Len(value) - 1 + 1 ELSE 0
      /\ \A i \in 1 .. Len(value) - 1 + 1 :
           SubSeq(buffer, 1, Len(value))[i] = buffer[1 + i - 1]
  BY <1>1, <1>6, SubSeqProperties
<1>8. \A i \in 1 .. Len(value) : SubSeq(buffer, 1, Len(value))[i] = value[i]
  BY <1>1, <1>6, <1>7
<1>9. SubSeq(buffer, 1, Len(value)) = value
  BY <1>1, <1>7, <1>8, SeqEqual
<1>10. Min(zeros) - 1 = Len(value)
  BY <1>1, <1>5
<1>11. CString(buffer) = value
  BY <1>4, <1>9, <1>10
<1>12. buffer[BufLen] = Nul
  BY <1>1, <1>3
<1> QED BY <1>11, <1>12 DEF buffer

-----------------------------------------------------------------------------
(* Where a key is found, and its line *)

LEMMA OccursAt ==
  ASSUME NEW key \in Seq(Char), NEW s \in Seq(Char), NEW at \in Nat \ {0},
         at + Len(key) - 1 <= Len(s)
  PROVE  Occurs(key, s, at) <=> \A i \in 1 .. Len(key) : s[at + i - 1] = key[i]
<1> DEFINE last == at + Len(key) - 1
<1>1. Len(key) \in Nat /\ Len(s) \in Nat /\ last \in Int
  OBVIOUS
<1>2. \A i \in at .. last : s[i] \in Char
  BY <1>1
<1>3. /\ SubSeq(s, at, last) \in Seq(Char)
      /\ Len(SubSeq(s, at, last)) = IF at <= last THEN last - at + 1 ELSE 0
      /\ \A i \in 1 .. last - at + 1 : SubSeq(s, at, last)[i] = s[at + i - 1]
  <2> HIDE DEF last
  <2> QED BY <1>1, <1>2, SubSeqProperties
<1>4. /\ Len(SubSeq(s, at, last)) = Len(key)
      /\ \A i \in 1 .. Len(key) : SubSeq(s, at, last)[i] = s[at + i - 1]
  BY <1>1, <1>3
<1>5. Occurs(key, s, at) <=> SubSeq(s, at, last) = key
  BY DEF Occurs
<1> HIDE DEF last
<1> QED BY <1>1, <1>3, <1>4, <1>5, SeqEqual

(* A line "key=..." begins where its key occurs. *)
LEMMA LineHasKey ==
  ASSUME NEW key \in Seq(Char), key # <<>>, text \in Seq(Char),
         NEW at \in Lines(key)
  PROVE  /\ at \in 1 .. Len(text) /\ Occurs(key, text, at)
         /\ at + Len(key) <= Len(text) /\ text[at + Len(key)] = "="
<1>1. at \in Nat \ {0} /\ Occurs(key \o <<"=">>, text, at)
  BY DEF Lines, LineStarts
<1>2. Len(key) \in Nat \ {0} /\ Len(text) \in Nat
  BY EmptySeq
<1> DEFINE line == key \o <<"=">>
<1>3. key \in Seq(Char \cup {"="}) /\ <<"=">> \in Seq(Char \cup {"="})
      /\ text \in Seq(Char \cup {"="})
  OBVIOUS
<1>4. /\ line \in Seq(Char \cup {"="})
      /\ Len(line) = Len(key) + 1
      /\ \A i \in 1 .. Len(key) + 1 : line[i] = IF i <= Len(key) THEN key[i] ELSE "="
  BY <1>2, <1>3, ConcatProperties
<1> HIDE DEF line
<1>5. /\ at + Len(line) - 1 <= Len(text)
      /\ SubSeq(text, at, at + Len(line) - 1) = line
  BY <1>1 DEF Occurs, line
<1>6. at + Len(key) <= Len(text)
  BY <1>1, <1>2, <1>4, <1>5
<1>7. \A i \in at .. at + Len(key) : text[i] \in Char
  BY <1>1, <1>2, <1>6
<1>8. \A i \in 1 .. (at + Len(key)) - at + 1 :
         SubSeq(text, at, at + Len(key))[i] = text[at + i - 1]
  BY <1>1, <1>2, <1>7, SubSeqProperties
<1>9. at + Len(line) - 1 = at + Len(key)
  BY <1>1, <1>2, <1>4
<1>10. \A i \in 1 .. Len(key) + 1 : line[i] = text[at + i - 1]
  BY <1>1, <1>2, <1>5, <1>8, <1>9
<1>11. \A i \in 1 .. Len(key) : text[at + i - 1] = key[i]
  BY <1>2, <1>4, <1>10
<1>12. text[at + Len(key)] = "="
  <2>1. Len(key) + 1 \in 1 .. Len(key) + 1 /\ at + (Len(key) + 1) - 1 = at + Len(key)
    BY <1>1, <1>2
  <2> QED BY <1>2, <1>4, <1>10, <2>1
<1>13. at + Len(key) - 1 <= Len(text) /\ at \in 1 .. Len(text)
  BY <1>1, <1>2, <1>6
<1> QED BY <1>1, <1>6, <1>11, <1>12, <1>13, OccursAt

LEMMA FindIs ==
  ASSUME NEW key \in Seq(Char), NEW s \in Seq(Char)
  PROVE  \/ Find(key, s) = 0 /\ \A at \in 1 .. Len(s) : ~ Occurs(key, s, at)
         \/ /\ Find(key, s) \in 1 .. Len(s) /\ Occurs(key, s, Find(key, s))
            /\ \A at \in 1 .. Len(s) : Occurs(key, s, at) => Find(key, s) <= at
<1> DEFINE places == {at \in 1 .. Len(s) : Occurs(key, s, at)}
<1>1. places \in SUBSET Nat
  OBVIOUS
<1>2. Find(key, s) = IF places = {} THEN 0 ELSE Min(places)
  BY DEF Find
<1>3. CASE places = {}
  BY <1>2, <1>3
<1>4. CASE places # {}
  <2>1. Min(places) \in places /\ \A x \in places : Min(places) <= x
    <3> HIDE DEF places
    <3> QED BY <1>1, <1>4, MinOf
  <2> QED BY <1>2, <1>4, <2>1
<1> QED BY <1>3, <1>4

(* What is behind the file does not change what the file holds. *)
LEMMA InFront ==
  ASSUME NEW s \in Seq(Char), NEW tail \in Seq(Char)
  PROVE  /\ s \o tail \in Seq(Char) /\ Len(s \o tail) = Len(s) + Len(tail)
         /\ \A i \in 1 .. Len(s) : (s \o tail)[i] = s[i]
         /\ \A key \in Seq(Char), at \in Nat \ {0} :
              Occurs(key, s, at) => Occurs(key, s \o tail, at)
<1> DEFINE c == s \o tail
<1>1. /\ c \in Seq(Char) /\ Len(c) = Len(s) + Len(tail)
      /\ \A i \in 1 .. Len(s) : c[i] = s[i]
  BY ConcatProperties
<1> HIDE DEF c
<1>2. ASSUME NEW key \in Seq(Char), NEW at \in Nat \ {0}, Occurs(key, s, at)
      PROVE  Occurs(key, c, at)
  <2>1. Len(key) \in Nat /\ Len(s) \in Nat /\ Len(tail) \in Nat
    OBVIOUS
  <2>2. at + Len(key) - 1 <= Len(s)
    BY <1>2 DEF Occurs
  <2>3. \A i \in 1 .. Len(key) : s[at + i - 1] = key[i]
    BY <1>2, <2>2, OccursAt
  <2>4. ASSUME NEW i \in 1 .. Len(key) PROVE c[at + i - 1] = key[i]
    <3>1. at + i - 1 \in 1 .. Len(s)
      BY <2>1, <2>2
    <3> QED BY <1>1, <2>3, <3>1
  <2>5. at + Len(key) - 1 <= Len(c)
    BY <1>1, <2>1, <2>2
  <2> QED BY <1>1, <2>4, <2>5, OccursAt
<1> QED BY <1>1, <1>2 DEF c

(* Where the key is found on its own line, what strstr leads to is the value *)
(* of that line, whatever follows the file.                                  *)
LEMMA FoundOnItsLine ==
  ASSUME NEW key \in Seq(Char \ {"nl", "="}), key # <<>>, text \in Seq(Char),
         NEW tail \in Seq(Char), NEW c, c = text \o tail,
         Find(key, c) \in Lines(key),
         tail = <<>> \/ LineEnd(Min(Lines(key))) <= Len(text)
  PROVE  /\ Find(key, c) + Len(key) - 1 # Len(c)
         /\ ValueAt(key, c, Find(key, c)) = LineValue(key)
<1> DEFINE at == Find(key, c)
           from == at + Len(key) + 1
           ends == {i \in at .. Len(text) : text[i] = "nl"} \cup {Len(text) + 1}
           end == Min(ends)
           rest == SubSeq(c, from, Len(c))
<1>1. key \in Seq(Char)
  OBVIOUS
<1>2. /\ at \in 1 .. Len(text) /\ Occurs(key, text, at)
      /\ at + Len(key) <= Len(text) /\ text[at + Len(key)] = "="
  BY <1>1, LineHasKey
<1>3. Len(key) \in Nat \ {0} /\ Len(text) \in Nat /\ Len(tail) \in Nat
  BY <1>1, EmptySeq
<1>a. /\ c \in Seq(Char) /\ Len(c) = Len(text) + Len(tail)
      /\ \A i \in 1 .. Len(text) : c[i] = text[i]
      /\ \A y \in Nat \ {0} : Occurs(key, text, y) => Occurs(key, c, y)
  BY <1>1, InFront
<1>4. Min(Lines(key)) = at
  <2>1. Lines(key) \in SUBSET Nat
    BY DEF Lines, LineStarts
  <2>2. ASSUME NEW y \in Lines(key) PROVE at <= y
    <3>1. y \in 1 .. Len(text) /\ Occurs(key, text, y)
      BY <1>1, LineHasKey
    <3>2. y \in 1 .. Len(c) /\ Occurs(key, c, y)
      BY <1>3, <1>a, <3>1
    <3> QED BY <1>1, <1>a, <3>2, FindIs
  <2> HIDE DEF at
  <2> QED BY <2>1, <2>2, MinIs DEF at
<1>5. LineValue(key) = UpToStop(SubSeq(text, from, end - 1), Limit)
  BY <1>4 DEF LineValue, LineEnd
<1>6. ValueAt(key, c, at) = UpToStop(rest, Limit)
  BY DEF ValueAt
<1>b. tail = <<>> \/ end <= Len(text)
  BY <1>4 DEF LineEnd
<1> HIDE DEF at
<1>7. \A i \in 1 .. Len(key) : text[at + i - 1] = key[i]
  <2>1. at \in Nat \ {0} /\ at + Len(key) - 1 <= Len(text)
    BY <1>2, <1>3
  <2> QED BY <1>1, <1>2, <2>1, OccursAt
<1>8. end \in ends /\ \A y \in ends : end <= y
  <2>1. ends \in SUBSET Nat /\ ends # {}
    BY <1>2, <1>3
  <2> HIDE DEF ends
  <2> QED BY <2>1, MinOf
<1>9. end \in from .. Len(text) + 1
  <2>1. end \in at .. Len(text) + 1
    BY <1>2, <1>3, <1>8
  <2>2. CASE end = Len(text) + 1
    BY <1>2, <1>3, <2>2
  <2>3. CASE end # Len(text) + 1
    <3>1. text[end] = "nl"
      BY <1>8, <2>3
    <3>2. end # at + Len(key)
      BY <1>2, <3>1
    <3>3. ASSUME end < at + Len(key) PROVE FALSE
      <4>1. end - at + 1 \in 1 .. Len(key) /\ at + (end - at + 1) - 1 = end
        BY SMTT(20), <1>2, <1>3, <2>1, <3>3
      <4>2. text[end] = key[end - at + 1] /\ key[end - at + 1] # "nl"
        BY <1>7, <4>1
      <4> QED BY <3>1, <4>2
    <3> QED BY <1>2, <1>3, <2>1, <3>2, <3>3
  <2> QED BY <2>2, <2>3
<1>10. /\ from \in Nat \ {0} /\ from <= Len(text) + 1
       /\ end \in Nat /\ end - from \in 0 .. Len(text) - from + 1
  BY <1>2, <1>3, <1>9
<1>11. \A i \in from .. Len(c) : c[i] \in Char
  BY <1>3, <1>a, <1>10
<1>12. end <= Len(c) => end <= Len(text) /\ c[end] \in Stops
  <2>1. CASE end <= Len(text)
    <3>1. text[end] = "nl" /\ end \in 1 .. Len(text)
      BY <1>2, <1>3, <1>8, <1>10, <2>1
    <3> QED BY <1>a, <2>1, <3>1 DEF Stops
  <2>2. CASE ~ (end <= Len(text))
    <3>1. Len(c) = Len(text)
      BY <1>3, <1>a, <1>b, <2>2, EmptySeq
    <3> QED BY <2>2, <3>1
  <2> QED BY <2>1, <2>2
<1> HIDE DEF end, from
<1>13. /\ rest \in Seq(Char) /\ Len(rest) = Len(c) - from + 1
       /\ \A i \in 1 .. Len(rest) : rest[i] = c[from + i - 1]
  <2>1. /\ rest \in Seq(Char)
        /\ Len(rest) = IF from <= Len(c) THEN Len(c) - from + 1 ELSE 0
        /\ \A i \in 1 .. Len(c) - from + 1 : rest[i] = c[from + i - 1]
    BY SMTT(20), <1>3, <1>a, <1>10, <1>11, SubSeqProperties
  <2> QED BY <1>3, <1>a, <1>10, <2>1
<1> HIDE DEF rest
<1>14. SubSeq(text, from, end - 1) = SubSeq(rest, 1, end - from)
  <2>1. \A i \in from .. end - 1 : text[i] \in Char /\ text[i] = c[i]
    BY <1>3, <1>a, <1>10
  <2>2. /\ SubSeq(text, from, end - 1) \in Seq(Char)
        /\ Len(SubSeq(text, from, end - 1))
             = IF from <= end - 1 THEN (end - 1) - from + 1 ELSE 0
        /\ \A i \in 1 .. (end - 1) - from + 1 :
             SubSeq(text, from, end - 1)[i] = text[from + i - 1]
    BY <1>10, <2>1, SubSeqProperties
  <2>3. \A i \in 1 .. end - from : rest[i] \in Char
    BY SMTT(20), <1>3, <1>a, <1>10, <1>13
  <2>4. /\ SubSeq(rest, 1, end - from) \in Seq(Char)
        /\ Len(SubSeq(rest, 1, end - from))
             = IF 1 <= end - from THEN (end - from) - 1 + 1 ELSE 0
        /\ \A i \in 1 .. (end - from) - 1 + 1 :
             SubSeq(rest, 1, end - from)[i] = rest[1 + i - 1]
    BY <1>10, <2>3, SubSeqProperties
  <2>5. /\ Len(SubSeq(text, from, end - 1)) = end - from
        /\ Len(SubSeq(rest, 1, end - from)) = end - from
    BY <1>10, <2>2, <2>4
  <2>6. ASSUME NEW i \in 1 .. end - from
        PROVE  SubSeq(text, from, end - 1)[i] = SubSeq(rest, 1, end - from)[i]
    <3>1. /\ from + i - 1 \in from .. end - 1 /\ i \in 1 .. Len(rest)
          /\ i \in 1 .. (end - 1) - from + 1 /\ i \in 1 .. (end - from) - 1 + 1
          /\ 1 + i - 1 = i
      BY <1>3, <1>a, <1>10, <1>13
    <3>2. SubSeq(text, from, end - 1)[i] = text[from + i - 1]
      BY <2>2, <3>1
    <3>3. SubSeq(rest, 1, end - from)[i] = rest[i] /\ rest[i] = c[from + i - 1]
      BY <1>13, <2>4, <3>1
    <3> QED BY <2>1, <3>1, <3>2, <3>3
  <2> QED BY <2>2, <2>4, <2>5, <2>6, SeqEqual
<1>15. end - from < Len(rest) => rest[end - from + 1] \in Stops
  <2>1. ASSUME end - from < Len(rest)
        PROVE  /\ end <= Len(c) /\ end - from + 1 \in 1 .. Len(rest)
               /\ from + (end - from + 1) - 1 = end
    BY <1>3, <1>a, <1>10, <1>13, <2>1
  <2> QED BY <1>12, <1>13, <2>1
<1>16. end - from \in 0 .. Len(rest)
  BY <1>3, <1>a, <1>10, <1>13
<1>17. UpToStop(SubSeq(rest, 1, end - from), Limit) = UpToStop(rest, Limit)
  BY <1>13, <1>15, <1>16, BufferSize, CutAtStop
<1>18. at + Len(key) - 1 # Len(c)
  BY <1>2, <1>3, <1>a
<1> QED BY <1>5, <1>6, <1>14, <1>17, <1>18 DEF at, end, from

-----------------------------------------------------------------------------
(* The invariant *)

(* read_str is clear whenever the next setting is read.  What has been read  *)
(* is not changed by what comes later.                                       *)
CfgIInv ==
  /\ text \in Texts
  /\ tails \in [DOMAIN Settings -> Tails]
  /\ next \in Nat \ {0}
  /\ values = [i \in DOMAIN Settings |-> values[i]]
  /\ outcome = "reading" => read_str = Cleared
  /\ ReadStrIsTerminated
  /\ SettingsAreTheirLines
  /\ ThrowsOverNumbersOnly

LEMMA InitCfg == CfgInit => CfgIInv
<1> SUFFICES ASSUME CfgInit PROVE CfgIInv
  OBVIOUS
<1>1. Cleared[BufLen] = Nul
  BY BufferSize DEF Cleared
<1>2. SettingsAreTheirLines
  BY DEF CfgInit, SettingsAreTheirLines
<1>3. values = [i \in DOMAIN Settings |-> values[i]]
  BY DEF CfgInit
<1> QED BY <1>1, <1>2, <1>3 DEF CfgInit, CfgIInv, ReadStrIsTerminated, ThrowsOverNumbersOnly

LEMMA AtSetting ==
  ASSUME CfgIInv, Reading
  PROVE  /\ next \in DOMAIN Settings /\ next \in Nat \ {0}
         /\ Setting.key \in Seq(Char \ {"nl", "="}) /\ Setting.key \in Seq(Char)
         /\ Setting.key # <<>>
         /\ text \in Seq(Char) /\ tails[next] \in Seq(Char)
         /\ Content \in Seq(Char)
         /\ tails[next] = <<>> => Content = text
<1>1. next \in DOMAIN Settings
  BY ConfigAssumption DEF CfgIInv, Reading
<1>2. text \in Seq(Char) /\ tails[next] \in Seq(Char)
  BY <1>1, ConfigAssumption DEF CfgIInv
<1>3. Content \in Seq(Char) /\ (tails[next] = <<>> => Content = text)
  BY <1>2, ConcatProperties, ConcatEmptySeq DEF Content
<1>4. Setting.key \in Seq(Char \ {"nl", "="}) /\ Setting.key # <<>>
  BY <1>1, ConfigAssumption DEF Setting
<1> QED BY <1>1, <1>2, <1>3, <1>4 DEF CfgIInv

(* A setting that is not found has no line. *)
LEMMA MissingHasNoLine ==
  ASSUME CfgIInv, Reading, text = <<>> \/ Find(Setting.key, Content) = 0
  PROVE  Lines(Setting.key) = {}
<1>0. text = <<>> \/ Find(Setting.key, Content) = 0
  OBVIOUS
<1>1. ASSUME NEW at \in Lines(Setting.key) PROVE FALSE
  <2>1. at \in 1 .. Len(text) /\ Occurs(Setting.key, text, at)
    BY <1>1, AtSetting, LineHasKey
  <2>2. text # <<>>
    BY <2>1
  <2>3. Find(Setting.key, Content) = 0
    BY <2>2, <1>0
  <2>4. /\ Occurs(Setting.key, Content, at)
        /\ Len(Content) = Len(text) + Len(tails[next])
    BY <2>1, AtSetting, InFront DEF Content
  <2>5. at \in 1 .. Len(Content)
    <3>1. Len(text) \in Nat /\ Len(tails[next]) \in Nat
      BY AtSetting
    <3> QED BY <2>1, <2>4, <3>1
  <2>6. Setting.key \in Seq(Char) /\ Content \in Seq(Char)
    BY AtSetting
  <2>7. Find(Setting.key, Content) # 0
    <3> DEFINE found == Find(Setting.key, Content)
    <3>1. (\A y \in 1 .. Len(Content) : ~ Occurs(Setting.key, Content, y))
            \/ found \in 1 .. Len(Content)
      BY <2>6, FindIs
    <3> HIDE DEF found
    <3>2. found \in 1 .. Len(Content)
      BY <2>4, <2>5, <3>1
    <3> QED BY <3>2 DEF found
  <2> QED BY <2>3, <2>7
<1> QED BY <1>1

(* What Found takes for a value *)
LEMMA FoundValue ==
  ASSUME CfgIInv, Reading, Find(Setting.key, Content) # 0,
         NEW value \in ValuesAt(Setting.key, Content, Find(Setting.key, Content))
  PROVE  /\ CString(CopyTo(read_str, value)) = value
         /\ CopyTo(read_str, value)[BufLen] = Nul
         /\ Unambiguous(next) /\ Ended(next) =>
              value = LineValue(Setting.key) /\ Lines(Setting.key) # {}
<1> DEFINE key == Setting.key
           at == Find(key, Content)
<1>1. at \in 1 .. Len(Content)
  BY AtSetting, FindIs
<1>2. value \in Seq(Char) /\ Len(value) <= Limit
  <2>1. CASE \E t \in Tails : value = UpToStop(t, Limit)
    BY <2>1, UpToStopTyped, BufferSize, ConfigAssumption
  <2>2. CASE value = ValueAt(key, Content, at)
    <3> DEFINE from == at + Len(key) + 1
    <3>1. from \in Nat \ {0} /\ Len(Content) \in Nat
      BY <1>1, AtSetting
    <3>2. \A i \in from .. Len(Content) : Content[i] \in Char
      BY <3>1, AtSetting
    <3>3. value = UpToStop(SubSeq(Content, from, Len(Content)), Limit)
      BY <2>2 DEF ValueAt
    <3> HIDE DEF from
    <3>4. SubSeq(Content, from, Len(Content)) \in Seq(Char)
      BY <3>1, <3>2, SubSeqProperties
    <3> QED BY <3>3, <3>4, UpToStopTyped, BufferSize
  <2> QED BY <2>1, <2>2 DEF ValuesAt
<1>3. read_str = Cleared
  BY DEF CfgIInv, Reading
<1>4. ASSUME Unambiguous(next), Ended(next)
      PROVE  value = LineValue(key) /\ Lines(key) # {}
  <2>1. key = Settings[next].key /\ Content = text \o tails[next]
    BY DEF Setting, Content
  <2>2. Find(key, Content) \in Lines(key)
    BY <1>4, <2>1 DEF Unambiguous
  <2>3. tails[next] = <<>> \/ LineEnd(Min(Lines(key))) <= Len(text)
    BY <1>4, <2>1, <2>2 DEF Ended
  <2>4. /\ Find(key, Content) + Len(key) - 1 # Len(Content)
        /\ ValueAt(key, Content, Find(key, Content)) = LineValue(key)
    BY <2>1, <2>2, <2>3, AtSetting, FoundOnItsLine
  <2>5. ValuesAt(key, Content, Find(key, Content))
          = {ValueAt(key, Content, Find(key, Content))}
    BY <2>4 DEF ValuesAt
  <2> QED BY <2>2, <2>4, <2>5
<1> QED BY <1>2, <1>3, <1>4, CopyIsString

(* A product that fits an int is not changed by it. *)
LEMMA ProductFits ==
  ASSUME NEW n \in Int, n * Unit \in 0 .. IntMax
  PROVE  Product(n) = n * Unit
<1> DEFINE p == n * Unit
           words == 2 * (IntMax + 1)
<1>1. p \in 0 .. IntMax /\ IntMax \in Nat
  BY ConfigAssumption
<1>2. Product(n) = (((p + IntMax + 1) % words) - IntMax - 1) % (words * words)
  BY DEF Product
<1> HIDE DEF p
<1>3. (p + IntMax + 1) % words = p + IntMax + 1
  BY <1>1
<1>4. words \in Nat /\ words >= 1 /\ p < words
  BY <1>1
<1> HIDE DEF words
<1>5. words * words \in Nat /\ p < words * words
  BY <1>1, <1>4
<1>6. p % (words * words) = p
  <2> DEFINE ww == words * words
  <2>1. ww \in Nat /\ p < ww
    BY <1>5
  <2> HIDE DEF ww
  <2>2. p % ww = p
    BY <1>1, <2>1
  <2> QED BY <2>2 DEF ww
<1>7. (p + IntMax + 1) - IntMax - 1 = p
  BY <1>1
<1> QED BY <1>2, <1>3, <1>6, <1>7 DEF p

LEMMA GivenIsExpected ==
  ASSUME CfgIInv, Reading, Fits(next),
         NEW value, value = LineValue(Setting.key), Lines(Setting.key) # {},
         Setting.kind \in Numbers => IsInt(value)
  PROVE  Given(Setting.kind, value) = Expected(next)
<1>1. Setting = Settings[next]
  BY DEF Setting
<1>2. CASE Setting.kind = "size"
  <2>1. Expected(next) = [as |-> "size", to |-> stoi(value) * Unit]
    BY <1>1, <1>2 DEF Expected
  <2>2. stoi(value) * Unit \in 0 .. IntMax
    BY <2>1 DEF Fits
  <2>3. stoi(value) \in Int
    BY <1>2, ConfigAssumption DEF Numbers, IsInt
  <2>4. Product(stoi(value)) = stoi(value) * Unit
    BY <2>2, <2>3, ProductFits
  <2> QED BY <1>2, <2>1, <2>4 DEF Given
<1>3. CASE Setting.kind # "size"
  BY <1>1, <1>3 DEF Expected
<1> QED BY <1>2, <1>3

-----------------------------------------------------------------------------
(* The steps *)

(* The file does not change. *)
LEMMA SameFile ==
  ASSUME UNCHANGED <<text, tails>>, NEW i
  PROVE  /\ Expected(i)' = Expected(i) /\ Fits(i)' = Fits(i)
         /\ Unambiguous(i)' = Unambiguous(i) /\ Ended(i)' = Ended(i)
  BY DEF Expected, Fits, Unambiguous, Ended, Lines, LineStarts, LineValue, LineEnd

(* A setting that has been given its value *)
LEMMA OneMore ==
  ASSUME CfgIInv, Reading, UNCHANGED <<text, tails>>, next' = next + 1, NEW v,
         values' = [values EXCEPT ![next] = v],
         Unambiguous(next) /\ Ended(next) /\ Fits(next) => v = Expected(next)
  PROVE  /\ SettingsAreTheirLines' /\ next' \in Nat \ {0}
         /\ values' = [i \in DOMAIN Settings |-> values'[i]]
<1>1. next \in DOMAIN Settings /\ next \in Nat \ {0}
  BY AtSetting
<1>2. values = [i \in DOMAIN Settings |-> values[i]]
  BY DEF CfgIInv
<1>3. /\ values' = [i \in DOMAIN Settings |-> values'[i]]
      /\ values'[next] = v
      /\ \A i \in 1 .. next - 1 : values'[i] = values[i]
  BY <1>1, <1>2
<1>4. ASSUME NEW i \in 1 .. next' - 1,
             Unambiguous(i), Ended(i), Fits(i)
      PROVE  values'[i] = Expected(i)
  <2>1. i = next \/ i \in 1 .. next - 1
    BY <1>1
  <2> QED BY <1>3, <1>4, <2>1 DEF CfgIInv, SettingsAreTheirLines
<1>5. SettingsAreTheirLines'
  BY <1>4, SameFile DEF SettingsAreTheirLines
<1> QED BY <1>1, <1>3, <1>5

LEMMA MissingCfg == ASSUME CfgIInv, Missing PROVE CfgIInv'
<1>1. /\ Reading /\ UNCHANGED <<text, tails, read_str, outcome>>
      /\ text = <<>> \/ Find(Setting.key, Content) = 0
      /\ values' = [values EXCEPT ![next] = Setting.default] /\ next' = next + 1
  BY DEF Missing
<1>2. Setting.default = Expected(next)
  <2>1. Lines(Setting.key) = {}
    BY <1>1, MissingHasNoLine
  <2>2. Lines(Settings[next].key) = {} => Expected(next) = Settings[next].default
    BY DEF Expected
  <2> QED BY <2>1, <2>2 DEF Setting
<1>3. /\ SettingsAreTheirLines' /\ next' \in Nat \ {0}
      /\ values' = [i \in DOMAIN Settings |-> values'[i]]
  BY <1>1, <1>2, OneMore
<1>4. ThrowsOverNumbersOnly'
  BY <1>1 DEF Reading, ThrowsOverNumbersOnly
<1> QED BY <1>1, <1>3, <1>4 DEF CfgIInv, ReadStrIsTerminated

LEMMA FoundCfg == ASSUME CfgIInv, Found PROVE CfgIInv'
<1>1. Reading /\ Find(Setting.key, Content) # 0 /\ UNCHANGED <<text, tails>>
  BY DEF Found
<1>2. PICK value \in ValuesAt(Setting.key, Content, Find(Setting.key, Content)) :
         LET buffer == CopyTo(read_str, value)
         IN IF Setting.kind \in Numbers /\ ~IsInt(CString(buffer))
              THEN read_str' = buffer /\ outcome' = "thrown" /\ UNCHANGED <<values, next>>
              ELSE /\ values' = [values EXCEPT ![next] = Given(Setting.kind, CString(buffer))]
                   /\ next' = next + 1
                   /\ read_str' = Cleared
                   /\ UNCHANGED outcome
  BY DEF Found
<1>3. /\ CString(CopyTo(read_str, value)) = value
      /\ CopyTo(read_str, value)[BufLen] = Nul
      /\ Unambiguous(next) /\ Ended(next) =>
           value = LineValue(Setting.key) /\ Lines(Setting.key) # {}
  BY <1>1, FoundValue
<1>4. CASE Setting.kind \in Numbers /\ ~IsInt(value)
  <2>1. /\ read_str' = CopyTo(read_str, value) /\ outcome' = "thrown"
        /\ UNCHANGED <<values, next>>
    BY <1>2, <1>3, <1>4
  <2>2. SettingsAreTheirLines'
    BY <1>1, <2>1, SameFile DEF CfgIInv, SettingsAreTheirLines
  <2>3. /\ Setting' = Setting /\ Content' = Content
        /\ LineValue(Setting.key)' = LineValue(Setting.key)
        /\ Lines(Setting.key)' = Lines(Setting.key)
        /\ Unambiguous(next)' = Unambiguous(next) /\ Ended(next)' = Ended(next)
    BY <1>1, <2>1 DEF Setting, Content, LineValue, LineEnd, Lines, LineStarts, Unambiguous, Ended
  <2>4. ThrowsOverNumbersOnly'
    BY <1>1, <1>3, <1>4, <2>1, <2>3, SameFile DEF ThrowsOverNumbersOnly
  <2> QED BY <1>1, <1>3, <2>1, <2>2, <2>4 DEF CfgIInv, ReadStrIsTerminated
<1>5. CASE ~ (Setting.kind \in Numbers /\ ~IsInt(value))
  <2>1. /\ values' = [values EXCEPT ![next] = Given(Setting.kind, value)]
        /\ next' = next + 1 /\ read_str' = Cleared /\ UNCHANGED outcome
    BY <1>2, <1>3, <1>5
  <2>2. Unambiguous(next) /\ Ended(next) /\ Fits(next) =>
          Given(Setting.kind, value) = Expected(next)
    BY <1>1, <1>3, <1>5, GivenIsExpected
  <2>3. /\ SettingsAreTheirLines' /\ next' \in Nat \ {0}
        /\ values' = [i \in DOMAIN Settings |-> values'[i]]
    BY <1>1, <2>1, <2>2, OneMore
  <2>4. Cleared[BufLen] = Nul
    BY BufferSize DEF Cleared
  <2>5. ThrowsOverNumbersOnly'
    BY <1>1, <2>1 DEF Reading, ThrowsOverNumbersOnly
  <2> QED BY <1>1, <2>1, <2>3, <2>4, <2>5 DEF CfgIInv, ReadStrIsTerminated
<1> QED BY <1>4, <1>5

LEMMA StepCfg == CfgIInv /\ [CfgNext]_cfgVars => CfgIInv'
<1> SUFFICES ASSUME CfgIInv, [CfgNext]_cfgVars PROVE CfgIInv'
  OBVIOUS
<1>1. CASE Done
  <2>1. /\ UNCHANGED <<text, tails, next, read_str, values>>
        /\ outcome = "reading" /\ outcome' = "done"
    BY <1>1 DEF Done
  <2>2. SettingsAreTheirLines'
    BY <2>1, SameFile DEF CfgIInv, SettingsAreTheirLines
  <2> QED BY <2>1, <2>2 DEF CfgIInv, ReadStrIsTerminated, ThrowsOverNumbersOnly
<1>2. CASE UNCHANGED cfgVars
  <2>1. UNCHANGED <<text, tails, next, read_str, values, outcome>>
    BY <1>2 DEF cfgVars
  <2>2. SettingsAreTheirLines'
    BY <2>1, SameFile DEF CfgIInv, SettingsAreTheirLines
  <2>3. /\ Setting' = Setting /\ Content' = Content
        /\ LineValue(Setting.key)' = LineValue(Setting.key)
        /\ Lines(Setting.key)' = Lines(Setting.key)
        /\ Unambiguous(next)' = Unambiguous(next) /\ Ended(next)' = Ended(next)
    BY <2>1 DEF Setting, Content, LineValue, LineEnd, Lines, LineStarts, Unambiguous, Ended
  <2>4. ThrowsOverNumbersOnly'
    BY <2>1, <2>3, SameFile DEF CfgIInv, ThrowsOverNumbersOnly
  <2> QED BY <2>1, <2>2, <2>4 DEF CfgIInv, ReadStrIsTerminated
<1> QED BY <1>1, <1>2, MissingCfg, FoundCfg DEF CfgNext

LEMMA CfgInvariant == CfgSpec => []CfgIInv
  BY InitCfg, StepCfg, PTL DEF CfgSpec

-----------------------------------------------------------------------------
(* The theorems *)

(* Every setting that has been read has the value of its own line, or its    *)
(* default, whatever was read before it and whatever stands behind the file  *)
(* in the buffer.  Left out are a key that is mentioned before its line or,  *)
(* without one, behind the file; a last line without a line break that runs  *)
(* on into the buffer; and a size that is no int (see Unambiguous, Ended and *)
(* Fits).                                                                    *)
THEOREM SettingsCorrect == CfgSpec => []SettingsAreTheirLines
<1>1. CfgIInv => SettingsAreTheirLines
  BY DEF CfgIInv
<1> QED BY <1>1, CfgInvariant, PTL

(* No value, of whatever length, takes the place of the zero that ends       *)
(* read_str.                                                                 *)
THEOREM ReadStrTerminated == CfgSpec => []ReadStrIsTerminated
<1>1. CfgIInv => ReadStrIsTerminated
  BY DEF CfgIInv
<1> QED BY <1>1, CfgInvariant, PTL

(* The constructor throws only over a number whose key it finds: one whose   *)
(* line holds none, or one that is read elsewhere than on its line.  A       *)
(* setting that is not in the file stops it only if its key is behind the    *)
(* file in the buffer.                                                       *)
THEOREM ThrowsOverNumbers == CfgSpec => []ThrowsOverNumbersOnly
<1>1. CfgIInv => ThrowsOverNumbersOnly
  BY DEF CfgIInv
<1> QED BY <1>1, CfgInvariant, PTL

=============================================================================
