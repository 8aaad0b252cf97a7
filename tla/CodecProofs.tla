----------------------------- MODULE CodecProofs ----------------------------
(***************************************************************************)
(* The two ways of building associated data agree for every header that    *)
(* needs a two-byte head and fits the buffer, whatever the buffer held.    *)
(***************************************************************************)
EXTENDS CodecProperties, SequenceTheorems, TLAPS

Bytes_(h) == [of : {<<>>, <<h>>}, val : Int]

LEMMA BytesTyped ==
  ASSUME NEW h, NEW s \in Seq(Int)
  PROVE  AsBytes(s) \in Seq(Bytes_(h)) /\ Len(AsBytes(s)) = Len(s)
BY DEF AsBytes, Byte, Bytes_

LEMMA PrefixTyped ==
  ASSUME NEW h
  PROVE  create_aad_prefix \in Seq(Bytes_(h)) /\ Len(create_aad_prefix) = 10
<1> DEFINE s == <<131, 104, 69, 110, 99, 114, 121, 112, 116, 48>>
<1>1. s \in Seq(Int) /\ Len(s) = 10
  OBVIOUS
<1> QED
  BY <1>1, BytesTyped DEF create_aad_prefix

LEMMA SuffixTyped ==
  ASSUME NEW h
  PROVE  create_aad_suffix \in Seq(Bytes_(h)) /\ Len(create_aad_suffix) = 1
<1>1. cbor_helper_write_bstr_header(0) = <<64>>
  BY DEF cbor_helper_write_bstr_header
<1>2. <<64>> \in Seq(Int) /\ Len(<<64>>) = 1
  OBVIOUS
<1> QED
  BY <1>1, <1>2, BytesTyped DEF create_aad_suffix

(* A header of 24 to 255 bytes has a head of two.                          *)
LEMMA HeadTyped ==
  ASSUME NEW h, NEW n \in 24..255
  PROVE  /\ AsBytes(cbor_helper_write_bstr_header(n)) \in Seq(Bytes_(h))
         /\ Len(AsBytes(cbor_helper_write_bstr_header(n))) = 2
<1>1. cbor_helper_write_bstr_header(n) = <<88, n>>
  BY DEF cbor_helper_write_bstr_header
<1>2. <<88, n>> \in Seq(Int) /\ Len(<<88, n>>) = 2
  OBVIOUS
<1> QED
  BY <1>1, <1>2, BytesTyped

LEMMA HeaderTyped ==
  ASSUME NEW h, HeaderSize(h) \in Nat
  PROVE  HeaderBytes(h) \in Seq(Bytes_(h)) /\ Len(HeaderBytes(h)) = HeaderSize(h)
<1> DEFINE n == HeaderSize(h)
<1> n \in Nat
  OBVIOUS
<1> HIDE DEF n
<1>1. [i \in 1..n |-> [of |-> <<h>>, val |-> i]] \in Seq(Bytes_(h))
  BY DEF Bytes_
<1>2. Len([i \in 1..n |-> [of |-> <<h>>, val |-> i]]) = n
  OBVIOUS
<1> QED
  BY <1>1, <1>2 DEF HeaderBytes, n

(* cose_encrypt_msg builds the associated data in place, between bytes of  *)
(* earlier messages; cose_decrypt_msg encodes it in one go.  They are the  *)
(* same bytes, for every header of the sizes the buffer is made for.       *)
THEOREM AadBothWays ==
  ASSUME NEW Cell, NEW buffer \in [1..COSE_AAD_MAX_SIZE -> Cell],
         NEW h, HeaderSize(h) \in 24..COSE_PROTECTED_HEADER_MAX_SIZE
  PROVE  /\ SealingAadSize(h) = Len(create_aad(h))
         /\ SealingAadSize(h) <= COSE_AAD_MAX_SIZE
         /\ \A i \in 1..Len(create_aad(h)) : SealingAad(buffer, h)[i] = create_aad(h)[i]
<1>0. /\ HeaderSize(h) \in 24..51
      /\ HeaderSize(h) \in 24..255
      /\ HeaderSize(h) \in Nat
  <2>1. HeaderSize(h) \in 24..51
    BY DEF COSE_PROTECTED_HEADER_MAX_SIZE
  <2> QED
    BY <2>1
<1> DEFINE n == HeaderSize(h)
           p == create_aad_prefix
           a == AsBytes(cbor_helper_write_bstr_header(n))
           b == HeaderBytes(h)
           c == create_aad_suffix
           s1 == Put(buffer, 0, p)
           s2 == Put(s1, 12, b)
           s3 == Put(s2, 10, a)
           s4 == Put(s3, 12 + n, c)
           q1 == p \o a
           q2 == q1 \o b
           q3 == q2 \o c
<1>1. n \in 24..51 /\ n \in 24..255 /\ n \in Nat
  BY <1>0
<1>2. /\ p \in Seq(Bytes_(h)) /\ Len(p) = 10
      /\ a \in Seq(Bytes_(h)) /\ Len(a) = 2
      /\ b \in Seq(Bytes_(h)) /\ Len(b) = n
      /\ c \in Seq(Bytes_(h)) /\ Len(c) = 1
  BY <1>1, PrefixTyped, HeadTyped, HeaderTyped, SuffixTyped
<1>3. create_aad(h) = q3
  BY DEF create_aad
<1>4. HeaderAt = 12 /\ AAD_PREFIX_SIZE = 10
  BY DEF HeaderAt, AAD_PREFIX_SIZE, PROTECTED_HEADER_BSTR_PREFIX_SIZE
<1>5. SealingAad(buffer, h) = s4 /\ SealingAadSize(h) = 13 + n
  BY <1>1, <1>4 DEF SealingAad, SealingAadSize
<1>6. buffer \in [1..64 -> Cell]
  BY DEF COSE_AAD_MAX_SIZE, COSE_PROTECTED_HEADER_MAX_SIZE
<1>7. /\ DOMAIN s1 = 1..64 /\ DOMAIN s2 = 1..64 /\ DOMAIN s3 = 1..64
  BY <1>6 DEF Put
<1> HIDE DEF n, p, a, b, c, s1, s2, s3, s4, q1, q2, q3
<1>8. ASSUME NEW i \in 1..13 + n
      PROVE  s4[i] = IF i <= 10 THEN p[i] ELSE IF i <= 12 THEN a[i - 10]
                     ELSE IF i <= 12 + n THEN b[i - 12] ELSE c[i - 12 - n]
  <2>1. i \in 1..64 /\ i \in Int
    BY <1>1
  <2>2. i <= 10 => s1[i] = p[i]
    <3>1. s1[i] = IF i \in 0 + 1 .. 0 + Len(p) THEN p[i - 0] ELSE buffer[i]
      BY <1>6, <2>1 DEF s1, Put
    <3> QED
      BY <1>2, <2>1, <3>1
  <2>3. s2[i] = IF 12 < i /\ i <= 12 + n THEN b[i - 12] ELSE s1[i]
    <3>1. s2[i] = IF i \in 12 + 1 .. 12 + Len(b) THEN b[i - 12] ELSE s1[i]
      BY <1>7, <2>1 DEF s2, Put
    <3> QED
      BY <1>1, <1>2, <2>1, <3>1
  <2>4. s3[i] = IF 10 < i /\ i <= 12 THEN a[i - 10] ELSE s2[i]
    <3>1. s3[i] = IF i \in 10 + 1 .. 10 + Len(a) THEN a[i - 10] ELSE s2[i]
      BY <1>7, <2>1 DEF s3, Put
    <3> QED
      BY <1>2, <2>1, <3>1
  <2>5. s4[i] = IF i = 13 + n THEN c[i - (12 + n)] ELSE s3[i]
    <3>1. s4[i] = IF i \in 12 + n + 1 .. 12 + n + Len(c) THEN c[i - (12 + n)] ELSE s3[i]
      BY <1>7, <2>1 DEF s4, Put
    <3> QED
      BY <1>1, <1>2, <2>1, <3>1
  <2> QED
    BY <1>1, <2>1, <2>2, <2>3, <2>4, <2>5
<1>9. /\ q1 \in Seq(Bytes_(h))
      /\ Len(q1) = 12
      /\ \A i \in 1..12 : q1[i] = IF i <= 10 THEN p[i] ELSE a[i - 10]
  <2>1. /\ q1 \in Seq(Bytes_(h))
        /\ Len(q1) = Len(p) + Len(a)
        /\ \A i \in 1 .. Len(p) + Len(a) : q1[i] = IF i <= Len(p) THEN p[i] ELSE a[i - Len(p)]
    BY <1>2, ConcatProperties DEF q1
  <2> QED
    BY <1>2, <2>1
<1>10. /\ q2 \in Seq(Bytes_(h))
       /\ Len(q2) = 12 + n
       /\ \A i \in 1..12 + n : q2[i] = IF i <= 12 THEN q1[i] ELSE b[i - 12]
  <2>1. /\ q2 \in Seq(Bytes_(h))
        /\ Len(q2) = Len(q1) + Len(b)
        /\ \A i \in 1 .. Len(q1) + Len(b) : q2[i] = IF i <= Len(q1) THEN q1[i] ELSE b[i - Len(q1)]
    BY <1>2, <1>9, ConcatProperties DEF q2
  <2> QED
    BY <1>2, <1>9, <2>1
<1>11. /\ Len(q3) = 13 + n
       /\ \A i \in 1..13 + n : q3[i] = IF i <= 12 + n THEN q2[i] ELSE c[i - (12 + n)]
  <2>1. /\ Len(q3) = Len(q2) + Len(c)
        /\ \A i \in 1 .. Len(q2) + Len(c) : q3[i] = IF i <= Len(q2) THEN q2[i] ELSE c[i - Len(q2)]
    BY <1>2, <1>10, ConcatProperties DEF q3
  <2>2. Len(q2) + Len(c) = 13 + n
    BY <1>1, <1>2, <1>10
  <2> QED
    BY <1>10, <2>1, <2>2
<1>12. ASSUME NEW i \in 1..13 + n
       PROVE  s4[i] = q3[i]
  <2>1. CASE i <= 12
    <3>1. i \in 1..12 /\ i \in 1..12 + n /\ i <= 12 + n
      BY <1>1, <2>1
    <3>2. q3[i] = q1[i]
      BY <1>10, <1>11, <2>1, <3>1
    <3> QED
      BY <1>8, <1>9, <2>1, <3>1, <3>2
  <2>2. CASE 12 < i /\ i <= 12 + n
    <3>1. i \in 1..12 + n /\ ~(i <= 12) /\ ~(i <= 10)
      BY <1>1, <2>2
    <3>2. q3[i] = b[i - 12]
      BY <1>10, <1>11, <2>2, <3>1
    <3> QED
      BY <1>8, <2>2, <3>1, <3>2
  <2>3. CASE 12 + n < i
    <3>1. ~(i <= 12 + n) /\ ~(i <= 12) /\ ~(i <= 10) /\ i - 12 - n = i - (12 + n)
      BY <1>1, <2>3
    <3> QED
      BY <1>8, <1>11, <3>1
  <2> QED
    BY <1>1, <2>1, <2>2, <2>3
<1>13. 13 + n <= COSE_AAD_MAX_SIZE
  BY <1>1 DEF COSE_AAD_MAX_SIZE, COSE_PROTECTED_HEADER_MAX_SIZE
<1> QED
  BY <1>3, <1>5, <1>11, <1>12, <1>13

-----------------------------------------------------------------------------
(* The context's memory: the associated data is read back as it was built. *)
BufferWhole == aad_buffer = [i \in 1..COSE_AAD_MAX_SIZE |-> aad_buffer[i]]

LEMMA PrefixRead ==
  ASSUME NEW S, NEW s, NEW q \in Seq(S), \A i \in 1..Len(q) : s[i] = q[i]
  PROVE  SubSeq(s, 1, Len(q)) = q
<1>1. \A i \in 1..Len(q) : s[i] \in S
  BY ElementOfSeq
<1>2. Len(q) \in Nat
  OBVIOUS
<1>3. /\ SubSeq(s, 1, Len(q)) \in Seq(S)
      /\ Len(SubSeq(s, 1, Len(q))) = Len(q)
      /\ \A i \in 1..Len(q) : SubSeq(s, 1, Len(q))[i] = q[i]
  <2>1. /\ SubSeq(s, 1, Len(q)) \in Seq(S)
        /\ Len(SubSeq(s, 1, Len(q))) = IF 1 <= Len(q) THEN Len(q) - 1 + 1 ELSE 0
        /\ \A i \in 1 .. Len(q) - 1 + 1 : SubSeq(s, 1, Len(q))[i] = s[1 + i - 1]
    BY <1>1, <1>2, SubSeqProperties
  <2>2. Len(q) - 1 + 1 = Len(q) /\ \A i \in 1..Len(q) : 1 + i - 1 = i
    BY <1>2
  <2>3. Len(SubSeq(s, 1, Len(q))) = Len(q)
    BY <1>2, <2>1
  <2> QED
    BY <2>1, <2>2, <2>3
<1> QED
  BY <1>3, SeqEqual

(* The head of a byte string of n bytes.                                   *)
LEMMA HeadSize ==
  ASSUME NEW h, NEW n \in Nat
  PROVE  /\ AsBytes(cbor_helper_write_bstr_header(n)) \in Seq(Bytes_(h))
         /\ Len(AsBytes(cbor_helper_write_bstr_header(n))) = UintSize(n)
<1> DEFINE w == cbor_helper_write_bstr_header(n)
<1>1. w \in Seq(Int) /\ Len(w) = UintSize(n)
  <2>1. CASE n <= 23
    <3>1. w = <<64 + n>> /\ UintSize(n) = 1
      BY <2>1 DEF cbor_helper_write_bstr_header, UintSize
    <3> QED
      BY <3>1
  <2>2. CASE ~(n <= 23) /\ n <= 255
    <3>1. w = <<88, n>> /\ UintSize(n) = 2
      BY <2>2 DEF cbor_helper_write_bstr_header, UintSize
    <3> QED
      BY <3>1
  <2>3. CASE ~(n <= 23) /\ ~(n <= 255) /\ n <= 65535
    <3>1. w = <<89, (n \div 256) % 256, n % 256>> /\ UintSize(n) = 3
      BY <2>3 DEF cbor_helper_write_bstr_header, UintSize
    <3>2. (n \div 256) % 256 \in Int /\ n % 256 \in Int
      OBVIOUS
    <3> QED
      BY <3>1, <3>2
  <2>4. CASE ~(n <= 65535)
    <3>1. /\ w = <<90, (n \div 16777216) % 256, (n \div 65536) % 256, (n \div 256) % 256, n % 256>>
          /\ UintSize(n) = 5
      BY <2>4 DEF cbor_helper_write_bstr_header, UintSize
    <3>2. /\ (n \div 16777216) % 256 \in Int /\ (n \div 65536) % 256 \in Int
          /\ (n \div 256) % 256 \in Int /\ n % 256 \in Int
      OBVIOUS
    <3> QED
      BY <3>1, <3>2
  <2> QED
    BY <2>1, <2>2, <2>3, <2>4
<1> HIDE DEF w
<1> QED
  BY <1>1, BytesTyped DEF w

LEMMA AadTyped ==
  ASSUME NEW h, HeaderSize(h) \in Nat
  PROVE  /\ create_aad(h) \in Seq(Bytes_(h))
         /\ Len(create_aad(h)) = 11 + HeaderSize(h) + UintSize(HeaderSize(h))
<1> DEFINE n == HeaderSize(h)
           a == AsBytes(cbor_helper_write_bstr_header(n))
           q1 == create_aad_prefix \o a
           q2 == q1 \o HeaderBytes(h)
<1>1. /\ a \in Seq(Bytes_(h)) /\ Len(a) = UintSize(n)
      /\ create_aad_prefix \in Seq(Bytes_(h)) /\ Len(create_aad_prefix) = 10
      /\ HeaderBytes(h) \in Seq(Bytes_(h)) /\ Len(HeaderBytes(h)) = n
      /\ create_aad_suffix \in Seq(Bytes_(h)) /\ Len(create_aad_suffix) = 1
  BY HeadSize, PrefixTyped, HeaderTyped, SuffixTyped
<1>2. n \in Nat /\ UintSize(n) \in Nat
  BY DEF UintSize
<1>3. create_aad(h) = q2 \o create_aad_suffix
  BY DEF create_aad
<1> HIDE DEF n, a, q1, q2
<1>4. q1 \in Seq(Bytes_(h)) /\ Len(q1) = 10 + UintSize(n)
  <2>1. q1 \in Seq(Bytes_(h)) /\ Len(q1) = Len(create_aad_prefix) + Len(a)
    BY <1>1, ConcatProperties DEF q1
  <2> QED
    BY <1>1, <2>1
<1>5. q2 \in Seq(Bytes_(h)) /\ Len(q2) = 10 + UintSize(n) + n
  <2>1. q2 \in Seq(Bytes_(h)) /\ Len(q2) = Len(q1) + Len(HeaderBytes(h))
    BY <1>1, <1>4, ConcatProperties DEF q2
  <2> QED
    BY <1>1, <1>4, <2>1
<1>6. create_aad(h) \in Seq(Bytes_(h)) /\ Len(create_aad(h)) = 10 + UintSize(n) + n + 1
  <2>1. /\ q2 \o create_aad_suffix \in Seq(Bytes_(h))
        /\ Len(q2 \o create_aad_suffix) = Len(q2) + Len(create_aad_suffix)
    BY <1>1, <1>5, ConcatProperties
  <2> QED
    BY <1>1, <1>3, <1>5, <2>1
<1> QED
  BY <1>2, <1>6 DEF n

(* COSE_AAD_MAX_SIZE is the right size: it holds the associated data of    *)
(* the headers of up to COSE_PROTECTED_HEADER_MAX_SIZE, and of no other.   *)
LEMMA AadFitsExactly ==
  ASSUME NEW h, HeaderSize(h) \in Nat
  PROVE  AadFits(h) <=> HeaderSize(h) <= COSE_PROTECTED_HEADER_MAX_SIZE
<1>1. PICK n \in Nat : n = HeaderSize(h)
  OBVIOUS
<1>2. Len(create_aad(h)) = 11 + n + UintSize(n)
  BY <1>1, AadTyped
<1>3. 11 + n + UintSize(n) <= 64 <=> n <= 51
  BY DEF UintSize
<1> QED
  BY <1>1, <1>2, <1>3 DEF AadFits, COSE_AAD_MAX_SIZE, COSE_PROTECTED_HEADER_MAX_SIZE

(* Opening reads back what create_aad wrote.                               *)
LEMMA OpeningReadsAad ==
  ASSUME NEW h, HeaderSize(h) \in Nat, AadFits(h), BufferWhole
  PROVE  LET a == create_aad(h) IN SubSeq(Put(aad_buffer, 0, a), 1, Len(a)) = a
<1>1. PICK a \in Seq(Bytes_(h)) : a = create_aad(h) /\ Len(a) <= 64
  BY AadTyped DEF AadFits, COSE_AAD_MAX_SIZE, COSE_PROTECTED_HEADER_MAX_SIZE
<1>2. DOMAIN aad_buffer = 1..64
  BY DEF BufferWhole, COSE_AAD_MAX_SIZE, COSE_PROTECTED_HEADER_MAX_SIZE
<1>3. \A i \in 1..Len(a) : Put(aad_buffer, 0, a)[i] = a[i]
  <2>1. SUFFICES ASSUME NEW i \in 1..Len(a) PROVE Put(aad_buffer, 0, a)[i] = a[i]
    OBVIOUS
  <2>2. i \in 1..64 /\ i \in 0 + 1 .. 0 + Len(a) /\ i - 0 = i
    BY <1>1
  <2> QED
    BY <1>2, <2>2 DEF Put
<1> QED
  BY <1>1, <1>3, PrefixRead

(* Sealing reads back what it built around the header.                     *)
LEMMA SealingReadsAad ==
  ASSUME NEW h, HeaderSize(h) \in 24..COSE_PROTECTED_HEADER_MAX_SIZE, BufferWhole
  PROVE  SubSeq(SealingAad(aad_buffer, h), 1, SealingAadSize(h)) = create_aad(h)
<1> DEFINE Cell == {aad_buffer[i] : i \in 1..COSE_AAD_MAX_SIZE}
<1>1. aad_buffer \in [1..COSE_AAD_MAX_SIZE -> Cell]
  BY DEF BufferWhole
<1>2. HeaderSize(h) \in Nat
  BY DEF COSE_PROTECTED_HEADER_MAX_SIZE
<1> HIDE DEF Cell
<1>3. /\ SealingAadSize(h) = Len(create_aad(h))
      /\ \A i \in 1..Len(create_aad(h)) : SealingAad(aad_buffer, h)[i] = create_aad(h)[i]
  BY <1>1, AadBothWays
<1> QED
  BY <1>2, <1>3, AadTyped, PrefixRead

-----------------------------------------------------------------------------
(* The loop over the five entries of the header map.                       *)
LEMMA LastOfFive ==
  ASSUME NEW t \in SUBSET (1..5), t # {}
  PROVE  Max(t) \in t /\ \A x \in t : x <= Max(t)
<1>1. \E m \in t : \A x \in t : m >= x
  <2>1. CASE 5 \in t
    BY <2>1
  <2>2. CASE 5 \notin t /\ 4 \in t
    BY <2>2
  <2>3. CASE 5 \notin t /\ 4 \notin t /\ 3 \in t
    BY <2>3
  <2>4. CASE 5 \notin t /\ 4 \notin t /\ 3 \notin t /\ 2 \in t
    BY <2>4
  <2>5. CASE 5 \notin t /\ 4 \notin t /\ 3 \notin t /\ 2 \notin t
    <3>1. \A x \in t : x = 1
      <4> SUFFICES ASSUME NEW x \in t PROVE x = 1
        OBVIOUS
      <4>1. x \in 1..5 /\ x # 5 /\ x # 4 /\ x # 3 /\ x # 2
        BY <2>5
      <4> QED
        BY <4>1
    <3>2. 1 \in t
      BY <3>1
    <3>3. \A x \in t : 1 >= x
      BY <3>1
    <3> QED
      BY <3>2, <3>3
  <2> QED
    BY <2>1, <2>2, <2>3, <2>4, <2>5
<1>2. Max(t) \in t /\ \A x \in t : Max(t) >= x
  BY <1>1 DEF Max
<1> QED
  BY <1>2

(* What the loop has found after i entries.                                *)
Loop1(start, s) == parse_header_map_entry(start, s[1])
Loop2(start, s) == parse_header_map_entry(Loop1(start, s), s[2])
Loop3(start, s) == parse_header_map_entry(Loop2(start, s), s[3])
Loop4(start, s) == parse_header_map_entry(Loop3(start, s), s[4])
Loop5(start, s) == parse_header_map_entry(Loop4(start, s), s[5])

LEMMA FiveEntries ==
  ASSUME NEW start, NEW s, DOMAIN s = 1..5
  PROVE  FoldLeft(parse_header_map_entry, start, s) = Loop5(start, s)
<1> DEFINE S == DOMAIN s
           Iter(f) == f = [t \in SUBSET S |->
                             IF t = {} THEN start
                             ELSE parse_header_map_entry(f[t \ {Max(t)}], s[Max(t)])]
           iter == CHOOSE f : Iter(f)
           a1(t) == IF 1 \in t THEN parse_header_map_entry(start, s[1]) ELSE start
           a2(t) == IF 2 \in t THEN parse_header_map_entry(a1(t), s[2]) ELSE a1(t)
           a3(t) == IF 3 \in t THEN parse_header_map_entry(a2(t), s[3]) ELSE a2(t)
           a4(t) == IF 4 \in t THEN parse_header_map_entry(a3(t), s[4]) ELSE a3(t)
           a5(t) == IF 5 \in t THEN parse_header_map_entry(a4(t), s[5]) ELSE a4(t)
           g == [t \in SUBSET S |-> a5(t)]
<1>1. FoldLeft(parse_header_map_entry, start, s) = iter[S]
  BY DEF FoldLeft, MapThenFoldSet
<1>2. S = 1..5
  OBVIOUS
<1> HIDE DEF S
<1>3. Iter(g)
  <2>1. ASSUME NEW t \in SUBSET S
        PROVE  g[t] = IF t = {} THEN start
                      ELSE parse_header_map_entry(g[t \ {Max(t)}], s[Max(t)])
    <3>1. \A u \in SUBSET S : g[u] = a5(u)
      OBVIOUS
    <3> HIDE DEF g
    <3>2. CASE t = {}
      BY <3>1, <3>2
    <3>3. CASE t # {}
      <4>1. Max(t) \in t /\ \A x \in t : x <= Max(t)
        BY <1>2, <3>3, LastOfFive
      <4>2. PICK m \in 1..5 : m = Max(t) /\ m \in t /\ \A x \in t : x <= m
        BY <1>2, <4>1
      <4> HIDE DEF a5, a4, a3, a2, a1
      <4>3. a5(t) = parse_header_map_entry(a5(t \ {m}), s[m])
        <5>1. CASE m = 5
          BY <4>2, <5>1 DEF a5, a4, a3, a2, a1
        <5>2. CASE m = 4
          <6>1. 5 \notin t /\ 4 \in t
            BY <4>2, <5>2
          <6> QED
            BY <5>2, <6>1 DEF a5, a4, a3, a2, a1
        <5>3. CASE m = 3
          <6>1. 5 \notin t /\ 4 \notin t /\ 3 \in t
            BY <4>2, <5>3
          <6> QED
            BY <5>3, <6>1 DEF a5, a4, a3, a2, a1
        <5>4. CASE m = 2
          <6>1. 5 \notin t /\ 4 \notin t /\ 3 \notin t /\ 2 \in t
            BY <4>2, <5>4
          <6> QED
            BY <5>4, <6>1 DEF a5, a4, a3, a2, a1
        <5>5. CASE m = 1
          <6>1. 5 \notin t /\ 4 \notin t /\ 3 \notin t /\ 2 \notin t /\ 1 \in t
            BY <4>2, <5>5
          <6> QED
            BY <5>5, <6>1 DEF a5, a4, a3, a2, a1
        <5> QED
          BY <4>2, <5>1, <5>2, <5>3, <5>4, <5>5
      <4>4. g[t] = a5(t) /\ g[t \ {m}] = a5(t \ {m})
        BY <3>1
      <4>5. g[t] = parse_header_map_entry(g[t \ {m}], s[m])
        BY <4>3, <4>4
      <4>6. g[t] = parse_header_map_entry(g[t \ {Max(t)}], s[Max(t)])
        BY <4>2, <4>5
      <4> QED
        BY <3>3, <4>6
    <3> QED
      BY <3>2, <3>3
  <2>2. g = [t \in SUBSET S |-> g[t]]
    OBVIOUS
  <2> HIDE DEF g
  <2>3. [t \in SUBSET S |-> g[t]] = [t \in SUBSET S |->
                             IF t = {} THEN start
                             ELSE parse_header_map_entry(g[t \ {Max(t)}], s[Max(t)])]
    BY <2>1
  <2> QED
    BY <2>2, <2>3
<1> HIDE DEF g
<1>4. Iter(iter)
  <2> HIDE DEF Iter
  <2> QED
    BY <1>3
<1> HIDE DEF iter
<1>5. ASSUME NEW t \in SUBSET S
      PROVE  iter[t] = IF t = {} THEN start
                       ELSE parse_header_map_entry(iter[t \ {Max(t)}], s[Max(t)])
  BY <1>4
<1> HIDE DEF Iter
<1>6. ASSUME NEW n \in 1..5
      PROVE  iter[1..n] = parse_header_map_entry(iter[1 .. n - 1], s[n])
  <2>1. 1..n \in SUBSET S /\ 1..n # {} /\ 1..n \in SUBSET (1..5)
    BY <1>2
  <2>2. Max(1..n) = n
    <3>1. Max(1..n) \in 1..n /\ \A x \in 1..n : x <= Max(1..n)
      BY <2>1, LastOfFive
    <3>2. n \in 1..n
      OBVIOUS
    <3> QED
      BY <3>1, <3>2
  <2>3. (1..n) \ {n} = 1 .. n - 1
    OBVIOUS
  <2> QED
    BY <1>5, <2>1, <2>2, <2>3
<1>7. iter[1..0] = start
  <2>1. 1..0 = {} /\ {} \in SUBSET S
    OBVIOUS
  <2> QED
    BY <1>5, <2>1
<1>8. iter[1..1] = Loop1(start, s)
  BY <1>6, <1>7 DEF Loop1
<1>9. iter[1..2] = Loop2(start, s)
  BY <1>6, <1>8 DEF Loop2
<1>10. iter[1..3] = Loop3(start, s)
  BY <1>6, <1>9 DEF Loop3
<1>11. iter[1..4] = Loop4(start, s)
  BY <1>6, <1>10 DEF Loop4
<1>12. iter[1..5] = Loop5(start, s)
  BY <1>6, <1>11 DEF Loop5
<1> QED
  BY <1>1, <1>2, <1>12

(* The widths of the integers, without the ranges CodecAssumption names.   *)
LEMMA Widths ==
  UINT32 \in Nat /\ UINT16 \in Nat /\ UINT32 >= UINT16 /\ UINT16 = 65536
<1>1. UINT32 \in Nat /\ UINT32 >= UINT16
  BY CodecAssumption
<1>2. UINT16 = 65536
  BY DEF UINT16
<1>3. UINT16 \in Nat
  BY <1>2
<1> QED
  BY <1>1, <1>2, <1>3

-----------------------------------------------------------------------------
(* Headers as cbor_value_get_* sees them.                                  *)
HeaderEntry ==
  [key : Nat \cup {-1}, type : EntryTypes, val : Nat \cup Nonces, len : Nat,
   list : Seq(Nat \cup {-1})]

IsHeader(h) ==
  /\ h.map \in BOOLEAN
  /\ h.entries \in Seq(HeaderEntry)
  /\ \A j \in 1..Len(h.entries) : h.entries[j].type = "uint" => h.entries[j].val \in Nat

Known(e) == e.key % UINT32
Readable(e) == e.key \in Nat /\ EntryReadable(e, Known(e))

At(s, k, j) == {i \in 1..j : Known(s[i]) = k}
LastAt(s, k, j, p) == p \in At(s, k, j) /\ \A q \in At(s, k, j) : q <= p

(* A field is what the last entry for it says.                             *)
FieldSaid(s, k, j, v) == \A p \in 1..j : LastAt(s, k, j, p) => v = s[p].val

(* Byte i of the nonce that the first j entries leave.                     *)
Reaches(s, p, i) == Known(s[p]) = NONCE /\ s[p].len + 1 >= i
SaidByte(e, i) == IF i > e.len THEN ZeroByte ELSE NonceByte(e.val, i)

NonceSaid(s, j, i, b) ==
  /\ (\A p \in 1..j : ~Reaches(s, p, i)) => b = ZeroByte
  /\ \A p \in 1..j :
       Reaches(s, p, i) /\ (\A q \in 1..j : Reaches(s, q, i) => q <= p)
         => b = SaidByte(s[p], i)

(* d is what the loop has found when it has looked at j entries.           *)
Shaped(d) ==
  /\ d = [code |-> d.code, found |-> d.found, device |-> d.device,
          opcode |-> d.opcode, nonce |-> d.nonce]
  /\ d.nonce = [i \in 1..CRYPTO_NONCE_SIZE |-> d.nonce[i]]
  /\ d.code \in {"NONE", "MESSAGE_PARSING"}

Says(d, s, j) ==
  /\ Shaped(d)
  /\ d.code = "NONE" <=> \A i \in 1..j : Readable(s[i])
  /\ d.code = "NONE" =>
       /\ d.found = {k \in Required : At(s, k, j) # {}}
       /\ FieldSaid(s, DEVICE_ID, j, d.device) /\ FieldSaid(s, OPCODE, j, d.opcode)
       /\ \A i \in 1..CRYPTO_NONCE_SIZE : NonceSaid(s, j, i, d.nonce[i])

(* What one turn of the loop makes of d.                                   *)
Reads(d, e, r) ==
  LET ok == d.code = "NONE" /\ Readable(e)
  IN  /\ Shaped(r)
      /\ r.code = "NONE" <=> ok
      /\ ok => /\ r.found = d.found \cup ({Known(e)} \cap Required)
               /\ r.device = IF Known(e) = DEVICE_ID THEN e.val ELSE d.device
               /\ r.opcode = IF Known(e) = OPCODE THEN e.val ELSE d.opcode
               /\ r.nonce = IF Known(e) = NONCE THEN CopyNonce(d.nonce, e) ELSE d.nonce

LEMMA EntryIsRead ==
  ASSUME NEW d, Shaped(d), NEW e \in HeaderEntry, e.type = "uint" => e.val \in Nat
  PROVE  Reads(d, e, parse_header_map_entry(d, e))
<1> USE DEF ALGO, CRIT, NONCE, DEVICE_ID, OPCODE, Required
<1>0. PICK r, k : r = parse_header_map_entry(d, e) /\ k = Known(e)
  OBVIOUS
<1> SUFFICES Reads(d, e, r)
  BY <1>0
<1>1. e.key \in Int /\ (e.key < 0 <=> e.key \notin Nat)
  BY DEF HeaderEntry
<1>2. CASE d.code # "NONE"
  <2>1. r = d
    BY <1>0, <1>2 DEF parse_header_map_entry
  <2> QED
    BY <1>2, <2>1 DEF Reads
<1>3. CASE d.code = "NONE" /\ ~Readable(e)
  <2>1. r = [d EXCEPT !.code = "MESSAGE_PARSING"]
    BY <1>0, <1>1, <1>3 DEF parse_header_map_entry, Known, Readable
  <2> QED
    BY <1>3, <2>1 DEF Reads, Shaped
<1>4. CASE d.code = "NONE" /\ Readable(e)
  <2>1. r = CASE k = NONCE     -> [d EXCEPT !.found = @ \cup {k}, !.nonce = CopyNonce(@, e)]
              [] k = DEVICE_ID -> [d EXCEPT !.found = @ \cup {k}, !.device = e.val]
              [] k = OPCODE    -> [d EXCEPT !.found = @ \cup {k}, !.opcode = e.val % UINT16]
              [] k = ALGO      -> [d EXCEPT !.found = @ \cup {k}]
              [] OTHER         -> d
    BY <1>0, <1>1, <1>4 DEF parse_header_map_entry, Known, Readable
  <2>2. CASE k = NONCE
    <3>1. r = [d EXCEPT !.found = @ \cup {k}, !.nonce = CopyNonce(@, e)]
      BY <2>1, <2>2
    <3>2. PICK n : n = CopyNonce(d.nonce, e)
      OBVIOUS
    <3>3. n = [i \in 1..CRYPTO_NONCE_SIZE |-> n[i]]
      BY <3>2 DEF CopyNonce
    <3>4. r = [code |-> "NONE", found |-> d.found \cup {k}, device |-> d.device,
               opcode |-> d.opcode, nonce |-> n]
      BY <1>4, <3>1, <3>2 DEF Shaped
    <3>5. Shaped(r)
      BY <3>3, <3>4 DEF Shaped
    <3>6. /\ r.code = "NONE" /\ r.found = d.found \cup {k} /\ r.device = d.device
          /\ r.opcode = d.opcode /\ r.nonce = n
      BY <3>4
    <3> QED
      BY <1>0, <1>4, <2>2, <3>2, <3>5, <3>6 DEF Reads
  <2>3. CASE k = DEVICE_ID
    <3>1. r = [d EXCEPT !.found = @ \cup {k}, !.device = e.val]
      BY <2>1, <2>3
    <3>2. r = [code |-> "NONE", found |-> d.found \cup {k}, device |-> e.val,
               opcode |-> d.opcode, nonce |-> d.nonce]
      BY <1>4, <3>1 DEF Shaped
    <3> QED
      BY <1>0, <1>4, <2>3, <3>2 DEF Reads, Shaped
  <2>4. CASE k = OPCODE
    <3>1. e.val \in Nat /\ e.val < 65536
      BY <1>0, <1>4, <2>4 DEF EntryReadable, Readable, UINT16
    <3>2. e.val % UINT16 = e.val
      BY <3>1 DEF UINT16
    <3>5. r = [d EXCEPT !.found = @ \cup {k}, !.opcode = e.val % UINT16]
      BY <2>1, <2>4
    <3>3. r = [d EXCEPT !.found = @ \cup {k}, !.opcode = e.val]
      BY <3>2, <3>5, Zenon
    <3>4. r = [code |-> "NONE", found |-> d.found \cup {k}, device |-> d.device,
               opcode |-> e.val, nonce |-> d.nonce]
      BY <1>4, <3>3 DEF Shaped
    <3> QED
      BY <1>0, <1>4, <2>4, <3>4 DEF Reads, Shaped
  <2>5. CASE k = ALGO
    <3>1. r = [d EXCEPT !.found = @ \cup {k}]
      BY <2>1, <2>5
    <3>2. r = [code |-> "NONE", found |-> d.found \cup {k}, device |-> d.device,
               opcode |-> d.opcode, nonce |-> d.nonce]
      BY <1>4, <3>1 DEF Shaped
    <3> QED
      BY <1>0, <1>4, <2>5, <3>2 DEF Reads, Shaped
  <2>6. CASE k \notin {NONCE, DEVICE_ID, OPCODE, ALGO}
    <3>1. r = d
      BY <2>1, <2>6
    <3> QED
      BY <1>0, <1>4, <2>6, <3>1 DEF Reads, Shaped
  <2> QED
    BY <2>2, <2>3, <2>4, <2>5, <2>6
<1> QED
  BY <1>2, <1>3, <1>4

LEMMA AtGrows ==
  ASSUME NEW s, NEW j \in Nat, NEW k
  PROVE  At(s, k, j + 1) = At(s, k, j) \cup (IF Known(s[j + 1]) = k THEN {j + 1} ELSE {})
<1>1. 1 .. j + 1 = (1..j) \cup {j + 1}
  OBVIOUS
<1> QED
  BY <1>1 DEF At

LEMMA FieldSays ==
  ASSUME NEW s, NEW j \in Nat, NEW k, NEW old, NEW new, FieldSaid(s, k, j, old),
         new = IF Known(s[j + 1]) = k THEN s[j + 1].val ELSE old
  PROVE  FieldSaid(s, k, j + 1, new)
<1> SUFFICES ASSUME NEW p \in 1 .. j + 1, LastAt(s, k, j + 1, p)
             PROVE  new = s[p].val
  BY DEF FieldSaid
<1>1. At(s, k, j + 1) = At(s, k, j) \cup (IF Known(s[j + 1]) = k THEN {j + 1} ELSE {})
  BY AtGrows
<1>2. p \in At(s, k, j + 1) /\ \A q \in At(s, k, j + 1) : q <= p
  BY DEF LastAt
<1>3. CASE Known(s[j + 1]) = k
  <2>1. j + 1 <= p
    BY <1>1, <1>2, <1>3
  <2>2. p = j + 1
    BY <2>1
  <2> QED
    BY <1>3, <2>2
<1>4. CASE Known(s[j + 1]) # k
  <2>1. At(s, k, j + 1) = At(s, k, j)
    BY <1>1, <1>4
  <2>2. LastAt(s, k, j, p) /\ p \in 1..j
    BY <1>2, <2>1 DEF LastAt, At
  <2> QED
    BY <1>4, <2>2 DEF FieldSaid
<1> QED
  BY <1>3, <1>4

LEMMA NonceByteSays ==
  ASSUME NEW s, NEW j \in Nat, s[j + 1].len \in Nat, NEW i \in 1..CRYPTO_NONCE_SIZE,
         NEW old, NonceSaid(s, j, i, old[i]),
         NEW new, new = IF Known(s[j + 1]) = NONCE THEN CopyNonce(old, s[j + 1]) ELSE old
  PROVE  NonceSaid(s, j + 1, i, new[i])
<1>1. i \in Nat
  BY DEF CRYPTO_NONCE_SIZE
<1>2. PICK e : e = s[j + 1]
  OBVIOUS
<1>3. 1 .. j + 1 = (1..j) \cup {j + 1} /\ j + 1 \notin 1..j
  OBVIOUS
<1>4. CASE Reaches(s, j + 1, i)
  <2>1. new[i] = SaidByte(e, i)
    <3>1. new = CopyNonce(old, e) /\ e.len + 1 >= i /\ e.len \in Nat
      BY <1>2, <1>4 DEF Reaches
    <3>2. new[i] = IF i <= e.len THEN NonceByte(e.val, i)
                   ELSE IF i = e.len + 1 THEN ZeroByte ELSE old[i]
      BY <3>1 DEF CopyNonce
    <3> QED
      BY <1>1, <3>1, <3>2 DEF SaidByte
  <2>2. ASSUME NEW p \in 1 .. j + 1, \A q \in 1 .. j + 1 : Reaches(s, q, i) => q <= p
        PROVE  p = j + 1
    <3>1. j + 1 <= p
      BY <1>3, <1>4, <2>2
    <3> QED
      BY <3>1
  <2>3. j + 1 \in 1 .. j + 1
    OBVIOUS
  <2> QED
    BY <1>2, <1>4, <2>1, <2>2, <2>3 DEF NonceSaid
<1>5. CASE ~Reaches(s, j + 1, i)
  <2>1. new[i] = old[i]
    <3>1. CASE Known(e) = NONCE
      <4>1. ~(e.len + 1 >= i) /\ e.len \in Nat
        BY <1>2, <1>5, <3>1 DEF Reaches
      <4>2. ~(i <= e.len) /\ i # e.len + 1
        BY <1>1, <4>1
      <4>3. new = CopyNonce(old, e)
        BY <1>2, <3>1
      <4> QED
        BY <4>2, <4>3 DEF CopyNonce
    <3> QED
      BY <1>2, <3>1
  <2>2. \A p \in 1 .. j + 1 : Reaches(s, p, i) => p \in 1..j
    BY <1>3, <1>5
  <2>3. (\A p \in 1 .. j + 1 : ~Reaches(s, p, i)) => new[i] = ZeroByte
    BY <1>3, <2>1 DEF NonceSaid
  <2>4. ASSUME NEW p \in 1 .. j + 1, Reaches(s, p, i),
               \A q \in 1 .. j + 1 : Reaches(s, q, i) => q <= p
        PROVE  new[i] = SaidByte(s[p], i)
    <3>1. p \in 1..j /\ \A q \in 1..j : Reaches(s, q, i) => q <= p
      BY <1>3, <2>2, <2>4
    <3> QED
      BY <2>1, <2>4, <3>1 DEF NonceSaid
  <2> QED
    BY <2>3, <2>4 DEF NonceSaid
<1> QED
  BY <1>4, <1>5

LEMMA LoopSays ==
  ASSUME NEW s, NEW j \in Nat, s[j + 1].len \in Nat,
         NEW d, NEW r, Says(d, s, j), Reads(d, s[j + 1], r)
  PROVE  Says(r, s, j + 1)
<1>1. 1 .. j + 1 = (1..j) \cup {j + 1}
  OBVIOUS
<1>2. r.code = "NONE" <=> \A i \in 1 .. j + 1 : Readable(s[i])
  BY <1>1 DEF Says, Reads
<1>3. ASSUME r.code = "NONE"
      PROVE  /\ r.found = {k \in Required : At(s, k, j + 1) # {}}
             /\ FieldSaid(s, DEVICE_ID, j + 1, r.device)
             /\ FieldSaid(s, OPCODE, j + 1, r.opcode)
             /\ \A i \in 1..CRYPTO_NONCE_SIZE : NonceSaid(s, j + 1, i, r.nonce[i])
  <2>1. /\ d.code = "NONE"
        /\ r.found = d.found \cup ({Known(s[j + 1])} \cap Required)
        /\ r.device = IF Known(s[j + 1]) = DEVICE_ID THEN s[j + 1].val ELSE d.device
        /\ r.opcode = IF Known(s[j + 1]) = OPCODE THEN s[j + 1].val ELSE d.opcode
        /\ r.nonce = IF Known(s[j + 1]) = NONCE THEN CopyNonce(d.nonce, s[j + 1]) ELSE d.nonce
    BY <1>3 DEF Reads
  <2>2. r.found = {k \in Required : At(s, k, j + 1) # {}}
    <3>1. ASSUME NEW k
          PROVE  k \in r.found <=> k \in Required /\ At(s, k, j + 1) # {}
      <4>1. At(s, k, j + 1) = At(s, k, j) \cup (IF Known(s[j + 1]) = k THEN {j + 1} ELSE {})
        BY AtGrows
      <4>2. k \in d.found <=> k \in Required /\ At(s, k, j) # {}
        BY <2>1 DEF Says
      <4> QED
        BY <2>1, <4>1, <4>2
    <3> QED
      BY <3>1
  <2>3. FieldSaid(s, DEVICE_ID, j + 1, r.device)
    BY <2>1, FieldSays DEF Says
  <2>4. FieldSaid(s, OPCODE, j + 1, r.opcode)
    BY <2>1, FieldSays DEF Says
  <2>5. \A i \in 1..CRYPTO_NONCE_SIZE : NonceSaid(s, j + 1, i, r.nonce[i])
    <3>1. \A i \in 1..CRYPTO_NONCE_SIZE : NonceSaid(s, j, i, d.nonce[i])
      BY <2>1 DEF Says
    <3> QED
      BY <2>1, <3>1, NonceByteSays
  <2> QED
    BY <2>2, <2>3, <2>4, <2>5
<1> QED
  BY <1>2, <1>3 DEF Says, Reads

LEMMA DecodedFive ==
  ASSUME NEW h, IsHeader(h), Len(h.entries) = COSE_HEADER_MAP_SIZE,
         NEW start, start = [code |-> "NONE", found |-> {}, device |-> 0, opcode |-> 0,
                             nonce |-> ZeroNonce]
  PROVE  Says(FoldLeft(parse_header_map_entry, start, h.entries), h.entries, 5)
<1>1. PICK s : s = h.entries
  OBVIOUS
<1>2. /\ s \in Seq(HeaderEntry) /\ Len(s) = 5 /\ DOMAIN s = 1..5
      /\ \A j \in 1..5 : s[j].type = "uint" => s[j].val \in Nat
  BY <1>1 DEF IsHeader, COSE_HEADER_MAP_SIZE
<1>3. ASSUME NEW j \in 0..4, NEW d, Says(d, s, j)
      PROVE  Says(parse_header_map_entry(d, s[j + 1]), s, j + 1)
  <2>1. j + 1 \in 1..5 /\ j \in Nat
    OBVIOUS
  <2>2. s[j + 1] \in HeaderEntry /\ (s[j + 1].type = "uint" => s[j + 1].val \in Nat)
    <3>1. PICK i \in 1..5 : i = j + 1
      BY <2>1
    <3>2. s[i] \in HeaderEntry /\ (s[i].type = "uint" => s[i].val \in Nat)
      BY <1>2
    <3> QED
      BY <3>1, <3>2
  <2>3. s[j + 1].len \in Nat
    BY <2>2 DEF HeaderEntry
  <2>4. Shaped(d)
    BY <1>3 DEF Says
  <2>5. Reads(d, s[j + 1], parse_header_map_entry(d, s[j + 1]))
    BY <2>2, <2>4, EntryIsRead
  <2> QED
    BY <1>3, <2>1, <2>3, <2>5, LoopSays
<1>4. Says(start, s, 0)
  <2>1. 1..0 = {} /\ \A k : At(s, k, 0) = {}
    BY DEF At
  <2>2. ZeroNonce = [i \in 1..CRYPTO_NONCE_SIZE |-> ZeroByte]
    BY DEF ZeroNonce
  <2>3. Shaped(start)
    BY <2>2 DEF Shaped
  <2>4. start.found = {k \in Required : At(s, k, 0) # {}}
    BY <2>1
  <2>5. FieldSaid(s, DEVICE_ID, 0, start.device) /\ FieldSaid(s, OPCODE, 0, start.opcode)
    BY <2>1 DEF FieldSaid
  <2>6. \A i \in 1..CRYPTO_NONCE_SIZE : NonceSaid(s, 0, i, start.nonce[i])
    BY <2>1, <2>2 DEF NonceSaid
  <2>7. start.code = "NONE" /\ \A i \in 1..0 : Readable(s[i])
    BY <2>1
  <2> QED
    BY <2>3, <2>4, <2>5, <2>6, <2>7 DEF Says
<1>5. Says(Loop1(start, s), s, 1)
  BY <1>3, <1>4 DEF Loop1
<1>6. Says(Loop2(start, s), s, 2)
  BY <1>3, <1>5 DEF Loop2
<1>7. Says(Loop3(start, s), s, 3)
  BY <1>3, <1>6 DEF Loop3
<1>8. Says(Loop4(start, s), s, 4)
  BY <1>3, <1>7 DEF Loop4
<1>9. Says(Loop5(start, s), s, 5)
  BY <1>3, <1>8 DEF Loop5
<1> QED
  BY <1>1, <1>2, <1>9, FiveEntries

LEMMA BelowIsIn ==
  ASSUME NEW v \in Nat, NEW n \in Nat
  PROVE  v < n <=> v \in 0 .. n - 1
  OBVIOUS

(* The critical list names known keys only.                                *)
KnownKeys == {ALGO, CRIT, NONCE, DEVICE_ID, OPCODE}

LEMMA CriticalIs ==
  ASSUME NEW list \in Seq(Nat \cup {-1})
  PROVE  AllKnown(list) <=> {k % UINT32 : k \in Range(list)} \subseteq KnownKeys
<1>1. Range(list) = {list[i] : i \in 1..Len(list)}
  BY DEF Range
<1>2. AllKnown(list) <=> \A i \in 1..Len(list) : list[i] % UINT32 \in KnownKeys
  BY DEF AllKnown, is_known_cose_header, KnownKeys
<1> QED
  BY <1>1, <1>2

(* A header is acceptable when each entry is readable and none is missing. *)
EntryAllowed(e) ==
  /\ e.key \in Nat
  /\ Known(e) = ALGO => IsUint(e, UINT32) /\ e.val = ENCRYPTION_ALGO_ASCON_AEAD_128
  /\ Known(e) = NONCE => e.type = "bytes" /\ e.len <= CRYPTO_NONCE_SIZE
  /\ Known(e) = DEVICE_ID => IsUint(e, UINT32)
  /\ Known(e) = OPCODE => IsUint(e, UINT16)
  /\ Known(e) = CRIT =>
       e.type = "array" /\ {k % UINT32 : k \in Range(e.list)} \subseteq KnownKeys

LEMMA ReadableIs ==
  ASSUME NEW e \in HeaderEntry, e.type = "uint" => e.val \in Nat
  PROVE  Readable(e) <=> EntryAllowed(e)
<1>1. UINT32 \in Nat /\ UINT16 \in Nat /\ 35 < UINT32
  BY Widths
<1>2. AllKnown(e.list) <=> {k % UINT32 : k \in Range(e.list)} \subseteq KnownKeys
  BY CriticalIs DEF HeaderEntry
<1>3. ASSUME NEW n \in Nat
      PROVE  IsUint(e, n) <=> e.type = "uint" /\ e.val < n
  BY BelowIsIn DEF IsUint
<1>4. PICK k : k = Known(e)
  OBVIOUS
<1> QED
  BY <1>1, <1>2, <1>3, <1>4
     DEF Readable, EntryReadable, EntryAllowed, ALGO, CRIT, NONCE, DEVICE_ID, OPCODE,
         ENCRYPTION_ALGO_ASCON_AEAD_128

LEMMA PositionsAre ==
  ASSUME NEW h, NEW k
  PROVE  Positions(h, k) = At(h.entries, k, Len(h.entries))
  BY DEF Positions, At, Known

LEMMA AcceptableIs ==
  ASSUME NEW h, IsHeader(h), Len(h.entries) = COSE_HEADER_MAP_SIZE
  PROVE  Acceptable(h) <=>
           /\ h.map
           /\ \A i \in 1..5 : Readable(h.entries[i])
           /\ Required \subseteq {k \in Required : At(h.entries, k, 5) # {}}
<1>1. PICK s : s = h.entries
  OBVIOUS
<1>2. s \in Seq(HeaderEntry) /\ Len(s) = 5 /\ DOMAIN s = 1..5
  BY <1>1 DEF IsHeader, COSE_HEADER_MAP_SIZE
<1>3. \A k : Positions(h, k) = At(s, k, 5)
  BY <1>1, <1>2, PositionsAre
<1>4. (\A e \in Range(s) : e.key \in Nat) <=> \A i \in 1..5 : s[i].key \in Nat
  BY <1>2 DEF Range
<1>5. \A i \in 1..5 : Readable(s[i]) <=> EntryAllowed(s[i])
  BY <1>1, <1>2, ReadableIs DEF IsHeader
<1>6. ASSUME NEW k
      PROVE  \A j \in At(s, k, 5) : j \in 1..5 /\ Known(s[j]) = k
  BY DEF At
<1>7. Acceptable(h) <=>
        /\ h.map
        /\ \A i \in 1..5 : s[i].key \in Nat
        /\ \A k \in Required : At(s, k, 5) # {}
        /\ \A j \in At(s, ALGO, 5) :
             IsUint(s[j], UINT32) /\ s[j].val = ENCRYPTION_ALGO_ASCON_AEAD_128
        /\ \A j \in At(s, NONCE, 5) : s[j].type = "bytes" /\ s[j].len <= CRYPTO_NONCE_SIZE
        /\ \A j \in At(s, DEVICE_ID, 5) : IsUint(s[j], UINT32)
        /\ \A j \in At(s, OPCODE, 5) : IsUint(s[j], UINT16)
        /\ \A j \in At(s, CRIT, 5) :
             s[j].type = "array" /\ {k % UINT32 : k \in Range(s[j].list)} \subseteq KnownKeys
  BY <1>1, <1>3, <1>4 DEF Acceptable, Required, KnownKeys
<1>8. (\A i \in 1..5 : EntryAllowed(s[i])) <=>
        /\ \A i \in 1..5 : s[i].key \in Nat
        /\ \A j \in At(s, ALGO, 5) :
             IsUint(s[j], UINT32) /\ s[j].val = ENCRYPTION_ALGO_ASCON_AEAD_128
        /\ \A j \in At(s, NONCE, 5) : s[j].type = "bytes" /\ s[j].len <= CRYPTO_NONCE_SIZE
        /\ \A j \in At(s, DEVICE_ID, 5) : IsUint(s[j], UINT32)
        /\ \A j \in At(s, OPCODE, 5) : IsUint(s[j], UINT16)
        /\ \A j \in At(s, CRIT, 5) :
             s[j].type = "array" /\ {k % UINT32 : k \in Range(s[j].list)} \subseteq KnownKeys
  BY DEF EntryAllowed, At
<1>9. (\A k \in Required : At(s, k, 5) # {})
        <=> Required \subseteq {k \in Required : At(s, k, 5) # {}}
  OBVIOUS
<1> QED
  BY <1>1, <1>5, <1>7, <1>8, <1>9

(* decode_protected_header accepts the headers the protocol allows, and    *)
(* finds in them what they say.                                            *)
THEOREM DecodesExactly ==
  ASSUME NEW h, IsHeader(h)
  PROVE  LET d == decode_protected_header(h, ZeroNonce)
         IN  /\ d.code = "NONE" <=> Acceptable(h)
             /\ Acceptable(h) => /\ d.device = LastValue(h, DEVICE_ID)
                                 /\ d.opcode = LastValue(h, OPCODE)
                                 /\ d.nonce = WireNonce(h)
<1>1. PICK start : start = [code |-> "NONE", found |-> {}, device |-> 0, opcode |-> 0,
                            nonce |-> ZeroNonce]
  OBVIOUS
<1>2. PICK end : end = IF h.map /\ Len(h.entries) = COSE_HEADER_MAP_SIZE
                       THEN FoldLeft(parse_header_map_entry, start, h.entries) ELSE start
  OBVIOUS
<1>3. PICK d : d = decode_protected_header(h, ZeroNonce)
  OBVIOUS
<1>4. d = IF Required \subseteq end.found THEN end ELSE [end EXCEPT !.code = "MESSAGE_PARSING"]
  BY <1>1, <1>2, <1>3 DEF decode_protected_header
<1>5. CASE ~(h.map /\ Len(h.entries) = COSE_HEADER_MAP_SIZE)
  <2>1. end = start /\ ~(Required \subseteq end.found)
    BY <1>1, <1>2, <1>5 DEF Required
  <2>2. d.code = "MESSAGE_PARSING"
    BY <1>1, <1>4, <2>1
  <2>3. ~Acceptable(h)
    BY <1>5 DEF Acceptable
  <2> QED
    BY <1>3, <2>2, <2>3
<1>6. CASE h.map /\ Len(h.entries) = COSE_HEADER_MAP_SIZE
  <2>1. PICK s : s = h.entries
    OBVIOUS
  <2>2. Says(end, s, 5)
    BY <1>1, <1>2, <1>6, <2>1, DecodedFive
  <2>3. d.code = "NONE" <=> end.code = "NONE" /\ Required \subseteq end.found
    BY <1>4, <2>2 DEF Says, Shaped
  <2>4. d.code = "NONE" <=> Acceptable(h)
    <3>1. end.code = "NONE" <=> \A i \in 1..5 : Readable(s[i])
      BY <2>2 DEF Says
    <3>2. end.code = "NONE" => end.found = {k \in Required : At(s, k, 5) # {}}
      BY <2>2 DEF Says
    <3> QED
      BY <1>6, <2>1, <2>3, <3>1, <3>2, AcceptableIs
  <2>5. ASSUME Acceptable(h)
        PROVE  /\ d.device = LastValue(h, DEVICE_ID)
               /\ d.opcode = LastValue(h, OPCODE)
               /\ d.nonce = WireNonce(h)
    <3>1. d = end /\ end.code = "NONE"
      BY <1>4, <2>3, <2>4, <2>5
    <3>2. Len(s) = 5 /\ \A k : Positions(h, k) = At(s, k, 5)
      BY <1>6, <2>1, PositionsAre DEF COSE_HEADER_MAP_SIZE
    <3>3. ASSUME NEW k \in Required, NEW v, FieldSaid(s, k, 5, v) PROVE v = LastValue(h, k)
      <4>1. At(s, k, 5) # {} /\ At(s, k, 5) \in SUBSET (1..5)
        BY <2>5, <3>2 DEF Acceptable, Required, At
      <4>2. PICK p : p = Max(At(s, k, 5))
        OBVIOUS
      <4>3. p \in At(s, k, 5) /\ \A q \in At(s, k, 5) : q <= p
        BY <4>1, <4>2, LastOfFive
      <4>4. p \in 1..5 /\ LastAt(s, k, 5, p)
        BY <4>1, <4>3 DEF LastAt
      <4> QED
        BY <2>1, <3>2, <3>3, <4>2, <4>4 DEF FieldSaid, LastValue
    <3>4. d.device = LastValue(h, DEVICE_ID) /\ d.opcode = LastValue(h, OPCODE)
      BY <2>2, <3>1, <3>3 DEF Says, Required
    <3>5. ASSUME NEW i \in 1..CRYPTO_NONCE_SIZE
          PROVE  end.nonce[i] = WireNonce(h)[i]
      <4>1. NonceSaid(s, 5, i, end.nonce[i])
        BY <2>2, <3>1 DEF Says
      <4>2. PICK reach : reach = {j \in 1..Len(h.entries) : ReachesByte(h, j, i)}
        OBVIOUS
      <4>3. reach = {j \in 1..5 : Reaches(s, j, i)}
        BY <2>1, <3>2, <4>2 DEF ReachesByte, Reaches, Known
      <4>4. WireNonce(h)[i] = IF reach = {} \/ i > s[Max(reach)].len THEN ZeroByte
                              ELSE NonceByte(s[Max(reach)].val, i)
        BY <2>1, <4>2 DEF WireNonce
      <4>5. CASE reach = {}
        <5>1. \A p \in 1..5 : ~Reaches(s, p, i)
          BY <4>3, <4>5
        <5> QED
          BY <4>1, <4>4, <4>5, <5>1 DEF NonceSaid
      <4>6. CASE reach # {}
        <5>1. PICK p : p = Max(reach)
          OBVIOUS
        <5>2. p \in reach /\ \A q \in reach : q <= p
          BY <4>3, <4>6, <5>1, LastOfFive
        <5>3. end.nonce[i] = SaidByte(s[p], i)
          BY <4>1, <4>3, <5>2 DEF NonceSaid
        <5> QED
          BY <4>4, <4>6, <5>1, <5>3 DEF SaidByte
      <4> QED
        BY <4>5, <4>6
    <3>6. end.nonce = [i \in 1..CRYPTO_NONCE_SIZE |-> end.nonce[i]]
      BY <2>2 DEF Says, Shaped
    <3>7. WireNonce(h) = [i \in 1..CRYPTO_NONCE_SIZE |-> WireNonce(h)[i]]
      BY DEF WireNonce
    <3>8. end.nonce = WireNonce(h)
      BY <3>5, <3>6, <3>7
    <3> QED
      BY <3>1, <3>4, <3>8
  <2> QED
    BY <1>3, <2>4, <2>5
<1> QED
  BY <1>5, <1>6

-----------------------------------------------------------------------------
(* The headers the device writes itself.                                   *)

(* The size of a header of five entries.                                   *)
LEMMA FiveSizes ==
  ASSUME NEW h, NEW s, s = h.entries, DOMAIN s = 1..5, NEW w \in [1..5 -> Nat],
         \A i \in 1..5 : EntrySize(s[i]) = w[i]
  PROVE  HeaderSize(h) = 1 + w[1] + w[2] + w[3] + w[4] + w[5]
<1> DEFINE S == DOMAIN s
           choose(t) == CHOOSE x \in t : TRUE
           Iter(f) == f = [t \in SUBSET S |->
                             IF t = {} THEN 1
                             ELSE f[t \ {choose(t)}] + EntrySize(s[choose(t)])]
           iter == CHOOSE f : Iter(f)
           v(i, t) == IF i \in t THEN w[i] ELSE 0
           sum(t) == 1 + v(1, t) + v(2, t) + v(3, t) + v(4, t) + v(5, t)
           g == [t \in SUBSET S |-> sum(t)]
<1>1. HeaderSize(h) = iter[S]
  BY DEF HeaderSize, FoldSeq, FoldFunction, FoldFunctionOnSet, MapThenFoldSet
<1>2. S = 1..5
  OBVIOUS
<1>3. ASSUME NEW t, t # {} PROVE choose(t) \in t
  BY <1>3
<1> HIDE DEF S, choose
<1>4. Iter(g)
  <2>1. ASSUME NEW t \in SUBSET S
        PROVE  g[t] = IF t = {} THEN 1
                      ELSE g[t \ {choose(t)}] + EntrySize(s[choose(t)])
    <3>1. CASE t = {}
      BY <3>1
    <3>2. CASE t # {}
      <4>1. PICK m \in 1..5 : m = choose(t) /\ m \in t
        BY <1>2, <1>3, <3>2
      <4>2. PICK u : u = t \ {m}
        OBVIOUS
      <4>3. u \in SUBSET S /\ m \notin u /\ \A i \in 1..5 : i # m => (i \in u <=> i \in t)
        BY <4>2
      <4>4. \A i \in 1..5 : v(i, u) \in Nat /\ v(i, t) \in Nat
        OBVIOUS
      <4>5. /\ v(m, u) = 0 /\ v(m, t) = w[m]
            /\ \A i \in 1..5 : i # m => v(i, u) = v(i, t)
        BY <4>1, <4>3
      <4>6. g[u] = sum(u) /\ g[t] = sum(t)
        BY <4>3
      <4> HIDE DEF v, g
      <4>7. sum(t) = sum(u) + w[m]
        <5>1. CASE m = 1
          BY <4>4, <4>5, <5>1
        <5>2. CASE m = 2
          BY <4>4, <4>5, <5>2
        <5>3. CASE m = 3
          BY <4>4, <4>5, <5>3
        <5>4. CASE m = 4
          BY <4>4, <4>5, <5>4
        <5>5. CASE m = 5
          BY <4>4, <4>5, <5>5
        <5> QED
          BY <5>1, <5>2, <5>3, <5>4, <5>5
      <4> HIDE DEF sum
      <4> QED
        BY <3>2, <4>1, <4>2, <4>6, <4>7
    <3> QED
      BY <3>1, <3>2
  <2>2. g = [t \in SUBSET S |-> g[t]]
    OBVIOUS
  <2> HIDE DEF g
  <2>3. [t \in SUBSET S |-> g[t]] = [t \in SUBSET S |->
                             IF t = {} THEN 1
                             ELSE g[t \ {choose(t)}] + EntrySize(s[choose(t)])]
    BY <2>1
  <2> QED
    BY <2>2, <2>3
<1> HIDE DEF g
<1>5. Iter(iter)
  <2> HIDE DEF Iter
  <2> QED
    BY <1>4
<1> HIDE DEF iter, v, sum
<1>6. ASSUME NEW t \in SUBSET S
      PROVE  iter[t] = IF t = {} THEN 1 ELSE iter[t \ {choose(t)}] + EntrySize(s[choose(t)])
  BY <1>5
<1> HIDE DEF Iter
<1>7. ASSUME NEW t \in SUBSET (1..5), \E i \in 1..5 : i \in t
      PROVE  \E x \in 1..5 : \E u \in SUBSET (1..5) :
               /\ x \in t /\ iter[t] = iter[u] + w[x]
               /\ \A i \in 1..5 : i \in u <=> i \in t /\ i # x
  <2>1. choose(t) \in t /\ choose(t) \in 1..5 /\ t # {}
    BY <1>3, <1>7
  <2>2. iter[t] = iter[t \ {choose(t)}] + w[choose(t)]
    BY <1>2, <1>6, <2>1
  <2>3. /\ t \ {choose(t)} \in SUBSET (1..5)
        /\ \A i \in 1..5 : i \in t \ {choose(t)} <=> i \in t /\ i # choose(t)
    OBVIOUS
  <2> QED
    BY <2>1, <2>2, <2>3
<1>8. PICK x1 \in 1..5, u1 \in SUBSET (1..5) :
        /\ iter[S] = iter[u1] + w[x1]
        /\ \A i \in 1..5 : i \in u1 <=> i # x1
  <2>1. 1..5 \in SUBSET (1..5) /\ \E i \in 1..5 : i \in 1..5
    OBVIOUS
  <2> QED
    BY <1>2, <1>7, <2>1
<1>9. PICK x2 \in 1..5, u2 \in SUBSET (1..5) :
        /\ x2 # x1 /\ iter[u1] = iter[u2] + w[x2]
        /\ \A i \in 1..5 : i \in u2 <=> i # x1 /\ i # x2
  <2>1. \E i \in 1..5 : i \in u1
    <3>1. \E i \in 1..5 : i # x1
      OBVIOUS
    <3> QED
      BY <1>8, <3>1
  <2> QED
    BY <1>7, <1>8, <2>1
<1>10. PICK x3 \in 1..5, u3 \in SUBSET (1..5) :
         /\ x3 # x1 /\ x3 # x2 /\ iter[u2] = iter[u3] + w[x3]
         /\ \A i \in 1..5 : i \in u3 <=> i # x1 /\ i # x2 /\ i # x3
  <2>1. \E i \in 1..5 : i \in u2
    <3>1. \E i \in 1..5 : i # x1 /\ i # x2
      OBVIOUS
    <3> QED
      BY <1>9, <3>1
  <2> QED
    BY <1>7, <1>9, <2>1
<1>11. PICK x4 \in 1..5, u4 \in SUBSET (1..5) :
         /\ x4 # x1 /\ x4 # x2 /\ x4 # x3 /\ iter[u3] = iter[u4] + w[x4]
         /\ \A i \in 1..5 : i \in u4 <=> i # x1 /\ i # x2 /\ i # x3 /\ i # x4
  <2>1. \E i \in 1..5 : i \in u3
    <3>1. \E i \in 1..5 : i # x1 /\ i # x2 /\ i # x3
      OBVIOUS
    <3> QED
      BY <1>10, <3>1
  <2> QED
    BY <1>7, <1>10, <2>1
<1>12. PICK x5 \in 1..5, u5 \in SUBSET (1..5) :
         /\ x5 # x1 /\ x5 # x2 /\ x5 # x3 /\ x5 # x4 /\ iter[u4] = iter[u5] + w[x5]
         /\ \A i \in 1..5 : i \in u5 <=> i # x1 /\ i # x2 /\ i # x3 /\ i # x4 /\ i # x5
  <2>1. \E i \in 1..5 : i \in u4
    <3>1. \E i \in 1..5 : i # x1 /\ i # x2 /\ i # x3 /\ i # x4
      OBVIOUS
    <3> QED
      BY <1>11, <3>1
  <2> QED
    BY <1>7, <1>11, <2>1
<1>13. u5 = {}
  <2>1. \A i \in 1..5 : i = x1 \/ i = x2 \/ i = x3 \/ i = x4 \/ i = x5
    BY <1>9, <1>10, <1>11, <1>12
  <2>2. \A i \in 1..5 : i \notin u5
    BY <1>12, <2>1
  <2> QED
    BY <2>2
<1>14. iter[{}] = 1
  BY <1>6
<1>15. x1 # x2 /\ x1 # x3 /\ x1 # x4 /\ x1 # x5 /\ x2 # x3 /\ x2 # x4 /\ x2 # x5
       /\ x3 # x4 /\ x3 # x5 /\ x4 # x5
  BY <1>9, <1>10, <1>11, <1>12
<1>16. w[x1] + w[x2] + w[x3] + w[x4] + w[x5] = w[1] + w[2] + w[3] + w[4] + w[5]
  BY <1>15
<1>17. \A i \in 1..5 : w[i] \in Nat
  OBVIOUS
<1>18. iter[S] = 1 + w[x1] + w[x2] + w[x3] + w[x4] + w[x5]
  BY <1>8, <1>9, <1>10, <1>11, <1>12, <1>13, <1>14, <1>15, <1>17
<1> QED
  BY <1>1, <1>15, <1>16, <1>17, <1>18

(* The size of the list of critical headers.                               *)
LEMMA TwoSizes ==
  ASSUME NEW a, NEW b, UintSize(a) = 3, UintSize(b) = 3
  PROVE  ListSize(<<a, b>>) = 7
<1> DEFINE S == DOMAIN <<a, b>>
           choose(t) == CHOOSE x \in t : TRUE
           Iter(f) == f = [t \in SUBSET S |->
                             IF t = {} THEN 1
                             ELSE f[t \ {choose(t)}] + UintSize(<<a, b>>[choose(t)])]
           iter == CHOOSE f : Iter(f)
           v(i, t) == IF i \in t THEN 3 ELSE 0
           g == [t \in SUBSET S |-> 1 + v(1, t) + v(2, t)]
<1>1. ListSize(<<a, b>>) = iter[S]
  BY DEF ListSize, FoldSeq, FoldFunction, FoldFunctionOnSet, MapThenFoldSet
<1>2. S = {1, 2} /\ \A i \in S : UintSize(<<a, b>>[i]) = 3
  OBVIOUS
<1>3. ASSUME NEW t, t # {} PROVE choose(t) \in t
  BY <1>3
<1> HIDE DEF S, choose
<1>4. Iter(g)
  <2>1. ASSUME NEW t \in SUBSET S
        PROVE  g[t] = IF t = {} THEN 1
                      ELSE g[t \ {choose(t)}] + UintSize(<<a, b>>[choose(t)])
    <3>1. CASE t = {}
      BY <3>1
    <3>2. CASE t # {}
      <4>1. PICK m \in {1, 2} : m = choose(t) /\ m \in t
        BY <1>2, <1>3, <3>2
      <4>2. PICK u \in SUBSET S : u = t \ {m}
        OBVIOUS
      <4>3. g[t] = g[u] + 3
        <5>1. CASE m = 1
          <6>1. 1 \in t /\ 1 \notin u /\ (2 \in u <=> 2 \in t)
            BY <4>1, <4>2, <5>1
          <6> QED
            BY <6>1
        <5>2. CASE m = 2
          <6>1. 2 \in t /\ 2 \notin u /\ (1 \in u <=> 1 \in t)
            BY <4>1, <4>2, <5>2
          <6> QED
            BY <6>1
        <5> QED
          BY <5>1, <5>2
      <4> HIDE DEF g
      <4> QED
        BY <1>2, <3>2, <4>1, <4>2, <4>3
    <3> QED
      BY <3>1, <3>2
  <2>2. g = [t \in SUBSET S |-> g[t]]
    OBVIOUS
  <2> HIDE DEF g
  <2>3. [t \in SUBSET S |-> g[t]] = [t \in SUBSET S |->
                             IF t = {} THEN 1
                             ELSE g[t \ {choose(t)}] + UintSize(<<a, b>>[choose(t)])]
    BY <2>1
  <2> QED
    BY <2>2, <2>3
<1> HIDE DEF g
<1>5. Iter(iter)
  <2> HIDE DEF Iter
  <2> QED
    BY <1>4
<1> HIDE DEF iter
<1>6. ASSUME NEW t \in SUBSET S
      PROVE  iter[t] = IF t = {} THEN 1
                       ELSE iter[t \ {choose(t)}] + UintSize(<<a, b>>[choose(t)])
  BY <1>5
<1> HIDE DEF Iter
<1>7. PICK x, u : x \in S /\ u = S \ {x} /\ iter[S] = iter[u] + 3
  <2>1. choose(S) \in S
    BY <1>2, <1>3
  <2> QED
    BY <1>2, <1>6, <2>1
<1>8. iter[u] = iter[{}] + 3
  <2>1. u # {} /\ u \in SUBSET S
    BY <1>2, <1>7
  <2>2. choose(u) \in u
    BY <1>3, <2>1
  <2>3. u \ {choose(u)} = {}
    BY <1>2, <1>7, <2>2
  <2> QED
    BY <1>2, <1>6, <2>1, <2>2, <2>3
<1>9. iter[{}] = 1
  BY <1>6
<1>10. iter[S] = 7
  BY <1>7, <1>8, <1>9
<1> QED
  BY <1>1, <1>10

(* encode_protected_header writes a header of 38 to 44 bytes, the size     *)
(* FirmupsSdk counts with.                                                 *)
THEOREM OwnHeaderSize ==
  ASSUME NEW device \in Nat, NEW opcode \in Nat, opcode < UINT16, NEW n
  PROVE  LET h == encode_protected_header(device, opcode, n)
         IN  /\ HeaderSize(h) = ProtectedHeaderSize([dev |-> device, opcode |-> opcode])
             /\ HeaderSize(h) \in 38..44
<1>1. PICK h, s : h = encode_protected_header(device, opcode, n) /\ s = h.entries
  OBVIOUS
<1>2. s = <<UintEntry(1, 35), BytesEntry(5, n, 16), ListEntry(2, <<8608, 8633>>),
            UintEntry(8608, device), UintEntry(8633, opcode)>>
  BY <1>1 DEF encode_protected_header, Map, ALGO, ENCRYPTION_ALGO_ASCON_AEAD_128, NONCE,
              CRYPTO_NONCE_SIZE, CRIT, DEVICE_ID, OPCODE
<1>3. /\ UintSize(1) = 1 /\ UintSize(35) = 2 /\ UintSize(5) = 1 /\ UintSize(16) = 1
      /\ UintSize(2) = 1 /\ UintSize(8608) = 3 /\ UintSize(8633) = 3
      /\ UintSize(device) \in {1, 2, 3, 5} /\ UintSize(opcode) \in {1, 2, 3}
  BY DEF UintSize, UINT16
<1>4. EntrySize(s[1]) = 3
  <2>1. s[1] = [key |-> 1, type |-> "uint", val |-> 35, len |-> 0, list |-> <<>>]
    BY <1>2 DEF UintEntry, Entry
  <2> QED
    BY <1>3, <2>1 DEF EntrySize
<1>5. EntrySize(s[2]) = 18
  <2>1. s[2] = [key |-> 5, type |-> "bytes", val |-> n, len |-> 16, list |-> <<>>]
    BY <1>2 DEF BytesEntry, Entry
  <2> QED
    BY <1>3, <2>1 DEF EntrySize, BstrHeaderSize
<1>6. EntrySize(s[3]) = 8
  <2>1. s[3] = [key |-> 2, type |-> "array", val |-> 0, len |-> 0, list |-> <<8608, 8633>>]
    BY <1>2 DEF ListEntry, Entry
  <2>2. EntrySize(s[3]) = 1 + ListSize(<<8608, 8633>>)
    BY <1>3, <2>1 DEF EntrySize
  <2>3. ListSize(<<8608, 8633>>) = 7
    BY <1>3, TwoSizes
  <2> QED
    BY <2>2, <2>3
<1>7. EntrySize(s[4]) = 3 + UintSize(device)
  <2>1. s[4] = [key |-> 8608, type |-> "uint", val |-> device, len |-> 0, list |-> <<>>]
    BY <1>2 DEF UintEntry, Entry
  <2> QED
    BY <1>3, <2>1 DEF EntrySize
<1>8. EntrySize(s[5]) = 3 + UintSize(opcode)
  <2>1. s[5] = [key |-> 8633, type |-> "uint", val |-> opcode, len |-> 0, list |-> <<>>]
    BY <1>2 DEF UintEntry, Entry
  <2> QED
    BY <1>3, <2>1 DEF EntrySize
<1>9. DOMAIN s = 1..5
  BY <1>2
<1> HIDE <1>2
<1>10. PICK w \in [1..5 -> Nat] : \A i \in 1..5 : EntrySize(s[i]) = w[i]
  <2>1. \A i \in 1..5 : EntrySize(s[i]) \in Nat
    <3>1. /\ EntrySize(s[1]) \in Nat /\ EntrySize(s[2]) \in Nat /\ EntrySize(s[3]) \in Nat
          /\ EntrySize(s[4]) \in Nat /\ EntrySize(s[5]) \in Nat
      BY <1>3, <1>4, <1>5, <1>6, <1>7, <1>8
    <3> QED
      BY <3>1
  <2>2. PICK w : w = [i \in 1..5 |-> EntrySize(s[i])]
    OBVIOUS
  <2> QED
    BY <2>1, <2>2
<1>11. HeaderSize(h) = 1 + w[1] + w[2] + w[3] + w[4] + w[5]
  BY <1>1, <1>9, <1>10, FiveSizes
<1>12. w[1] = 3 /\ w[2] = 18 /\ w[3] = 8 /\ w[4] = 3 + UintSize(device) /\ w[5] = 3 + UintSize(opcode)
  BY <1>4, <1>5, <1>6, <1>7, <1>8, <1>10
<1>13. HeaderSize(h) = 36 + UintSize(device) + UintSize(opcode)
  BY <1>3, <1>11, <1>12
<1> QED
  BY <1>1, <1>3, <1>13 DEF ProtectedHeaderSize

(* What encode_protected_header writes is what decode_protected_header     *)
(* reads.                                                                  *)
LEMMA LastOfOne ==
  ASSUME NEW p \in 1..5
  PROVE  Max({p}) = p
<1>1. {p} \in SUBSET (1..5) /\ {p} # {}
  OBVIOUS
<1> QED
  BY <1>1, LastOfFive

LEMMA OwnHeaderSays ==
  ASSUME NEW device \in Nat, device < UINT32, NEW opcode \in Nat, opcode < UINT16,
         NEW n \in Nonces
  PROVE  LET h == encode_protected_header(device, opcode, n)
         IN  /\ IsHeader(h)
             /\ Acceptable(h)
             /\ LastValue(h, DEVICE_ID) = device
             /\ LastValue(h, OPCODE) = opcode
             /\ WireNonce(h) = CopyNonce(ZeroNonce, BytesEntry(NONCE, n, 16))
<1>1. PICK h, s : h = encode_protected_header(device, opcode, n) /\ s = h.entries
  OBVIOUS
<1>2. /\ s = <<UintEntry(ALGO, 35), BytesEntry(NONCE, n, 16),
               ListEntry(CRIT, <<DEVICE_ID, OPCODE>>),
               UintEntry(DEVICE_ID, device), UintEntry(OPCODE, opcode)>>
      /\ h.map = TRUE
  BY <1>1 DEF encode_protected_header, Map, ENCRYPTION_ALGO_ASCON_AEAD_128, CRYPTO_NONCE_SIZE
<1> USE DEF ALGO, CRIT, NONCE, DEVICE_ID, OPCODE
<1>3. /\ s[1] = [key |-> 1, type |-> "uint", val |-> 35, len |-> 0, list |-> <<>>]
      /\ s[2] = [key |-> 5, type |-> "bytes", val |-> n, len |-> 16, list |-> <<>>]
      /\ s[3] = [key |-> 2, type |-> "array", val |-> 0, len |-> 0, list |-> <<8608, 8633>>]
      /\ s[4] = [key |-> 8608, type |-> "uint", val |-> device, len |-> 0, list |-> <<>>]
      /\ s[5] = [key |-> 8633, type |-> "uint", val |-> opcode, len |-> 0, list |-> <<>>]
  BY <1>2 DEF UintEntry, BytesEntry, ListEntry, Entry
<1>4. s \in Seq(HeaderEntry) /\ Len(s) = 5
  <2>1. <<>> \in Seq(Nat \cup {-1})
    OBVIOUS
  <2>2. <<8608, 8633>> \in Seq(Nat \cup {-1})
    OBVIOUS
  <2>3. "uint" \in EntryTypes /\ "bytes" \in EntryTypes /\ "array" \in EntryTypes
    BY DEF EntryTypes
  <2>4. n \in Nat \cup Nonces
    OBVIOUS
  <2>5. /\ 35 \in Nat \cup Nonces /\ 0 \in Nat \cup Nonces
         /\ device \in Nat \cup Nonces /\ opcode \in Nat \cup Nonces
    OBVIOUS
  <2>6. /\ s[1] = Entry(1, "uint", 35, 0, <<>>) /\ s[2] = Entry(5, "bytes", n, 16, <<>>)
         /\ s[3] = Entry(2, "array", 0, 0, <<8608, 8633>>)
         /\ s[4] = Entry(8608, "uint", device, 0, <<>>)
         /\ s[5] = Entry(8633, "uint", opcode, 0, <<>>)
    BY <1>3 DEF Entry
  <2>7. s[1] \in HeaderEntry
    <3>1. Entry(1, "uint", 35, 0, <<>>) \in HeaderEntry
      BY <2>1, <2>3, <2>5 DEF Entry, HeaderEntry
    <3> QED
      BY <2>6, <3>1
  <2>8. s[2] \in HeaderEntry
    <3>1. Entry(5, "bytes", n, 16, <<>>) \in HeaderEntry
      BY <2>1, <2>3, <2>4, <2>5 DEF Entry, HeaderEntry
    <3> QED
      BY <2>6, <3>1
  <2>9. s[3] \in HeaderEntry
    <3>1. Entry(2, "array", 0, 0, <<8608, 8633>>) \in HeaderEntry
      BY <2>2, <2>3, <2>5 DEF Entry, HeaderEntry
    <3> QED
      BY <2>6, <3>1
  <2>10. s[4] \in HeaderEntry
    <3>1. Entry(8608, "uint", device, 0, <<>>) \in HeaderEntry
      BY <2>1, <2>3, <2>5 DEF Entry, HeaderEntry
    <3> QED
      BY <2>6, <3>1
  <2>11. s[5] \in HeaderEntry
    <3>1. Entry(8633, "uint", opcode, 0, <<>>) \in HeaderEntry
      BY <2>1, <2>3, <2>5 DEF Entry, HeaderEntry
    <3> QED
      BY <2>6, <3>1
  <2>12. s = <<s[1], s[2], s[3], s[4], s[5]>>
    BY <1>2
  <2>13. PICK e1, e2, e3, e4, e5 : e1 = s[1] /\ e2 = s[2] /\ e3 = s[3] /\ e4 = s[4] /\ e5 = s[5]
    OBVIOUS
  <2>14. <<e1, e2, e3, e4, e5>> \in Seq(HeaderEntry) /\ Len(<<e1, e2, e3, e4, e5>>) = 5
    BY <2>13, <2>7, <2>8, <2>9, <2>10, <2>11
  <2> QED
    BY <2>12, <2>13, <2>14
<1>5. IsHeader(h)
  <2>1. \A j \in 1..5 : s[j].type = "uint" => s[j].val \in Nat
    BY <1>3
  <2>2. h.map \in BOOLEAN /\ h.entries \in Seq(HeaderEntry) /\ Len(h.entries) = 5
    <3>1. h.map = TRUE
      BY <1>2
    <3>2. h.map \in BOOLEAN
      BY <3>1
    <3>3. h.entries = s
      BY <1>1
    <3> QED
      BY <1>4, <3>2, <3>3
  <2> QED
    BY <1>1, <2>1, <2>2 DEF IsHeader
<1>6. UINT32 \in Nat /\ UINT32 >= 65536
  BY Widths
<1>7. /\ 1 % UINT32 = 1 /\ 2 % UINT32 = 2 /\ 5 % UINT32 = 5
      /\ 8608 % UINT32 = 8608 /\ 8633 % UINT32 = 8633
  BY <1>6
<1>8. /\ Known(s[1]) = 1 /\ Known(s[2]) = 5 /\ Known(s[3]) = 2
      /\ Known(s[4]) = 8608 /\ Known(s[5]) = 8633
  BY <1>3, <1>7 DEF Known
<1>9. \A k : At(s, k, 5) = {j \in {1, 2, 3, 4, 5} : Known(s[j]) = k}
  BY DEF At
<1>10. /\ At(s, 1, 5) = {1} /\ At(s, 5, 5) = {2} /\ At(s, 8608, 5) = {4} /\ At(s, 8633, 5) = {5}
  BY <1>8, <1>9
<1>11. \A k : Positions(h, k) = At(s, k, 5)
  BY <1>1, <1>4, PositionsAre
<1>12. LastValue(h, DEVICE_ID) = device /\ LastValue(h, OPCODE) = opcode
  <2>1. Max({4}) = 4 /\ Max({5}) = 5
    BY LastOfOne
  <2>2. Positions(h, DEVICE_ID) = {4} /\ Positions(h, OPCODE) = {5}
    BY <1>10, <1>11
  <2>3. s[4].val = device /\ s[5].val = opcode
    BY <1>3
  <2> QED
    BY <1>1, <2>1, <2>2, <2>3 DEF LastValue
<1>13. Acceptable(h)
  <2>1. /\ Readable(s[1]) /\ Readable(s[2]) /\ Readable(s[4]) /\ Readable(s[5])
    BY <1>3, <1>8
       DEF Readable, EntryReadable, ENCRYPTION_ALGO_ASCON_AEAD_128, CRYPTO_NONCE_SIZE
  <2>2. Readable(s[3])
    <3>1. s[3].key = 2 /\ s[3].type = "array" /\ s[3].list = <<8608, 8633>>
      BY <1>3
    <3>2. Len(<<8608, 8633>>) = 2 /\ <<8608, 8633>>[1] = 8608 /\ <<8608, 8633>>[2] = 8633
      OBVIOUS
    <3>3. AllKnown(s[3].list)
      BY <1>7, <3>1, <3>2 DEF AllKnown, is_known_cose_header
    <3> QED
      BY <1>8, <3>1, <3>3 DEF Readable, EntryReadable
  <2>3. \A i \in 1..5 : Readable(s[i])
    BY <2>1, <2>2
  <2>4. \A k \in Required : At(s, k, 5) # {}
    BY <1>10 DEF Required
  <2>5. Required \subseteq {k \in Required : At(s, k, 5) # {}}
    BY <2>4
  <2>6. Len(h.entries) = COSE_HEADER_MAP_SIZE /\ h.map
    BY <1>1, <1>2, <1>4 DEF COSE_HEADER_MAP_SIZE
  <2> HIDE DEF ALGO, CRIT, NONCE, DEVICE_ID, OPCODE
  <2> QED
    BY <1>1, <1>5, <2>3, <2>5, <2>6, AcceptableIs
<1>14. WireNonce(h) = CopyNonce(ZeroNonce, BytesEntry(NONCE, n, 16))
  <2>1. ASSUME NEW i \in 1..CRYPTO_NONCE_SIZE
        PROVE  WireNonce(h)[i] = CopyNonce(ZeroNonce, BytesEntry(NONCE, n, 16))[i]
    <3>1. i \in Nat /\ i <= 16
      BY DEF CRYPTO_NONCE_SIZE
    <3>2. {j \in 1..Len(h.entries) : ReachesByte(h, j, i)} = {2}
      <4>1. \A j \in {1, 2, 3, 4, 5} : ReachesByte(h, j, i) <=> j = 2
        BY <1>1, <1>3, <1>8, <3>1 DEF ReachesByte, Known
      <4>2. 1..Len(h.entries) = {1, 2, 3, 4, 5}
        BY <1>1, <1>4
      <4> QED
        BY <4>1, <4>2
    <3>3. Max({2}) = 2
      BY LastOfOne
    <3>4. WireNonce(h)[i] = IF i > s[2].len THEN ZeroByte ELSE NonceByte(s[2].val, i)
      BY <1>1, <3>2, <3>3 DEF WireNonce
    <3>5. WireNonce(h)[i] = NonceByte(n, i)
      BY <1>3, <3>1, <3>4
    <3>6. CopyNonce(ZeroNonce, BytesEntry(NONCE, n, 16))[i] = NonceByte(n, i)
      BY <3>1 DEF CopyNonce, BytesEntry, Entry
    <3> QED
      BY <3>5, <3>6
  <2>2. WireNonce(h) = [i \in 1..CRYPTO_NONCE_SIZE |-> WireNonce(h)[i]]
    BY DEF WireNonce
  <2>3. CopyNonce(ZeroNonce, BytesEntry(NONCE, n, 16))
          = [i \in 1..CRYPTO_NONCE_SIZE |-> CopyNonce(ZeroNonce, BytesEntry(NONCE, n, 16))[i]]
    BY DEF CopyNonce
  <2> QED
    BY <2>1, <2>2, <2>3
<1> QED
  BY <1>1, <1>5, <1>12, <1>13, <1>14

(* A message of this length is announced as it is.                         *)
LEMMA HeadLengthIs ==
  ASSUME NEW n \in Nat, n < 256 * 16777216
  PROVE  HeadLength(cbor_helper_write_bstr_header(n)) = n
<1>1. PICK head : head = cbor_helper_write_bstr_header(n)
  OBVIOUS
<1>2. CASE n <= 23
  <2>1. head = <<64 + n>>
    BY <1>1, <1>2, SMT DEF cbor_helper_write_bstr_header
  <2>2. head[1] = 64 + n /\ head[1] < 88 /\ head[1] - 64 = n
    BY <1>2, <2>1, SMT
  <2> QED
    BY <1>1, <2>2, SMT DEF HeadLength
<1>3. CASE n > 23 /\ n <= 255
  <2>1. head = <<88, n>>
    BY <1>1, <1>3, SMT DEF cbor_helper_write_bstr_header
  <2>2. head[1] = 88 /\ head[2] = n
    BY <2>1, SMT
  <2> QED
    BY <1>1, <2>2, SMT DEF HeadLength
<1>4. CASE n > 255 /\ n <= 65535
  <2>1. head = <<89, (n \div 256) % 256, n % 256>>
    BY <1>1, <1>4, SMT DEF cbor_helper_write_bstr_header
  <2>2. head[1] = 89 /\ head[2] = (n \div 256) % 256 /\ head[3] = n % 256
    BY <2>1, SMT
  <2>3. (n \div 256) % 256 = n \div 256
    BY <1>4, SMT
  <2>4. 256 * (n \div 256) + (n % 256) = n
    BY SMT
  <2>5. 256 * head[2] + head[3] = n
    BY <2>2, <2>3, <2>4, SMT
  <2> QED
    BY <1>1, <2>2, <2>5, SMT DEF HeadLength
<1>5. CASE n > 65535
  <2>1. head = <<90, (n \div 16777216) % 256, (n \div 65536) % 256, (n \div 256) % 256, n % 256>>
    BY <1>1, <1>5, SMT DEF cbor_helper_write_bstr_header
  <2>2. /\ head[1] = 90 /\ head[2] = (n \div 16777216) % 256 /\ head[3] = (n \div 65536) % 256
        /\ head[4] = (n \div 256) % 256 /\ head[5] = n % 256
    BY <2>1, SMT
  <2>3. (n \div 16777216) % 256 = n \div 16777216
    BY SMT
  <2>4. 256 * (n \div 16777216) + ((n \div 65536) % 256) = n \div 65536
    BY SMT
  <2>5. 256 * (n \div 65536) + ((n \div 256) % 256) = n \div 256
    BY SMT
  <2>6. 256 * (n \div 256) + (n % 256) = n
    BY SMT
  <2>7. 256 * (256 * (256 * head[2] + head[3]) + head[4]) + head[5] = n
    BY <2>2, <2>3, <2>4, <2>5, <2>6, SMT
  <2> QED
    BY <1>1, <2>2, <2>7, SMT DEF HeadLength
<1> QED
  BY <1>2, <1>3, <1>4, <1>5

-----------------------------------------------------------------------------
(* The messages that are opened.                                           *)
Openable(m) ==
  /\ IsHeader(m.header)
  /\ HeaderSize(m.header) \in Nat
  /\ m.plain \in Nat

LEMMA ServerHeaderIs ==
  ASSUME NEW h \in ServerHeaders
  PROVE  IsHeader(h) /\ HeaderSize(h) \in Nat
<1>1. HeaderSize(h) \in Nat /\ h.map \in BOOLEAN
  BY ServerAssumption
<1>2. PICK e : e = h.entries
  OBVIOUS
<1> DEFINE Arrived == [key : Nat \cup {-1}, type : EntryTypes, val : Nat, len : Nat,
                       list : Seq(Nat \cup {-1})]
<1>3. e \in Seq(Arrived)
  BY <1>2, ServerAssumption
<1>4. \A x \in Arrived : x \in HeaderEntry /\ x.val \in Nat
  BY DEF HeaderEntry
<1> HIDE DEF Arrived
<1>5. \A j \in 1..Len(e) : e[j] \in HeaderEntry /\ e[j].val \in Nat
  BY <1>3, <1>4
<1>6. e \in Seq(HeaderEntry)
  BY <1>3, <1>5
<1> QED
  BY <1>1, <1>2, <1>5, <1>6 DEF IsHeader

LEMMA ArrivingIsOpenable ==
  ASSUME NEW m \in Arriving
  PROVE  Openable(m)
<1>1. \A x \in Genuine : /\ x.header \in ServerHeaders
                         /\ x.plain \in OperationSizes
                         /\ x = [shape |-> x.shape, header |-> x.header, head |-> x.head,
                                 plain |-> x.plain, ad |-> x.ad, nonce |-> x.nonce,
                                 key |-> x.key]
  <2>1. SUFFICES ASSUME NEW h \in ServerHeaders, NEW plain \in OperationSizes, NEW x,
                        x = ServerSeals(h, plain, "device")
                 PROVE  /\ x.header \in ServerHeaders
                        /\ x.plain \in OperationSizes
                        /\ x = [shape |-> x.shape, header |-> x.header, head |-> x.head,
                                plain |-> x.plain, ad |-> x.ad, nonce |-> x.nonce,
                                key |-> x.key]
    BY DEF Genuine
  <2> QED
    BY <2>1 DEF ServerSeals, Message
<1>2. Smallest \subseteq Genuine
  BY DEF Smallest
<1>3. m.header \in ServerHeaders /\ m.plain \in OperationSizes
  <2>1. CASE m \in Genuine
    BY <1>1, <2>1
  <2>2. ASSUME NEW x \in Smallest, m = [x EXCEPT !.key = "other"]
        PROVE  m.header \in ServerHeaders /\ m.plain \in OperationSizes
    BY <1>1, <1>2, <2>2
  <2>3. ASSUME NEW x \in Smallest, NEW h \in ServerHeaders, m = [x EXCEPT !.header = h]
        PROVE  m.header \in ServerHeaders /\ m.plain \in OperationSizes
    BY <1>1, <1>2, <2>3
  <2>4. ASSUME NEW x \in Smallest, NEW s, m = [x EXCEPT !.shape = s]
        PROVE  m.header \in ServerHeaders /\ m.plain \in OperationSizes
    BY <1>1, <1>2, <2>4
  <2>5. \/ m \in Genuine
        \/ \E x \in Smallest : m = [x EXCEPT !.key = "other"]
        \/ \E x \in Smallest, h \in ServerHeaders : m = [x EXCEPT !.header = h]
        \/ \E x \in Smallest, s \in {"unframed", "malformed"} : m = [x EXCEPT !.shape = s]
    <3> DEFINE Otherwise == {[x EXCEPT !.key = "other"] : x \in Smallest}
               Exchanged == {[x[1] EXCEPT !.header = x[2]] :
                  x \in {y \in Smallest \X ServerHeaders : <<y[1].header, y[2]>> \in Exchanges}}
               Damaged == {[x EXCEPT !.shape = s] : x \in Smallest, s \in {"unframed", "malformed"}}
    <3>1. Arriving = Genuine \cup Otherwise \cup Exchanged \cup Damaged
      BY DEF Arriving
    <3>2. m \in Otherwise => \E x \in Smallest : m = [x EXCEPT !.key = "other"]
      OBVIOUS
    <3>3. m \in Exchanged =>
            \E x \in Smallest, h \in ServerHeaders : m = [x EXCEPT !.header = h]
      <4>1. m \in Exchanged =>
              \E x \in Smallest \X ServerHeaders : m = [x[1] EXCEPT !.header = x[2]]
        OBVIOUS
      <4> QED
        BY <4>1
    <3>4. m \in Damaged =>
            \E x \in Smallest, s \in {"unframed", "malformed"} : m = [x EXCEPT !.shape = s]
      OBVIOUS
    <3> HIDE DEF Otherwise, Exchanged, Damaged
    <3> QED
      BY <3>1, <3>2, <3>3, <3>4
  <2> QED
    BY <2>1, <2>2, <2>3, <2>4, <2>5
<1>4. m.plain \in Nat
  BY <1>3, CodecAssumption
<1> QED
  BY <1>3, <1>4, ServerHeaderIs DEF Openable

-----------------------------------------------------------------------------
(* One call of cose_decrypt_msg.                                           *)
LEMMA Opening ==
  ASSUME BufferWhole, NEW m, Openable(m), NEW room \in BufferSizes, cose_decrypt_msg(m, room)
  PROVE  BufferWhole' /\ last'.op = "open" /\ OpensExactly' /\ OpenedFields'
<1> DEFINE h == m.header
           Right(key) == WellFormed(m) /\ Intact(m) /\ key = m.key /\ m.plain <= room
<1>1. /\ IsHeader(h) /\ HeaderSize(h) \in Nat /\ m.plain \in Nat /\ room \in Nat
  BY CodecAssumption DEF Openable
<1>2. AadFits(h) <=> HeaderSize(h) <= COSE_PROTECTED_HEADER_MAX_SIZE
  BY <1>1, AadFitsExactly
<1>3. /\ Decoded(m).code = "NONE" <=> Acceptable(h)
      /\ Acceptable(h) => /\ Decoded(m).device = LastValue(h, DEVICE_ID)
                          /\ Decoded(m).opcode = LastValue(h, OPCODE)
                          /\ Decoded(m).nonce = WireNonce(h)
  BY <1>1, DecodesExactly DEF Decoded, Cleared
<1>4. \A bytes : BufferWhole /\ aad_buffer' = Put(aad_buffer, 0, bytes) => BufferWhole'
  BY DEF BufferWhole, Put
<1>5. \A code : Refuse(m, room, code) =>
        last'.op = "open" /\ last'.msg = m /\ last'.code = code
  BY DEF Refuse, Result
<1>6. ASSUME ~WellFormed(m), last'.op = "open", last'.msg = m, last'.code # "NONE"
      PROVE  OpensExactly' /\ OpenedFields'
  BY <1>6 DEF OpensExactly, OpenedFields, WellFormed
<1>7. CASE OpenUnframed(m, room)
  BY <1>5, <1>6, <1>7 DEF OpenUnframed, Framed, WellFormed, BufferWhole
<1>8. CASE OpenTooLarge(m, room)
  <2>1. ~WellFormed(m)
    BY <1>2, <1>8 DEF OpenTooLarge, WellFormed
  <2>2. BufferWhole'
    BY <1>4, <1>8 DEF OpenTooLarge
  <2> QED
    BY <1>5, <1>6, <1>8, <2>1, <2>2 DEF OpenTooLarge
<1>9. CASE OpenMalformed(m, room)
  <2>1. ~WellFormed(m)
    BY <1>9 DEF OpenMalformed, WellFormed
  <2>2. BufferWhole'
    BY <1>4, <1>9 DEF OpenMalformed, WithAad
  <2> QED
    BY <1>5, <1>6, <1>9, <2>1, <2>2 DEF OpenMalformed
<1>10. CASE OpenBadHeader(m, room)
  <2>1. ~WellFormed(m)
    BY <1>3, <1>10 DEF OpenBadHeader, WellFormed
  <2>2. BufferWhole'
    BY <1>4, <1>10 DEF OpenBadHeader, WithAad
  <2>3. Refuse(m, room, Decoded(m).code) /\ Decoded(m).code # "NONE"
    BY <1>10 DEF OpenBadHeader
  <2> QED
    BY <1>5, <1>6, <2>1, <2>2, <2>3
<1>11. CASE Open(m, room)
  <2>1. WellFormed(m)
    BY <1>2, <1>3, <1>11 DEF Open, HasAad, WellFormed
  <2>2. /\ aad_buffer' = Put(aad_buffer, 0, create_aad(h))
        /\ crypto_ctx' = [ad |-> TRUE, adlen |-> Len(create_aad(h)), nonce |-> Decoded(m).nonce]
    BY <1>11 DEF Open, WithAad
  <2>3. BufferWhole'
    BY <1>4, <2>2
  <2>4. SubSeq(aad_buffer', 1, crypto_ctx'.adlen) = create_aad(h)
    <3>1. AadFits(h)
      BY <1>11 DEF Open, HasAad
    <3>2. crypto_ctx'.adlen = Len(create_aad(h))
      BY <2>2
    <3> QED
      BY <1>1, <2>2, <3>1, <3>2, OpeningReadsAad
  <2>5. crypto_ctx'.nonce = WireNonce(h)
    BY <1>3, <2>1, <2>2 DEF WellFormed
  <2>6. PICK key \in KeyRead :
          last' = Result("open", m, room, DecryptCode(m, room, key), Decoded(m).device,
                         Decoded(m).opcode, key,
                         IF room < m.plain THEN {} ELSE Called("decrypt_data"))
    BY <1>11 DEF Open
  <2>7. DecryptCode(m, room, key) = "NONE" <=> Right(key)
    <3>1. room + CRYPTO_TAG_SIZE < m.plain + CRYPTO_TAG_SIZE <=> ~(m.plain <= room)
      BY <1>1 DEF CRYPTO_TAG_SIZE
    <3>2. MinusOne # "NONE"
      BY DEF MinusOne
    <3>3. DecryptCode(m, room, key) = "NONE" <=>
            /\ m.plain <= room /\ m.ad = create_aad(h) /\ m.nonce = WireNonce(h) /\ m.key = key
      BY <2>4, <2>5, <3>1, <3>2 DEF DecryptCode
    <3> QED
      BY <2>1, <3>3 DEF Intact
  <2>8. /\ last'.op = "open" /\ last'.msg = m /\ last'.room = room /\ last'.key = key
        /\ last'.code = DecryptCode(m, room, key)
        /\ last'.device = Decoded(m).device /\ last'.opcode = Decoded(m).opcode
    BY <2>6 DEF Result
  <2>9. OpensExactly'
    BY <2>7, <2>8 DEF OpensExactly, WellFormed, Intact
  <2>10. OpenedFields'
    BY <1>3, <2>1, <2>5, <2>8 DEF OpenedFields, WellFormed
  <2> QED
    BY <2>3, <2>8, <2>9, <2>10
<1> QED
  BY <1>7, <1>8, <1>9, <1>10, <1>11 DEF cose_decrypt_msg

-----------------------------------------------------------------------------
(* One call of cose_encrypt_msg.                                           *)
SealedMessage ==
  \E device \in Devices, opcode \in Opcodes, n \in Nonces, plain \in OperationSizes :
    LET h == encode_protected_header(device, opcode, n)
    IN  /\ last.device = device /\ last.opcode = opcode
        /\ last.msg = Message("sound", h, plain, create_aad(h), WireNonce(h), last.key)
        /\ RequiredTotal(h, plain) <= last.room

Sealed == (last.op = "seal" /\ last.code = "NONE") => SealedMessage

LEMMA OwnHeaderIs ==
  ASSUME NEW device \in Devices, NEW opcode \in Opcodes, NEW n \in Nonces
  PROVE  LET h == encode_protected_header(device, opcode, n)
         IN  /\ IsHeader(h)
             /\ HeaderSize(h) \in Nat
             /\ HeaderSize(h) \in 24..COSE_PROTECTED_HEADER_MAX_SIZE
             /\ Acceptable(h)
             /\ LastValue(h, DEVICE_ID) = device
             /\ LastValue(h, OPCODE) = opcode
             /\ WireNonce(h) = CopyNonce(ZeroNonce, BytesEntry(NONCE, n, 16))
<1>1. UINT32 \in Nat /\ UINT16 \in Nat
  BY Widths
<1>2. /\ device \in Nat /\ device < UINT32 /\ opcode \in Nat /\ opcode < UINT16
  <2>1. device \in 0..UINT32 - 1 /\ opcode \in 0..UINT16 - 1
    BY CodecAssumption
  <2> QED
    BY <1>1, <2>1
<1>3. PICK h : h = encode_protected_header(device, opcode, n)
  OBVIOUS
<1>4. HeaderSize(h) \in 38..44
  BY <1>2, <1>3, OwnHeaderSize
<1>5. HeaderSize(h) \in Nat /\ HeaderSize(h) \in 24..COSE_PROTECTED_HEADER_MAX_SIZE
  BY <1>4 DEF COSE_PROTECTED_HEADER_MAX_SIZE
<1> QED
  BY <1>2, <1>3, <1>5, OwnHeaderSays

LEMMA Sealing ==
  ASSUME BufferWhole, NEW device \in Devices, NEW opcode \in Opcodes,
         cose_encrypt_msg(device, opcode)
  PROVE  BufferWhole' /\ last'.op = "seal" /\ Sealed'
<1>1. ASSUME NEW h, NEW n, Prepare(h, n)
      PROVE  BufferWhole'
  <2>1. aad_buffer' = SealingAad(aad_buffer, h)
    BY <1>1 DEF Prepare
  <2>2. \A b, at, bytes : DOMAIN Put(b, at, bytes) = DOMAIN b
    BY DEF Put
  <2>3. DOMAIN aad_buffer = 1..COSE_AAD_MAX_SIZE
    BY DEF BufferWhole
  <2>4. DOMAIN SealingAad(aad_buffer, h) = 1..COSE_AAD_MAX_SIZE
    BY <2>2, <2>3 DEF SealingAad
  <2>5. \E f : SealingAad(aad_buffer, h) = [i \in 1..COSE_AAD_MAX_SIZE |-> f[i]]
    <3>1. \A b, at, bytes : Put(b, at, bytes) = [i \in DOMAIN b |-> Put(b, at, bytes)[i]]
      BY DEF Put
    <3>2. PICK b, at, bytes : SealingAad(aad_buffer, h) = Put(b, at, bytes)
      BY DEF SealingAad
    <3>3. SealingAad(aad_buffer, h)
            = [i \in 1..COSE_AAD_MAX_SIZE |-> Put(b, at, bytes)[i]]
      BY <2>2, <2>4, <3>1, <3>2
    <3> QED
      BY <3>3
  <2> QED
    BY <2>1, <2>5 DEF BufferWhole
<1>2. CASE RandomFails(device, opcode)
  BY <1>2 DEF RandomFails, Result, BufferWhole, Sealed
<1>3. ASSUME NEW n \in Nonces, NEW plain \in OperationSizes, NEW room \in BufferSizes
      PROVE  /\ SealRefused(device, opcode, n, plain, room)
                  => BufferWhole' /\ last'.op = "seal" /\ last'.code # "NONE"
             /\ SealFails(device, opcode, n, plain, room)
                  => BufferWhole' /\ last'.op = "seal" /\ last'.code # "NONE"
             /\ Seal(device, opcode, n, plain, room)
                  => BufferWhole' /\ last'.op = "seal" /\ SealedMessage'
  <2>1. PICK h : h = encode_protected_header(device, opcode, n)
    OBVIOUS
  <2>2. ASSUME SealRefused(device, opcode, n, plain, room)
        PROVE  BufferWhole' /\ last'.op = "seal" /\ last'.code # "NONE"
    <3>1. PICK refusal \in {"MESSAGE_ENCODING", "BUFFER_TOO_SMALL"} :
            last' = Result("seal", NoMessage, room, refusal, device, opcode, "none", {})
      BY <2>2 DEF SealRefused
    <3>2. last'.op = "seal" /\ last'.code = refusal
      BY <3>1 DEF Result
    <3>3. Prepare(h, n)
      BY <2>1, <2>2 DEF SealRefused
    <3> QED
      BY <1>1, <3>2, <3>3
  <2>3. ASSUME SealFails(device, opcode, n, plain, room)
        PROVE  BufferWhole' /\ last'.op = "seal" /\ last'.code # "NONE"
    <3>1. last'.op = "seal" /\ last'.code = "MESSAGE_ENCODING"
      BY <2>3 DEF SealFails, Result
    <3>2. Prepare(h, n)
      BY <2>1, <2>3 DEF SealFails
    <3> QED
      BY <1>1, <3>1, <3>2
  <2>4. ASSUME Seal(device, opcode, n, plain, room)
        PROVE  BufferWhole' /\ last'.op = "seal" /\ SealedMessage'
    <3>1. Prepare(h, n) /\ RequiredTotal(h, plain) <= room
      BY <2>1, <2>4 DEF Seal
    <3>2. PICK key \in KeyRead :
            last' = Result("seal", Message("sound", h, plain,
                                           SubSeq(aad_buffer', 1, crypto_ctx'.adlen),
                                           crypto_ctx'.nonce, key),
                           room, "NONE", device, opcode, key, Called("encrypt_data"))
      BY <2>1, <2>4 DEF Seal
    <3>3. /\ aad_buffer' = SealingAad(aad_buffer, h)
          /\ crypto_ctx'.adlen = SealingAadSize(h)
          /\ crypto_ctx'.nonce = CopyNonce(ZeroNonce, BytesEntry(NONCE, n, 16))
      BY <3>1 DEF Prepare, Cleared
    <3>4. SubSeq(aad_buffer', 1, crypto_ctx'.adlen) = create_aad(h)
      BY <2>1, <3>3, OwnHeaderIs, SealingReadsAad
    <3>5. crypto_ctx'.nonce = WireNonce(h)
      BY <2>1, <3>3, OwnHeaderIs
    <3>6. /\ last'.op = "seal" /\ last'.device = device /\ last'.opcode = opcode
          /\ last'.room = room /\ last'.key = key
          /\ last'.msg = Message("sound", h, plain, create_aad(h), WireNonce(h), key)
      BY <3>2, <3>4, <3>5 DEF Result
    <3>7. SealedMessage'
      BY <2>1, <3>1, <3>6 DEF SealedMessage
    <3> QED
      BY <1>1, <3>1, <3>6, <3>7
  <2> QED
    BY <2>2, <2>3, <2>4
<1> QED
  BY <1>2, <1>3 DEF cose_encrypt_msg, Sealed

-----------------------------------------------------------------------------
(* What every call keeps.  A message that was sealed is remembered as what *)
(* the sealing was asked for, since it may come back and be opened.        *)
CodecInv == BufferWhole /\ Sealed /\ OpensExactly /\ OpenedFields

LEMMA OwnMessageIsOpenable ==
  ASSUME SealedMessage
  PROVE  Openable(last.msg)
<1>1. PICK h : \E device \in Devices, opcode \in Opcodes, n \in Nonces, plain \in OperationSizes :
        /\ h = encode_protected_header(device, opcode, n)
        /\ last.msg = Message("sound", h, plain, create_aad(h), WireNonce(h), last.key)
  BY DEF SealedMessage
<1>2. last.msg.header = h /\ last.msg.plain \in OperationSizes
  BY <1>1 DEF Message
<1>3. IsHeader(h) /\ HeaderSize(h) \in Nat
  BY <1>1, OwnHeaderIs
<1> QED
  BY <1>2, <1>3, CodecAssumption DEF Openable

LEMMA CodecInvHolds == Spec => []CodecInv
<1>1. Init => CodecInv
  <2>1. SUFFICES ASSUME Init PROVE CodecInv
    OBVIOUS
  <2>2. last.op = "none"
    BY <2>1 DEF Init, Nothing, Result
  <2>3. BufferWhole
    BY <2>1 DEF Init, BufferWhole
  <2> QED
    BY <2>2, <2>3 DEF CodecInv, Sealed, OpensExactly, OpenedFields
<1>2. CodecInv /\ [Next]_vars => CodecInv'
  <2>1. SUFFICES ASSUME CodecInv, [Next]_vars PROVE CodecInv'
    OBVIOUS
  <2>2. ASSUME last'.op = "seal" PROVE OpensExactly' /\ OpenedFields'
    BY <2>2 DEF OpensExactly, OpenedFields
  <2>3. ASSUME last'.op = "open" PROVE Sealed'
    BY <2>3 DEF Sealed
  <2>4. CASE AskToSeal
    <3>1. PICK device \in Devices, opcode \in Opcodes : cose_encrypt_msg(device, opcode)
      BY <2>4 DEF AskToSeal
    <3> QED
      BY <2>1, <2>2, <3>1, Sealing DEF CodecInv
  <2>5. CASE AskToOpen
    <3>1. PICK m \in Arriving, room \in BufferSizes : cose_decrypt_msg(m, room)
      BY <2>5 DEF AskToOpen
    <3> QED
      BY <2>1, <2>3, <3>1, ArrivingIsOpenable, Opening DEF CodecInv
  <2>6. CASE OwnMessageReturns
    <3>1. PICK room \in BufferSizes : cose_decrypt_msg(last.msg, room)
      BY <2>6 DEF OwnMessageReturns
    <3>2. Openable(last.msg)
      BY <2>1, <2>6, OwnMessageIsOpenable DEF CodecInv, OwnMessageReturns, Sealed
    <3>3. PICK m : m = last.msg
      OBVIOUS
    <3>4. Openable(m) /\ cose_decrypt_msg(m, room)
      BY <3>1, <3>2, <3>3
    <3> QED
      BY <2>1, <2>3, <3>4, Opening DEF CodecInv
  <2>7. CASE TakeResult
    <3>1. last'.op = "none" /\ aad_buffer' = aad_buffer
      BY <2>7 DEF TakeResult, Nothing, Result
    <3> QED
      BY <2>1, <3>1 DEF CodecInv, BufferWhole, Sealed, OpensExactly, OpenedFields
  <2>8. CASE UNCHANGED vars
    BY <2>1, <2>8 DEF vars, CodecInv, BufferWhole, Sealed, SealedMessage, OpensExactly,
                      OpenedFields
  <2> QED
    BY <2>1, <2>4, <2>5, <2>6, <2>7, <2>8 DEF Next
<1> QED
  BY <1>1, <1>2, PTL DEF Spec

-----------------------------------------------------------------------------
(* Four bytes are enough for the length of every sealed operation.         *)
SizesFit == \A plain \in OperationSizes : plain + CRYPTO_TAG_SIZE < 256 * 16777216

(* cose_encrypt_msg: whatever was sealed or opened before in the same      *)
(* context, what the cipher is given with a message is the associated data *)
(* and the nonce that the other side computes from its header alone; the   *)
(* header says the device, opcode and nonce it was asked for, and the head *)
(* of the cipher text its length.                                          *)
THEOREM SealsCanonically ==
  ASSUME SizesFit
  PROVE  Spec => []SealedCanonically
<1>1. CodecInv => SealedCanonically
  <2>1. SUFFICES ASSUME CodecInv, last.op = "seal", last.code = "NONE"
                 PROVE  SealedCanonically
    BY DEF SealedCanonically
  <2>2. PICK h : \E device \in Devices, opcode \in Opcodes, n \in Nonces, plain \in OperationSizes :
          /\ h = encode_protected_header(device, opcode, n)
          /\ last.device = device /\ last.opcode = opcode
          /\ last.msg = Message("sound", h, plain, create_aad(h), WireNonce(h), last.key)
          /\ RequiredTotal(h, plain) <= last.room
    BY <2>1 DEF CodecInv, Sealed, SealedMessage
  <2>3. PICK device \in Devices, opcode \in Opcodes, n \in Nonces, plain \in OperationSizes :
          /\ h = encode_protected_header(device, opcode, n)
          /\ last.device = device /\ last.opcode = opcode
          /\ last.msg = Message("sound", h, plain, create_aad(h), WireNonce(h), last.key)
          /\ RequiredTotal(h, plain) <= last.room
    BY <2>2
  <2>4. /\ Acceptable(h)
        /\ LastValue(h, DEVICE_ID) = device /\ LastValue(h, OPCODE) = opcode
    BY <2>3, OwnHeaderIs
  <2>5. HeadLength(cbor_helper_write_bstr_header(plain + CRYPTO_TAG_SIZE))
          = plain + CRYPTO_TAG_SIZE
    <3>1. plain + CRYPTO_TAG_SIZE \in Nat
      BY CodecAssumption DEF CRYPTO_TAG_SIZE
    <3>2. plain + CRYPTO_TAG_SIZE < 256 * 16777216
      BY SMT DEF SizesFit
    <3> QED
      BY <3>1, <3>2, HeadLengthIs, SMT
  <2>6. /\ last.msg.header = h /\ last.msg.plain = plain
        /\ last.msg.ad = create_aad(h) /\ last.msg.nonce = WireNonce(h)
        /\ last.msg.head = cbor_helper_write_bstr_header(plain + CRYPTO_TAG_SIZE)
    BY <2>3 DEF Message
  <2> QED
    BY <2>3, <2>4, <2>5, <2>6 DEF SealedCanonically
<1> QED
  BY <1>1, CodecInvHolds, PTL

(* cose_decrypt_msg: whatever the context did before, a message opens      *)
(* exactly when it is framed soundly, its header is one the protocol       *)
(* allows, it fits, and the cipher sealed it under the same key, nonce and *)
(* header; whichever headers arrive, also one that was exchanged for       *)
(* another on the way.                                                     *)
THEOREM MessagesOpenExactly == Spec => []OpensExactly
<1>1. CodecInv => OpensExactly
  BY DEF CodecInv
<1> QED
  BY <1>1, CodecInvHolds, PTL

(* cose_decrypt_msg: the device id, the opcode and the nonce that are read *)
(* out of a header are the last it says of each, and nothing of an earlier *)
(* message.                                                                *)
THEOREM FieldsAreOfThisMessage == Spec => []OpenedFields
<1>1. CodecInv => OpenedFields
  BY DEF CodecInv
<1> QED
  BY <1>1, CodecInvHolds, PTL
=============================================================================
