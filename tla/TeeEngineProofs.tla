--------------------------- MODULE TeeEngineProofs ---------------------------
(***************************************************************************)
(* The encryption engine's round trip, for every alphabet, salt length,    *)
(* block size and number of re-encryptions.                                *)
(***************************************************************************)
EXTENDS TeeEngine, WellFoundedInduction, TLAPS

Text == Seq(Char)

\* Concatenation, character by character.
LEMMA ConcatFacts ==
  ASSUME NEW a \in Text, NEW b \in Text
  PROVE  /\ a \o b \in Text /\ Len(a \o b) = Len(a) + Len(b)
         /\ \A i \in 1..Len(a) : (a \o b)[i] = a[i]
         /\ \A i \in 1..Len(b) : (a \o b)[Len(a) + i] = b[i]
<1>1. a \o b \in Text /\ Len(a \o b) = Len(a) + Len(b)
  BY DEF Text
<1>2. ASSUME NEW i \in 1..Len(a) PROVE (a \o b)[i] = a[i]
  BY DEF Text
<1>3. ASSUME NEW i \in 1..Len(b) PROVE (a \o b)[Len(a) + i] = b[i]
  <2>1. Len(a) \in Nat /\ Len(b) \in Nat
    BY DEF Text
  <2>2. Len(a) + i \in 1..(Len(a) + Len(b)) /\ ~(Len(a) + i <= Len(a))
    BY <2>1
  <2>3. Len(a) + i - Len(a) = i
    BY <2>1
  <2> QED
    BY <2>2, <2>3 DEF Text
<1> QED
  BY <1>1, <1>2, <1>3

\* A salt is a string of digits: it holds neither '#' nor NUL.
LEMMA SaltFacts ==
  ASSUME NEW salt \in Salts
  PROVE  /\ salt \in Text /\ Len(salt) = SALT
         /\ \A i \in 1..SALT : salt[i] # Hash /\ salt[i] # Nul
BY TeeEngineAssumption DEF Salts, Text

\* What a salted string is made of.
LEMMA SaltedFacts ==
  ASSUME NEW v \in Text, NEW salt \in Salts
  PROVE  /\ Salted(v, salt) \in Text
         /\ Len(Salted(v, salt)) = Len(v) + 1 + SALT
         /\ \A i \in 1..Len(v) : Salted(v, salt)[i] = v[i]
         /\ Salted(v, salt)[Len(v) + 1] = Hash
         /\ \A i \in 1..SALT : /\ Salted(v, salt)[Len(v) + 1 + i] # Hash
                               /\ Salted(v, salt)[Len(v) + 1 + i] # Nul
<1>1. /\ salt \in Text /\ Len(salt) = SALT /\ SALT \in Nat /\ Hash \in Char
      /\ \A i \in 1..SALT : salt[i] # Hash /\ salt[i] # Nul
  BY SaltFacts, TeeEngineAssumption
<1>2. <<Hash>> \in Text /\ Len(<<Hash>>) = 1 /\ <<Hash>>[1] = Hash
  BY <1>1 DEF Text
<1> DEFINE h == v \o <<Hash>>
<1>3. /\ h \in Text /\ Len(h) = Len(v) + 1
      /\ \A i \in 1..Len(v) : h[i] = v[i]
      /\ h[Len(v) + 1] = Hash
  BY <1>2 DEF Text
<1>4. Salted(v, salt) = h \o salt
  BY DEF Salted
<1> HIDE DEF h
<1>5. /\ Salted(v, salt) \in Text /\ Len(Salted(v, salt)) = Len(h) + SALT
      /\ \A i \in 1..Len(h) : Salted(v, salt)[i] = h[i]
      /\ \A i \in 1..SALT : Salted(v, salt)[Len(h) + i] = salt[i]
  <2>1. /\ h \o salt \in Text /\ Len(h \o salt) = Len(h) + Len(salt)
        /\ \A i \in 1..Len(h) : (h \o salt)[i] = h[i]
        /\ \A i \in 1..Len(salt) : (h \o salt)[Len(h) + i] = salt[i]
    <3>1. h \in Text /\ salt \in Text
      BY <1>1, <1>3
    <3> QED
      BY ONLY <3>1, ConcatFacts
  <2>2. Len(salt) = SALT
    BY <1>1
  <2> QED
    BY ONLY <2>1, <2>2, <1>4
<1>6. Len(v) \in Nat
  BY DEF Text
<1>7. /\ \A i \in 1..Len(v) : Salted(v, salt)[i] = v[i]
      /\ Salted(v, salt)[Len(v) + 1] = Hash
  BY <1>3, <1>5, <1>6
<1>8. \A i \in 1..SALT : /\ Salted(v, salt)[Len(v) + 1 + i] # Hash
                          /\ Salted(v, salt)[Len(v) + 1 + i] # Nul
  <2> SUFFICES ASSUME NEW i \in 1..SALT
               PROVE  /\ Salted(v, salt)[Len(v) + 1 + i] # Hash
                      /\ Salted(v, salt)[Len(v) + 1 + i] # Nul
    OBVIOUS
  <2>1. Len(v) + 1 + i = Len(h) + i
    BY <1>3
  <2>2. Salted(v, salt)[Len(h) + i] = salt[i]
    BY <1>5
  <2> QED
    BY <1>1, <2>1, <2>2
<1> QED
  BY <1>3, <1>5, <1>7, <1>8

\* A prefix, as a function.
LEMMA BeforeFacts ==
  ASSUME NEW s \in Text, NEW i \in 1..Len(s)
  PROVE  /\ Before(s, i) \in Text /\ Len(Before(s, i)) = i - 1
         /\ \A j \in 1..(i - 1) : Before(s, i)[j] = s[j]
BY DEF Before, Text

\* Strings of the same length and the same characters are the same.
LEMMA SameText ==
  ASSUME NEW s \in Text, NEW r \in Text, Len(s) = Len(r),
         \A i \in 1..Len(s) : s[i] = r[i]
  PROVE  s = r
BY DEF Text

\* A set of natural numbers that is not empty has a smallest element.
LEMMA Smallest ==
  ASSUME NEW T \in SUBSET Nat, T # {}
  PROVE  \E m \in T : \A k \in T : m <= k
<1> DEFINE R == OpToRel(<, Nat)
<1>1. IsWellFoundedOn(R, Nat)
  BY NatLessThanWellFounded
<1>2. \A y, m \in Nat : <<y, m>> \in R <=> y < m
  BY DEF OpToRel
<1> HIDE DEF R
<1>3. PICK m \in T : \A y \in T : ~(<<y, m>> \in R)
  BY <1>1, WFMin
<1>4. ASSUME NEW k \in T PROVE m <= k
  <2>1. ~(k < m)
    BY <1>2, <1>3
  <2> QED
    BY <2>1
<1> QED
  BY <1>4

\* Of the NULs of a string there is a first one.
LEMMA FirstNul ==
  ASSUME NEW s \in Text, HasNul(s)
  PROVE  \E i \in DOMAIN s : s[i] = Nul /\ \A j \in 1..(i - 1) : s[j] # Nul
<1> DEFINE T == { i \in 1..Len(s) : s[i] = Nul }
<1>0. DOMAIN s = 1..Len(s) /\ Len(s) \in Nat
  BY DEF Text
<1>1. T \in SUBSET Nat /\ T # {}
  BY <1>0 DEF HasNul
<1>2. PICK m \in T : \A k \in T : m <= k
  <2> HIDE DEF T
  <2> QED
    BY <1>1, Smallest
<1> QED
  BY <1>0, <1>2

\* Of its '#'s there is a last one.
LEMMA LastHash ==
  ASSUME NEW s \in Text, \E i \in DOMAIN s : s[i] = Hash
  PROVE  \E i \in DOMAIN s : s[i] = Hash /\ \A j \in (i + 1)..Len(s) : s[j] # Hash
<1> DEFINE T == { n \in 0..(Len(s) - 1) : s[Len(s) - n] = Hash }
<1>0. DOMAIN s = 1..Len(s) /\ Len(s) \in Nat
  BY DEF Text
<1>1. T \in SUBSET Nat /\ T # {}
  <2>1. PICK i \in 1..Len(s) : s[i] = Hash
    BY <1>0
  <2>2. Len(s) - i \in 0..(Len(s) - 1) /\ Len(s) - (Len(s) - i) = i
    BY <1>0
  <2>3. Len(s) - i \in T
    BY <2>1, <2>2
  <2>4. T \in SUBSET Nat
    BY <1>0
  <2> QED
    BY <2>3, <2>4
<1>2. PICK m \in T : \A k \in T : m <= k
  <2> HIDE DEF T
  <2> QED
    BY <1>1, Smallest
<1>3. Len(s) - m \in DOMAIN s /\ s[Len(s) - m] = Hash
  BY <1>0, <1>2
<1>4. ASSUME NEW j \in (Len(s) - m + 1)..Len(s), s[j] = Hash PROVE FALSE
  <2>1. m \in 0..(Len(s) - 1)
    BY <1>2
  <2>2. Len(s) - j \in 0..(Len(s) - 1) /\ Len(s) - (Len(s) - j) = j /\ Len(s) - j < m
    BY <1>0, <2>1
  <2>3. Len(s) - j \in T
    BY <1>4, <2>2
  <2>4. m <= Len(s) - j
    BY <1>2, <2>3
  <2> QED
    BY <1>0, <2>1, <2>2, <2>4
<1> QED
  BY <1>3, <1>4

\* Cutting at the first NUL yields a prefix without one.
LEMMA CutFacts ==
  ASSUME NEW s \in Text
  PROVE  /\ CutAtNul(s) \in Text /\ Len(CutAtNul(s)) <= Len(s)
         /\ \A i \in 1..Len(CutAtNul(s)) : CutAtNul(s)[i] = s[i] /\ s[i] # Nul
         /\ ~HasNul(s) => CutAtNul(s) = s
         /\ \A i \in 1..Len(s) : s[i] = Nul => Len(CutAtNul(s)) < i
<1>0. DOMAIN s = 1..Len(s) /\ Len(s) \in Nat
  BY DEF Text
<1>1. CASE ~HasNul(s)
  BY <1>0, <1>1 DEF CutAtNul, HasNul
<1>2. CASE HasNul(s)
  <2> DEFINE n == CHOOSE i \in DOMAIN s : s[i] = Nul /\ \A j \in 1..(i - 1) : s[j] # Nul
  <2>1. n \in DOMAIN s /\ s[n] = Nul /\ \A j \in 1..(n - 1) : s[j] # Nul
    BY <1>2, FirstNul
  <2>2. CutAtNul(s) = Before(s, n)
    BY <1>2 DEF CutAtNul, HasNul
  <2> HIDE DEF n
  <2>3. n \in 1..Len(s)
    BY <1>0, <2>1
  <2>4. /\ Before(s, n) \in Text /\ Len(Before(s, n)) = n - 1
        /\ \A j \in 1..(n - 1) : Before(s, n)[j] = s[j]
    BY <2>3, BeforeFacts
  <2> QED
    BY <1>0, <1>2, <2>1, <2>2, <2>3, <2>4
<1> QED
  BY <1>1, <1>2

\* extractKey returns a prefix, and the one before h if h is the last '#'.
LEMMA ExtractFacts ==
  ASSUME NEW s \in Text
  PROVE  /\ ExtractKey(s) \in Text /\ Len(ExtractKey(s)) <= Len(s)
         /\ \A i \in 1..Len(ExtractKey(s)) : ExtractKey(s)[i] = s[i]
         /\ \A h \in 1..Len(s) :
              s[h] = Hash /\ (\A j \in (h + 1)..Len(s) : s[j] # Hash) =>
                ExtractKey(s) = Before(s, h)
         /\ \A h \in 1..Len(s) : (\A j \in h..Len(s) : s[j] # Hash) =>
              Len(ExtractKey(s)) < h \/ ExtractKey(s) = s
<1>0. DOMAIN s = 1..Len(s) /\ Len(s) \in Nat
  BY DEF Text
<1>1. CASE ~\E i \in DOMAIN s : s[i] = Hash
  BY <1>0, <1>1 DEF ExtractKey
<1>2. CASE \E i \in DOMAIN s : s[i] = Hash
  <2> DEFINE n == CHOOSE i \in DOMAIN s : s[i] = Hash /\ \A j \in (i + 1)..Len(s) : s[j] # Hash
  <2>1. n \in DOMAIN s /\ s[n] = Hash /\ \A j \in (n + 1)..Len(s) : s[j] # Hash
    BY <1>2, LastHash
  <2>2. ExtractKey(s) = Before(s, n)
    BY <1>2 DEF ExtractKey
  <2> HIDE DEF n
  <2>3. n \in 1..Len(s)
    BY <1>0, <2>1
  <2>4. /\ Before(s, n) \in Text /\ Len(Before(s, n)) = n - 1
        /\ \A j \in 1..(n - 1) : Before(s, n)[j] = s[j]
    BY <2>3, BeforeFacts
  <2>5. ASSUME NEW h \in 1..Len(s), s[h] = Hash, \A j \in (h + 1)..Len(s) : s[j] # Hash
        PROVE  h = n
    BY <1>0, <2>1, <2>3, <2>5
  <2>6. ASSUME NEW h \in 1..Len(s), \A j \in h..Len(s) : s[j] # Hash
        PROVE  n - 1 < h
    BY <1>0, <2>1, <2>3, <2>6
  <2> QED
    BY <1>0, <2>2, <2>3, <2>4, <2>5, <2>6
<1> QED
  BY <1>1, <1>2

(***************************************************************************)
(* The round trip                                                          *)
(***************************************************************************)
Dec(v, salt) == DecryptNonDeterministic(Salted(v, salt))

\* Decryption strips the salt and nothing else from a value without a NUL.
THEOREM RoundTrip ==
  ASSUME NEW v \in Text, NEW salt \in Salts, ~HasNul(v)
  PROVE  Dec(v, salt) = v
<1> DEFINE s == Salted(v, salt)
<1>1. /\ s \in Text /\ Len(s) = Len(v) + 1 + SALT
      /\ \A i \in 1..Len(v) : s[i] = v[i]
      /\ s[Len(v) + 1] = Hash
      /\ \A i \in 1..SALT : s[Len(v) + 1 + i] # Hash /\ s[Len(v) + 1 + i] # Nul
  BY SaltedFacts
<1>2. /\ Len(v) \in Nat /\ SALT \in Nat /\ Hash # Nul
      /\ DOMAIN v = 1..Len(v) /\ DOMAIN s = 1..Len(s)
  BY <1>1, TeeEngineAssumption DEF Text
<1> HIDE DEF s
<1>3. \A j \in (Len(v) + 2)..Len(s) : s[j] # Hash /\ s[j] # Nul
  <2> SUFFICES ASSUME NEW j \in (Len(v) + 2)..Len(s) PROVE s[j] # Hash /\ s[j] # Nul
    OBVIOUS
  <2>1. j - Len(v) - 1 \in 1..SALT /\ Len(v) + 1 + (j - Len(v) - 1) = j
    BY <1>1, <1>2
  <2> QED
    BY <1>1, <2>1
<1>4. ~HasNul(s)
  <2> SUFFICES ASSUME NEW j \in 1..Len(s) PROVE s[j] # Nul
    BY <1>2 DEF HasNul
  <2>1. j \in 1..Len(v) \/ j = Len(v) + 1 \/ j \in (Len(v) + 2)..Len(s)
    BY <1>1, <1>2
  <2> QED
    BY <1>1, <1>2, <1>3, <2>1 DEF HasNul
<1>5. CutAtNul(s) = s
  BY <1>1, <1>4, CutFacts
<1>6. Len(v) + 1 \in 1..Len(s)
  BY <1>1, <1>2
<1>7. ExtractKey(s) = Before(s, Len(v) + 1)
  <2>1. \A j \in ((Len(v) + 1) + 1)..Len(s) : s[j] # Hash
    BY <1>2, <1>3
  <2> QED
    BY <1>1, <1>6, <2>1, ExtractFacts
<1>8. Before(s, Len(v) + 1) = v
  <2>1. /\ Before(s, Len(v) + 1) \in Text
        /\ Len(Before(s, Len(v) + 1)) = (Len(v) + 1) - 1
        /\ \A j \in 1..((Len(v) + 1) - 1) : Before(s, Len(v) + 1)[j] = s[j]
    BY <1>1, <1>6, BeforeFacts
  <2>2. (Len(v) + 1) - 1 = Len(v)
    BY <1>2
  <2> QED
    BY <1>1, <2>1, <2>2, SameText
<1> QED
  BY <1>5, <1>7, <1>8 DEF Dec, DecryptNonDeterministic, s

\* Whatever the value, decryption yields one without a NUL and no longer.
THEOREM DecryptShortens ==
  ASSUME NEW v \in Text, NEW salt \in Salts
  PROVE  /\ Dec(v, salt) \in Text /\ ~HasNul(Dec(v, salt))
         /\ Len(Dec(v, salt)) <= Len(v)
<1>1. CASE ~HasNul(v)
  <2>1. Dec(v, salt) = v
    BY <1>1, RoundTrip
  <2>2. Len(v) <= Len(v)
    BY DEF Text
  <2> QED
    BY <1>1, <2>1, <2>2
<1>2. CASE HasNul(v)
  <2> DEFINE s == Salted(v, salt)
             c == CutAtNul(s)
             e == ExtractKey(c)
  <2>1. PICK n \in 1..Len(v) : v[n] = Nul
    BY <1>2 DEF HasNul, Text
  <2>2. /\ s \in Text /\ Len(s) = Len(v) + 1 + SALT
        /\ \A i \in 1..Len(v) : s[i] = v[i]
    BY SaltedFacts
  <2>3. SALT \in Nat /\ Len(v) \in Nat
    BY TeeEngineAssumption DEF Text
  <2>4. Dec(v, salt) = e
    BY DEF Dec, DecryptNonDeterministic
  <2> HIDE DEF s
  <2>5. n \in 1..Len(s) /\ s[n] = Nul
    BY <2>1, <2>2, <2>3
  <2>6. /\ c \in Text /\ Len(c) < n
        /\ \A i \in 1..Len(c) : c[i] # Nul
    BY <2>2, <2>5, CutFacts
  <2> HIDE DEF c
  <2>7. /\ e \in Text /\ Len(e) <= Len(c)
        /\ \A i \in 1..Len(e) : e[i] = c[i]
    BY <2>6, ExtractFacts
  <2> HIDE DEF e
  <2>8. Len(e) \in Nat /\ Len(c) \in Nat /\ DOMAIN e = 1..Len(e)
    BY <2>6, <2>7 DEF Text
  <2>9. ~HasNul(e)
    BY <2>6, <2>7, <2>8 DEF HasNul
  <2>10. Len(e) <= Len(v)
    BY <2>1, <2>3, <2>6, <2>7, <2>8
  <2> QED
    BY <2>4, <2>7, <2>9, <2>10
<1> QED
  BY <1>1, <1>2

\* Longer plaintexts have no shorter ciphertexts.
LEMMA CipherLenMonotone ==
  ASSUME NEW m \in Nat, NEW n \in Nat, m <= n
  PROVE  CipherLen(m) <= CipherLen(n)
<1> DEFINE q == m \div BLOCK
           r == n \div BLOCK
<1>1. /\ BLOCK \in Nat /\ BLOCK > 0 /\ q \in Nat /\ r \in Nat
      /\ BLOCK * q <= m /\ n < BLOCK * r + BLOCK
  BY TeeEngineAssumption
<1>2. CipherLen(m) = BLOCK * (q + 1) /\ CipherLen(n) = BLOCK * (r + 1)
  BY DEF CipherLen
<1> HIDE DEF q, r
<1>3. q <= r
  <2> SUFFICES ASSUME r < q PROVE FALSE
    BY <1>1
  <2>1. PICK d \in Nat : q = r + 1 + d
    <3>1. q - r - 1 \in Nat /\ q = r + 1 + (q - r - 1)
      BY <1>1
    <3> QED
      BY <3>1
  <2>2. BLOCK * q = BLOCK * r + BLOCK + BLOCK * d /\ BLOCK * d \in Nat
    BY <1>1, <2>1
  <2>3. BLOCK * r \in Nat
    BY <1>1
  <2> QED
    BY <1>1, <2>2, <2>3
<1>4. PICK d \in Nat : r = q + d
  <2>1. r - q \in Nat /\ r = q + (r - q)
    BY <1>1, <1>3
  <2> QED
    BY <2>1
<1>5. /\ BLOCK * (r + 1) = BLOCK * (q + 1) + BLOCK * d
      /\ BLOCK * d \in Nat /\ BLOCK * (q + 1) \in Nat
  BY <1>1, <1>4
<1> QED
  BY <1>2, <1>5

(***************************************************************************)
(* Any number of re-encryptions                                            *)
(***************************************************************************)
\* What is stored is some salted text, and the value put if that has no NUL.
EngineInv ==
  /\ value \in Text
  /\ \E v \in Text, salt \in Salts :
       stored = Salted(v, salt) /\ (~HasNul(value) => v = value)
  /\ out_len = CipherLen(Len(stored))

\* The client's ciphertext satisfies the invariant.
LEMMA EngineInit == Init => EngineInv
<1> SUFFICES ASSUME Init PROVE EngineInv
  OBVIOUS
<1>1. value \in Text
  BY DEF Init, Strings, Text
<1> QED
  BY <1>1 DEF Init, EngineInv

\* What a re-encryption does to what is stored.
LEMMA ReencryptFacts ==
  ASSUME EngineInv, Reencrypt
  PROVE  /\ EngineInv'
         /\ DecryptNonDeterministic(stored') = DecryptNonDeterministic(stored)
         /\ out_len' <= out_len
<1>1. PICK v \in Text, salt \in Salts :
        stored = Salted(v, salt) /\ (~HasNul(value) => v = value)
  BY DEF EngineInv
<1>2. PICK salt2 \in Salts : stored' = Salted(DecryptNonDeterministic(stored), salt2)
  BY DEF Reencrypt
<1> DEFINE w == Dec(v, salt)
<1>3. w \in Text /\ ~HasNul(w) /\ Len(w) <= Len(v)
  BY DecryptShortens
<1>4. DecryptNonDeterministic(stored) = w
  BY <1>1 DEF Dec
<1>5. ~HasNul(value) => w = value
  BY <1>1, RoundTrip
<1> HIDE DEF w
<1>6. stored' = Salted(w, salt2)
  BY <1>2, <1>4
<1>7. DecryptNonDeterministic(stored') = w
  BY <1>3, <1>6, RoundTrip DEF Dec
<1>8. value' = value /\ out_len' = CipherLen(Len(stored'))
  BY DEF Reencrypt
<1>9. EngineInv'
  BY <1>3, <1>5, <1>6, <1>8 DEF EngineInv
<1>10. out_len' <= out_len
  <2>1. Len(stored) = Len(v) + 1 + SALT /\ Len(stored') = Len(w) + 1 + SALT
    BY <1>1, <1>3, <1>6, SaltedFacts
  <2>2. Len(v) \in Nat /\ Len(w) \in Nat /\ SALT \in Nat
    BY <1>3, TeeEngineAssumption DEF Text
  <2>3. Len(stored) \in Nat /\ Len(stored') \in Nat /\ Len(stored') <= Len(stored)
    BY <1>3, <2>1, <2>2
  <2>4. CipherLen(Len(stored')) <= CipherLen(Len(stored))
    BY <2>3, CipherLenMonotone
  <2> QED
    BY <1>8, <2>4 DEF EngineInv
<1> QED
  BY <1>4, <1>7, <1>9, <1>10

\* The invariant is kept.
LEMMA EngineStep == EngineInv /\ [Next]_vars => EngineInv'
<1> SUFFICES ASSUME EngineInv, [Next]_vars PROVE EngineInv'
  OBVIOUS
<1>1. CASE Reencrypt
  BY <1>1, ReencryptFacts
<1>2. CASE UNCHANGED vars
  BY <1>2 DEF vars, EngineInv
<1> QED
  BY <1>1, <1>2 DEF Next, Done

\* A value without a NUL survives any number of GETs.
THEOREM ValueSurvivesHolds == Spec => []ValueSurvives
<1>1. EngineInv => ValueSurvives
  BY RoundTrip DEF EngineInv, ValueSurvives, Dec
<1> QED
  BY <1>1, EngineInit, EngineStep, PTL DEF Spec

\* The length of its ciphertext is that of the value, the '#' and the salt.
THEOREM LengthKeptHolds == Spec => []LengthKept
<1>1. EngineInv => LengthKept
  BY SaltedFacts DEF EngineInv, LengthKept
<1> QED
  BY <1>1, EngineInit, EngineStep, PTL DEF Spec

\* A GET's result fits the buffer sized by the ciphertext it read.
THEOREM NeverGrowsHolds == Spec => NeverGrows
<1>1. EngineInv /\ [Next]_vars => [out_len' <= out_len]_vars
  BY ReencryptFacts DEF Next, Done
<1> QED
  BY <1>1, EngineInit, EngineStep, PTL DEF Spec, NeverGrows

\* All GETs of a value, with NULs or without, find the same.
THEOREM StableReadsHolds == Spec => StableReads
<1>1. EngineInv /\ [Next]_vars =>
        [DecryptNonDeterministic(stored') = DecryptNonDeterministic(stored)]_vars
  BY ReencryptFacts DEF Next, Done
<1> QED
  BY <1>1, EngineInit, EngineStep, PTL DEF Spec, StableReads
=============================================================================
