------------------------------ MODULE TeeEngine ------------------------------
(***************************************************************************)
(* ORTOA-TEE's encryption engine, as far as the host, the enclave and the  *)
(* client depend on it: the salt it appends and strips again, the NUL at   *)
(* which it cuts, and the lengths.  AES-CBC is symbolic: a ciphertext is   *)
(* the plaintext inside it.                                                *)
(*                                                                         *)
(* The state follows one value: the client encrypts it, and each GET makes *)
(* the enclave decrypt what is stored and encrypt it again with new salt.  *)
(***************************************************************************)
EXTENDS Integers, Sequences

CONSTANTS
  Char,          \* the characters of a value
  Hash, Nul,     \* '#' and '\0'
  Digit,         \* "0123456789", what salts are made of
  SALT,          \* rng_max_len
  BLOCK,         \* the block size of AES in bytes
  MAX_LEN,       \* bound: length of a value
  MAX_GETS       \* bound: re-encryptions

ASSUME TeeEngineAssumption ==
  /\ Hash \in Char /\ Nul \in Char /\ Hash # Nul
  /\ Digit \subseteq Char /\ Hash \notin Digit /\ Nul \notin Digit
  /\ SALT \in Nat /\ BLOCK \in Nat \ {0} /\ MAX_LEN \in Nat /\ MAX_GETS \in Nat

Strings(n) == UNION { [1..m -> Char] : m \in 0..n }

Salts == [1..SALT -> Digit]

Before(s, i) == SubSeq(s, 1, i - 1)

(***************************************************************************)
(* The engine                                                              *)
(***************************************************************************)
\* The plaintext encryptNonDeterministic encrypts.
Salted(value, salt) == value \o <<Hash>> \o salt

\* AES-CBC with padding: a last block that is full is followed by one more.
CipherLen(n) == BLOCK * (n \div BLOCK + 1)

\* decrypt: std::find up to the first '\0'.
CutAtNul(s) ==
  IF \E i \in DOMAIN s : s[i] = Nul
  THEN Before(s, CHOOSE i \in DOMAIN s : s[i] = Nul /\ \A j \in 1..(i - 1) : s[j] # Nul)
  ELSE s

\* Mutants: the search starts at the front; the '#' itself is kept.
ExtractKeyFirst(s) ==
  IF \E i \in DOMAIN s : s[i] = Hash
  THEN Before(s, CHOOSE i \in DOMAIN s : s[i] = Hash /\ \A j \in 1..(i - 1) : s[j] # Hash)
  ELSE s

ExtractKeyIncludes(s) ==
  IF \E i \in DOMAIN s : s[i] = Hash
  THEN SubSeq(s, 1, CHOOSE i \in DOMAIN s :
                      s[i] = Hash /\ \A j \in (i + 1)..Len(s) : s[j] # Hash)
  ELSE s

\* extractKey: everything before the last '#', or all of it.
ExtractKey(s) ==
  IF \E i \in DOMAIN s : s[i] = Hash
  THEN Before(s, CHOOSE i \in DOMAIN s :
                   s[i] = Hash /\ \A j \in (i + 1)..Len(s) : s[j] # Hash)
  ELSE s

DecryptNonDeterministic(cipher) == ExtractKey(CutAtNul(cipher))

(***************************************************************************)
(* One value through the system                                            *)
(***************************************************************************)
VARIABLES
  value,    \* what the client put
  stored,   \* the ciphertext in Redis
  out_len,  \* its length
  gets      \* re-encryptions so far

vars == <<value, stored, out_len, gets>>

\* clientEncrypt of a value, stored by initDB.
Init ==
  /\ value \in Strings(MAX_LEN)
  /\ \E salt \in Salts : stored = Salted(value, salt)
  /\ out_len = CipherLen(Len(stored))
  /\ gets = 0

\* access_data on a GET.
Reencrypt ==
  /\ gets < MAX_GETS
  /\ \E salt \in Salts : stored' = Salted(DecryptNonDeterministic(stored), salt)
  /\ out_len' = CipherLen(Len(stored'))
  /\ gets' = gets + 1
  /\ UNCHANGED value

Done == gets = MAX_GETS /\ UNCHANGED vars

Next == Reencrypt \/ Done

Spec == Init /\ [][Next]_vars

(***************************************************************************)
(* Properties                                                              *)
(***************************************************************************)
HasNul(s) == \E i \in DOMAIN s : s[i] = Nul

\* A value without a NUL survives any number of re-encryptions, whatever '#' and
\* digits it holds: the salt is stripped and nothing else.
ValueSurvives == ~HasNul(value) => DecryptNonDeterministic(stored) = value

\* A GET never needs a longer output buffer than the ciphertext it read, even for
\* a value that a NUL cut short.
NeverGrows == [][out_len' <= out_len]_vars

\* A GET of a value without a NUL needs exactly the same: lengths are a function of
\* the value, as TeeHost has it.
LengthKept == ~HasNul(value) => out_len = CipherLen(Len(value) + 1 + SALT)

\* Every GET finds the value the one before it found: a NUL cuts a value when it
\* is put, and no re-encryption cuts it further.
StableReads ==
  [][DecryptNonDeterministic(stored') = DecryptNonDeterministic(stored)]_vars
=============================================================================
