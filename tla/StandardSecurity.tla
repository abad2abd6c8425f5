-------------------------- MODULE StandardSecurity --------------------------
(***************************************************************************)
(* The standard security handler (fyp-crypto): from the values of an       *)
(* /Encrypt dictionary and a password to a file key, and from the file key *)
(* to the key of one object.                                               *)
(*                                                                         *)
(* The primitives are symbols: a digest is the tuple of what it digests,   *)
(* RC4 adds its key to those a text is under, or takes it away, as the     *)
(* exclusive or does, and AES opens what was closed with the same key. A   *)
(* key is a pair of its length in bytes and what it comes from.            *)
(***************************************************************************)
EXTENDS PdfSyntax

Bytes(term, rest) == [k |-> "bytes", term |-> term, rest |-> rest]
NoRest == "zeros"
\* A text in the clear, or under RC4 keys.
Clear(x) == <<"clear", x, {}>>
Under4(text, keys) == [text EXCEPT ![3] = (@ \cup keys) \ (@ \cap keys)]
\* What a string of the dictionary holds, for the algorithms.
TermOf(text) == IF text.k = "bytes" THEN text.term ELSE <<"other">>

\* A key length in bits that revisions 3 and 4 take.
KeyBits(bits) == bits \in 40 .. 128 /\ bits % 8 = 0
UsesAes256(revision) == revision \in {5, 6}

\* Sizes and coherence of the parameters.
AllowedCipher(params, cipher) ==
    CASE cipher = "Identity" -> TRUE
      [] cipher = "Rc4"    -> ~UsesAes256(params.revision)
      [] cipher = "Aes128" -> params.revision = 4 /\ params.bits = 128
      [] cipher = "Aes256" -> UsesAes256(params.revision)
Coherent(params) ==
    /\ params.revision = 2 => params.bits = 40
    /\ params.revision \in {3, 4} => KeyBits(params.bits)
    /\ UsesAes256(params.revision) => params.bits = 256
    /\ params.owner # NoText /\ params.user # NoText
    /\ UsesAes256(params.revision) => params.ownerKey # NoText /\ params.userKey # NoText
    /\ AllowedCipher(params, params.streams) /\ AllowedCipher(params, params.strings)

-----------------------------------------------------------------------------
(* Revisions 2 to 4.                                                       *)

LegacyKeyLen(params) == IF params.revision = 2 THEN 5 ELSE params.bits \div 8
\* Fifty more digests from revision 3 on.
Rounds(params) == IF params.revision = 2 THEN 0 ELSE 50
Digest(n, of) == <<n, <<"digest", of>>>>

\* Algorithm 2: /EncryptMetadata counts from revision 4 on.
ComputeLegacyKey(params, padded) ==
    Digest(LegacyKeyLen(params),
           <<"file", padded, params.owner, params.permissions, params.fileId,
             params.revision >= 4 /\ ~params.metadata, Rounds(params)>>)

\* One pass of RC4, or twenty with keys that differ by an exclusive or.
Passes(params, key) == {<<key, i>> : i \in IF params.revision = 2 THEN {0} ELSE 0 .. 19}

\* Algorithms 4 and 5.
ComputeUserValue(params, key) ==
    Under4(IF params.revision = 2 THEN Clear("padding")
           ELSE <<"check", params.fileId, {}>>, Passes(params, key))

\* Algorithm 6: only the first half of /U counts from revision 3 on.
OpensAsUser(params, padded) ==
    LET user == ComputeUserValue(params, ComputeLegacyKey(params, padded))
    IN  /\ TermOf(params.user) = user
        /\ params.revision = 2 => params.user.rest = NoRest

\* Algorithms 3 and 7.
OwnerRc4Key(params, password) ==
    Digest(LegacyKeyLen(params), <<"owner", Clear(password), Rounds(params)>>)
UserPasswordFromOwner(params, password) ==
    LET owner == TermOf(params.owner)
    IN  IF Len(owner) = 3 THEN Under4(owner, Passes(params, OwnerRc4Key(params, password)))
        ELSE owner

\* The key, and whether the owner's password gave it, or Fail.
LegacyFileKey(params, password) ==
    LET owned == UserPasswordFromOwner(params, password)
    IN  IF OpensAsUser(params, Clear(password))
        THEN Got(ComputeLegacyKey(params, Clear(password)), "user")
        ELSE IF OpensAsUser(params, owned) THEN Got(ComputeLegacyKey(params, owned), "owner")
        ELSE Fail

\* /O and /U for a pair of passwords: no owner's password means the user's.
LegacyOwnerUser(params, owner, user) ==
    LET chosen == IF owner = "" THEN user ELSE owner
        o == Bytes(Under4(Clear(user), Passes(params, OwnerRc4Key(params, chosen))), NoRest)
        whole == [params EXCEPT !.owner = o]
        key == ComputeLegacyKey(whole, Clear(user))
    IN  [owner |-> o, user |-> Bytes(ComputeUserValue(whole, key), NoRest)]

-----------------------------------------------------------------------------
(* Revisions 5 and 6.                                                      *)

Hash2b(revision, password, salt, udata) == <<"hash", revision, password, salt, udata>>
NoUdata == << >>
Wrap(intermediate, key) == <<"wrapped", intermediate, key>>
Unwrap(intermediate, wrapped) ==
    IF Len(wrapped) < 3 THEN <<32, <<"garbled", intermediate>>>>
    ELSE IF wrapped[2] = intermediate THEN wrapped[3]
    ELSE <<32, <<"garbled", intermediate>>>>

\* /U and /O: the hash, the salt that checks it, the salt of the key.
Salted(hash, check, key) == <<"salted", hash, check, key>>
Answers(params, value, password, udata) ==
    IF Len(value) # 4 THEN FALSE
    ELSE Hash2b(params.revision, password, value[3], udata) = value[2]

\* Algorithms 11 and 12: the owner's hash depends on /U too.
Aes256FileKey(params, password) ==
    LET user  == TermOf(params.user)
        owner == TermOf(params.owner)
        Inner(value, udata) == Hash2b(params.revision, password, value[4], udata)
    IN  IF Answers(params, user, password, NoUdata)
        THEN Got(Unwrap(Inner(user, NoUdata), TermOf(params.userKey)), "user")
        ELSE IF Answers(params, owner, password, user)
        THEN Got(Unwrap(Inner(owner, user), TermOf(params.ownerKey)), "owner")
        ELSE Fail

\* Algorithms 8 and 9, with four salts.
Aes256Entries(revision, key, user, owner, salts) ==
    LET u == Salted(Hash2b(revision, user, salts[1], NoUdata), salts[1], salts[2])
        o == Salted(Hash2b(revision, owner, salts[3], u), salts[3], salts[4])
    IN  [user     |-> Bytes(u, NoRest),
         userKey  |-> Bytes(Wrap(Hash2b(revision, user, salts[2], NoUdata), key), NoRest),
         owner    |-> Bytes(o, NoRest),
         ownerKey |-> Bytes(Wrap(Hash2b(revision, owner, salts[4], u), key), NoRest)]

-----------------------------------------------------------------------------
(* The handler.                                                            *)

\* Decryptor::open: the file key, or Fail.
OpenDecryptor(params, password) ==
    IF ~Coherent(params) THEN Fail
    ELSE IF UsesAes256(params.revision) THEN Aes256FileKey(params, password)
    ELSE LegacyFileKey(params, password)

\* Algorithm 1: RC4 and AES-128 key each object apart.
ObjectKey(key, r, aes) ==
    Digest(IF key[1] + 5 < 16 THEN key[1] + 5 ELSE 16, <<"object", key, r.num, r.gen, aes>>)

\* The lock a cipher puts on object r; AES takes keys of 16 or 32 bytes.
NoLock == << >>
AesLock(key) == IF key[1] \in {16, 32} THEN <<"aes", key>> ELSE NoLock
Lock(key, cipher, r) ==
    CASE cipher = "Rc4"    -> <<"rc4", ObjectKey(key, r, FALSE)>>
      [] cipher = "Aes128" -> AesLock(ObjectKey(key, r, TRUE))
      [] cipher = "Aes256" -> AesLock(key)

\* A ciphered string, or ciphered data: one lexeme that holds what it
\* closes. It opens to garbage with another key.
Sealed(lock, x) == [k |-> "sealed", lock |-> lock, x |-> x]
Garbage == [k |-> "garbage"]
EncryptWith(key, cipher, r, x) == Sealed(Lock(key, cipher, r), x)
\* `unread' is what garbage is for this kind of data, `nothing' no data.
DecryptWith(key, cipher, r, seal, unread, nothing) ==
    IF Lock(key, cipher, r) = NoLock THEN nothing
    ELSE IF seal.k # "sealed" THEN unread
    ELSE IF seal.lock = Lock(key, cipher, r) THEN seal.x ELSE unread
=============================================================================
