----------------------------- MODULE Decryption -----------------------------
(***************************************************************************)
(* What is ciphered in a document, and by which cipher (encryption.rs):    *)
(* the /Encrypt dictionary, its crypt filters, and the objects as they are *)
(* read. StandardSecurity holds the keys and the ciphers.                  *)
(***************************************************************************)
EXTENDS StandardSecurity, TLC

CONSTANT PermissionSpan \* the first permissions that do not fit a signed number of 32 bits

NoCrypt == [c |-> "none"]

\* A string and the data of a stream of object r, in the clear.
Decipher(crypt, cipher, r, seal) ==
    IF cipher = "Identity" THEN seal
    ELSE DecryptWith(crypt.key, cipher, r, seal, Garbage, NoText)
DecipherData(crypt, cipher, r, data) ==
    IF cipher = "Identity" \/ data = << >> THEN data
    ELSE DecryptWith(crypt.key, cipher, r, IF Len(data) = 1 THEN data[1] ELSE Garbage,
                     <<Garbage>>, << >>)

-----------------------------------------------------------------------------
(* The /Encrypt dictionary.                                                *)

\* A value of the dictionary: null itself counts as missing, a reference
\* that leads to null is a value of no type.
Dangling == [t |-> "dangling"]
Value(d, key, R) ==
    IF ~Has(d, key) THEN Null
    ELSE IF d[key].t = "null" THEN Null
    ELSE IF Followed(R, d[key]).t = "null" THEN Dangling ELSE Followed(R, d[key])
AbsentOr(obj, type) == obj.t \in {"null", type}

Method == [None |-> "Identity", V2 |-> "Rc4", AESV2 |-> "Aes128", AESV3 |-> "Aes256"]
\* A crypt filter's length that small counts bytes.
InBits(length) == IF length < 40 THEN 8 * length ELSE length

\* The filters of /CF, or Fail.
CryptFilters(cf, R) ==
    LET EntryOf(name) == Followed(R, cf[name])
        MethodOf(name) == Value(EntryOf(name).d, "CFM", R)
        Wrong(name) ==
            IF EntryOf(name).t # "dict" THEN TRUE
            ELSE \/ Value(EntryOf(name).d, "Length", R).t = "error"
                 \/ /\ Has(EntryOf(name).d, "CFM")
                    /\ MethodOf(name) \notin {Name(m) : m \in DOMAIN Method}
    IN  IF \E name \in DOMAIN cf : Wrong(name) THEN Fail
        ELSE Got([name \in DOMAIN cf |->
                     IF MethodOf(name).t = "null" THEN "Identity" ELSE Method[MethodOf(name).w]], 0)

\* The cipher /StmF or /StrF picks.
Selected(obj, filters) ==
    IF obj.t = "null" THEN Got("Identity", 0)
    ELSE IF obj.t # "name" THEN Fail
    ELSE IF obj.w = "Identity" THEN Got("Identity", 0)
    ELSE IF obj.w \in DOMAIN filters THEN Got(filters[obj.w], 0)
    ELSE Fail

\* The bits the filter in use declares, or what /Length of d says.
DeclaredBits(d, cf, R) ==
    LET FilterLength(key) ==
            LET name == Value(d, key, R)
            IN  IF name.t # "name" THEN Null
                ELSE IF name.w = "Identity" \/ ~Has(cf, name.w) THEN Null
                ELSE Value(Followed(R, cf[name.w]).d, "Length", R)
        stm == FilterLength("StmF")
        str == FilterLength("StrF")
        own == Value(d, "Length", R)
    IN  IF IsInteger(stm) THEN InBits(stm.n)
        ELSE IF IsInteger(str) THEN InBits(str.n)
        ELSE IF IsInteger(own) THEN own.n ELSE 40

\* /P is a signed number of 32 bits, or an unsigned one in some files.
FitsPermissions(n) == n \in -PermissionSpan .. (2 * PermissionSpan) - 1
Permissions(n) == n % (2 * PermissionSpan)

\* What /Encrypt says: the parameters of the handler and the filters of
\* /CF, or Fail.
ParseEncrypt(d, fileId, R) ==
    LET revision == Value(d, "R", R)
        v        == Value(d, "V", R)
        length   == Value(d, "Length", R)
        metadata == Value(d, "EncryptMetadata", R)
        StringOf(key) == IF Value(d, key, R).t = "string" THEN Value(d, key, R).text ELSE NoText
        cf       == IF Value(d, "CF", R).t = "dict" THEN Value(d, "CF", R).d ELSE NoKeys
        filters  == CryptFilters(cf, R)
        streams  == Selected(Value(d, "StmF", R), filters.v)
        strings  == Selected(Value(d, "StrF", R), filters.v)
        newer    == revision.n >= 4 \/ (IsInteger(v) /\ v.n >= 4)
        With(bits, stm, str, named) ==
            Got([params |-> [revision |-> revision.n, bits |-> bits, streams |-> stm,
                             strings |-> str, fileId |-> fileId,
                             metadata |-> IF metadata.t = "bool" THEN metadata.b ELSE TRUE,
                             permissions |-> Permissions(Value(d, "P", R).n),
                             owner |-> StringOf("O"), user |-> StringOf("U"),
                             ownerKey |-> StringOf("OE"), userKey |-> StringOf("UE")],
                 filters |-> named], 0)
    IN  IF \/ ~AbsentOr(Value(d, "Filter", R), "name") \/ ~IsInteger(revision)
           \/ ~AbsentOr(v, "integer") \/ ~AbsentOr(length, "integer")
           \/ Value(d, "O", R).t # "string" \/ Value(d, "U", R).t # "string"
           \/ ~AbsentOr(Value(d, "OE", R), "string") \/ ~AbsentOr(Value(d, "UE", R), "string")
           \/ ~IsInteger(Value(d, "P", R)) \/ ~AbsentOr(metadata, "bool")
        THEN Fail
        ELSE IF Value(d, "Filter", R) \notin {Null, Name("Standard")} THEN Fail
        ELSE IF revision.n \notin 2 .. 6 \/ ~FitsPermissions(Value(d, "P", R).n) THEN Fail
        ELSE IF ~newer
             THEN IF revision.n = 2 THEN With(40, "Rc4", "Rc4", NoKeys)
                  ELSE IF length.t # "integer" THEN With(40, "Rc4", "Rc4", NoKeys)
                  ELSE IF KeyBits(length.n) THEN With(length.n, "Rc4", "Rc4", NoKeys)
                  ELSE Fail
        ELSE IF ~AbsentOr(Value(d, "CF", R), "dict") \/ ~filters.ok THEN Fail
        ELSE IF ~streams.ok \/ ~strings.ok THEN Fail
        ELSE IF UsesAes256(revision.n)
             THEN IF length \in {Null, Integer(256)}
                  THEN With(256, streams.v, strings.v, filters.v) ELSE Fail
        ELSE IF "Aes128" \in {streams.v, strings.v}
             THEN With(128, streams.v, strings.v, filters.v)
        ELSE IF KeyBits(DeclaredBits(d, cf, R))
             THEN With(DeclaredBits(d, cf, R), streams.v, strings.v, filters.v)
        ELSE Fail

\* The first string of /ID, part of the key up to revision 4.
FileId(trailer, R) ==
    LET id    == Value(trailer, "ID", R)
        first == Followed(R, id.items[1])
    IN  IF id.t = "error" THEN Fail
        ELSE IF id.t # "array" THEN Got(NoText, 0)
        ELSE IF id.items = << >> THEN Got(NoText, 0)
        ELSE IF first.t = "error" THEN Fail
        ELSE Got(IF first.t = "string" THEN first.text ELSE NoText, 0)

\* The handler of an open document, or Fail: R gives objects as they are
\* stored, or [t |-> "error"].
OpenCrypt(trailer, password, R) ==
    LET entry == trailer["Encrypt"]
        Opened(params, filters, key) ==
            IF ~key.ok THEN Fail
            ELSE Got([c |-> "standard", streams |-> params.streams,
                      strings |-> params.strings, metadata |-> params.metadata,
                      filters |-> filters, key |-> key.v, by |-> key.p,
                      ref |-> IF IsRef(entry) THEN entry ELSE Null], 0)
        Said(parsed) ==
            IF ~parsed.ok THEN Fail
            ELSE Opened(parsed.v.params, parsed.v.filters,
                        OpenDecryptor(parsed.v.params, password))
        Of(dict, id) ==
            IF dict.t = "null" THEN Got(NoCrypt, 0)
            ELSE IF dict.t # "dict" \/ ~id.ok THEN Fail
            ELSE Said(ParseEncrypt(dict.d, id.v, R))
    IN  IF Has(trailer, "Encrypt") THEN Of(Followed(R, entry), FileId(trailer, R))
        ELSE Got(NoCrypt, 0)

-----------------------------------------------------------------------------
(* Objects.                                                                *)

\* The crypt filter a stream names, and its dictionary without that stage;
\* Fail when it names none, or says so in another object.
NamedCryptFilter(d) ==
    LET filter == d["Filter"]
        parms  == IF Has(d, "DecodeParms") THEN d["DecodeParms"] ELSE Null
        NameIn(p) == IF p.t # "dict" THEN "Identity"
                     ELSE IF ~Has(p.d, "Name") THEN "Identity"
                     ELSE IF p.d["Name"].t = "name" THEN p.d["Name"].w ELSE "Identity"
        bare   == Without(d, {"Filter", "DecodeParms"})
        stages == {i \in DOMAIN filter.items : filter.items[i] = Name("Crypt")}
        at     == Least(stages)
        Cut(s) == SubSeq(s, 1, at - 1) \o SubSeq(s, at + 1, Len(s))
        left   == IF parms.t = "array" THEN Cut(parms.items)
                  ELSE IF parms.t = "null" THEN << >> ELSE <<parms>>
        useful == \E i \in DOMAIN left : left[i].t # "null"
        rest   == Put(bare, "Filter", Array(Cut(filter.items)))
    IN  IF ~Has(d, "Filter") THEN Fail
        ELSE IF filter = Name("Crypt") THEN [ok |-> TRUE, name |-> NameIn(parms), d |-> bare]
        ELSE IF filter.t # "array" THEN Fail
        ELSE IF stages = {} THEN Fail
        ELSE [ok |-> TRUE,
              name |-> IF parms.t = "array"
                       THEN IF at <= Len(parms.items) THEN NameIn(parms.items[at])
                            ELSE "Identity"
                       ELSE IF Len(filter.items) = 1 THEN NameIn(parms) ELSE "Identity",
              d |-> IF Len(filter.items) = 1 THEN bare
                    ELSE IF ~useful THEN rest
                    ELSE Put(rest, "DecodeParms",
                             IF Len(left) = 1 THEN left[1] ELSE Array(left))]

NamedCipher(crypt, name) ==
    IF name = "Identity" THEN "Identity"
    ELSE IF Has(crypt.filters, name) THEN crypt.filters[name] ELSE crypt.streams

RECURSIVE DecryptDirect(_, _, _)
DecryptDirect(crypt, r, obj) ==
    CASE obj.t = "string" -> String(Decipher(crypt, crypt.strings, r, obj.text))
      [] obj.t = "array"  ->
            Array([i \in DOMAIN obj.items |-> DecryptDirect(crypt, r, obj.items[i])])
      [] obj.t = "dict"   ->
            Dict([key \in DOMAIN obj.d |-> DecryptDirect(crypt, r, obj.d[key])])
      [] OTHER -> obj

\* Cross-reference streams are in the clear, and the metadata may be.
DecryptStream(crypt, r, obj) ==
    LET With(cipher, d) == Stream(DecryptDirect(crypt, r, Dict(d)).d,
                                  DecipherData(crypt, cipher, r, obj.data))
        Of(named) == IF named.ok THEN With(NamedCipher(crypt, named.name), named.d)
                     ELSE With(crypt.streams, obj.d)
    IN  IF TypeIs(obj, "XRef") THEN obj
        ELSE IF TypeIs(obj, "Metadata") /\ ~crypt.metadata THEN With("Identity", obj.d)
        ELSE Of(NamedCryptFilter(obj.d))

\* The object r, stored at top level: every string and its data, but for
\* the /Encrypt dictionary itself.
DecryptObject(crypt, r, obj) ==
    IF crypt = NoCrypt THEN obj
    ELSE IF r = crypt.ref THEN obj
    ELSE IF IsStream(obj) THEN DecryptStream(crypt, r, obj)
    ELSE DecryptDirect(crypt, r, obj)
=============================================================================
