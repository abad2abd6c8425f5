---------------------------- MODULE StreamFilters ----------------------------
(***************************************************************************)
(* The filter chain of a stream (filters.rs): which filters apply, in      *)
(* which order, which parameters each is given, and the bound on what      *)
(* comes out. A coding is one lexeme that holds what it codes; FilterCodes *)
(* models the decoders themselves, byte by byte.                           *)
(***************************************************************************)
EXTENDS PdfSyntax

CONSTANT MaxOutput      \* DecodeLimits::max_output, in lexemes

Hexed(file)     == [k |-> "hexed", x |-> file]       \* an ASCIIHexDecode coding
Predicted(file) == [k |-> "predicted", x |-> file]   \* rows with a predictor
NoParms == NoKeys
TakesPredictor(name) == name \in {"FlateDecode", "LZWDecode"}

\* No reference is followed, as xref.rs and recover.rs ask.
AsStored == [r \in References |-> r]

\* The filters a dictionary names, in the order they are applied, or Fail.
Filters(d, R) ==
    LET value == IF Has(d, "Filter") THEN Followed(R, d["Filter"]) ELSE Null
    IN  CASE value.t = "null"  -> Got(<< >>, 0)
          [] value.t = "name"  -> Got(<<value.w>>, 0)
          [] value.t = "array" ->
               IF \E i \in DOMAIN value.items : Followed(R, value.items[i]).t # "name" THEN Fail
               ELSE Got([i \in DOMAIN value.items |-> Followed(R, value.items[i]).w], 0)
          [] OTHER -> Fail

\* The parameters as they are written: one item per filter, or one
\* dictionary. Anything else means none, but what cannot be read fails.
WrittenParms(d, R) ==
    LET key   == IF Has(d, "DecodeParms") THEN "DecodeParms" ELSE "DP"
        value == IF Has(d, key) THEN Followed(R, d[key]) ELSE Null
        DictOf(item) == IF Followed(R, item).t = "dict" THEN Followed(R, item).d ELSE NoParms
    IN  CASE value.t = "dict"  -> Got(<<value.d>>, 0)
          [] value.t = "error" -> Fail
          [] value.t = "array" ->
               IF \E i \in DOMAIN value.items : Followed(R, value.items[i]).t = "error" THEN Fail
               ELSE Got([i \in DOMAIN value.items |-> DictOf(value.items[i])], 0)
          [] OTHER -> Got(<< >>, 0)

\* The parameters of each filter. One alone beside several filters belongs
\* to the first that takes a predictor.
Parms(names, written) ==
    LET takers == {i \in DOMAIN names : TakesPredictor(names[i])}
    IN  IF Len(written) = 1 /\ Len(names) > 1 /\ takers # {}
        THEN [i \in DOMAIN names |-> IF i = Least(takers) THEN written[1] ELSE NoParms]
        ELSE [i \in DOMAIN names |-> IF i <= Len(written) THEN written[i] ELSE NoParms]

\* One coding undone: bytes that are no such coding fail.
Undo(data, kind) ==
    IF Len(data) = 1 /\ data[1].k = kind THEN Got(data[1].x, 0) ELSE Fail

Unpredict(r, parms) ==
    IF ~r.ok \/ ~HasSize(parms, "Predictor") THEN r
    ELSE IF parms["Predictor"].n = 1 THEN r
    ELSE IF parms["Predictor"].n \in {2} \cup 10 .. 15 THEN Undo(r.v, "predicted")
    ELSE Fail

\* LZW and the image filters are not implemented, other names unknown.
ApplyFilter(name, parms, data) ==
    CASE name = "FlateDecode" ->
           IF data = << >> THEN Got(data, 0) ELSE Unpredict(Undo(data, "packed"), parms)
      [] name = "ASCIIHexDecode" -> Undo(data, "hexed")
      [] name = "Crypt" -> Got(data, 0)
      [] OTHER -> Fail

RECURSIVE Decode(_, _, _, _)
Decode(names, parms, data, i) ==
    LET stage == ApplyFilter(names[i], parms[i], data)
    IN  IF i > Len(names) THEN Got(data, 0)
        ELSE IF ~stage.ok THEN Fail
        ELSE IF Len(stage.v) > MaxOutput THEN Fail
        ELSE Decode(names, parms, stage.v, i + 1)

\* Without /Filter the parameters are not looked at.
NamesFilters(d, R) == IF Has(d, "Filter") THEN Followed(R, d["Filter"]) # Null ELSE FALSE
DecodeStream(d, data, R) ==
    LET names == Filters(d, R)
        parms == WrittenParms(d, R)
    IN  IF ~NamesFilters(d, R) THEN Got(data, 0)
        ELSE IF ~names.ok \/ ~parms.ok THEN Fail
        ELSE Decode(names.v, Parms(names.v, parms.v), data, 1)
=============================================================================
