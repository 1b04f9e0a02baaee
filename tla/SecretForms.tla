----------------------------- MODULE SecretForms -----------------------------
(***************************************************************************)
(* guarded_writer.rs, Secret::forms: the forms in which the bytes of a     *)
(* secret are recognised.  A value is a sequence of tokens: a character is *)
(* <<c>>, an encoded one is a longer tuple, so that every encoding is told *)
(* from the text it stands for.  The characters are those that the         *)
(* encodings treat apart: the letters stand for what every flavour leaves  *)
(* plain, "e" for a character that is not ASCII.                           *)
(***************************************************************************)
EXTENDS Naturals, Sequences

Each(Code(_), value) == [i \in DOMAIN value |-> Code(value[i])]

\* percent_encode: what each flavour leaves plain besides letters and digits.
PlainIn(flavor, c) ==
  \/ c \in {"a", "b", "c", "d"}
  \/ c = "-" /\ flavor # "full"
  \/ c = "~" /\ flavor \in {"component", "strict"}
  \/ c = "!" /\ flavor = "component"

PercentEncode(value, flavor, hex) ==
  Each(LAMBDA t : IF PlainIn(flavor, t[1]) THEN t
                  ELSE IF flavor = "form" /\ t[1] = " " THEN <<"+">>
                  ELSE <<"%", t[1], hex>>, value)

UrlEncodedForms(value) ==
  {PercentEncode(value, flavor, hex) :
     flavor \in {"form", "component", "strict", "full"}, hex \in {"lower", "upper"}}

\* base64_encode, three characters to a token: only a value that is encoded
\* from its first character on gives these tokens.
Base64Encode(value, alphabet, padding) ==
  LET Chunk(i) == SubSeq(value, 3*i - 2, IF 3*i < Len(value) THEN 3*i ELSE Len(value))
  IN  [i \in 1..((Len(value) + 2) \div 3) |->
         <<"base64", Chunk(i), alphabet, padding /\ 3*i > Len(value)>>]

Base64Forms(value) ==
  {Base64Encode(value, alphabet, padding) :
     alphabet \in {"standard", "url safe"}, padding \in BOOLEAN}

\* json_unicode_escaped.
JsonEscaped(value, hex) ==
  Each(LAMBDA t : IF t[1] \in {"\"", "\\"} THEN <<"\\", t[1]>>
                  ELSE IF t[1] = "e" THEN <<"\\u", t[1], hex>>
                  ELSE t, value)

JsonForms(value) ==
  LET quoted == Each(LAMBDA t : IF t[1] \in {"\"", "\\"} THEN <<"\\", t[1]>> ELSE t,
                     value)
      escaped == JsonEscaped(value, "lower")
      slashed == Each(LAMBDA t : IF t = <<"/">> THEN <<"\\", "/">> ELSE t, escaped)
  IN  {quoted, escaped, slashed, JsonEscaped(value, "upper")}

Forms(value) ==
  {value} \cup UrlEncodedForms(value) \cup Base64Forms(value) \cup JsonForms(value)

=============================================================================
