------------------------------ MODULE ValuesProofs ------------------------------
(***************************************************************************)
(* Proofs about what a client computes around a request.                   *)
(***************************************************************************)
EXTENDS MCValues, FiniteSetTheorems, SequenceTheorems, WellFoundedInduction, TLAPS

-----------------------------------------------------------------------------
(* Induction over the numbers, without an operator for what is shown: the   *)
(* intervals 1 .. n are finite sets, and those are well-founded under       *)
(* strict inclusion.                                                        *)

\* Every set of numbers that is not empty has a least one.
LEMMA LeastNumber ==
    ASSUME NEW T, T \subseteq Nat, T # {}
    PROVE  \E n \in T : \A m \in T : n <= m
<1> DEFINE R == StrictSubsetOrdering(Nat)
           Finite == FiniteSubsetsOf(Nat)
           X == {1 .. n : n \in T}
<1>1. X \subseteq Finite
  <2>1. ASSUME NEW n \in Nat PROVE 1 .. n \in Finite
    BY FS_Interval, 1 \in Int, n \in Int DEF FiniteSubsetsOf
  <2>2. QED
    BY <2>1
<1>2. X # {}
  OBVIOUS
<1>3. IsWellFoundedOn(R, Finite)
  BY FS_StrictSubsetOrderingWellFounded
<1> HIDE DEF R, Finite, X
<1>4. PICK x \in X : \A y \in X : ~(<<y, x>> \in R)
  BY <1>1, <1>2, <1>3, WFMin
<1>5. PICK n \in T : x = 1 .. n
  BY DEF X
<1>6. ASSUME NEW m \in T, m < n PROVE FALSE
  <2>1. 1 .. m \in X
    BY DEF X
  <2>2. 1 .. m \subseteq 1 .. n /\ n \in 1 .. n /\ n \notin 1 .. m
    BY <1>6
  <2>3. 1 .. m \in SUBSET Nat /\ 1 .. n \in SUBSET Nat
    OBVIOUS
  <2>4. <<1 .. m, 1 .. n>> \in R
    BY <2>2, <2>3 DEF R, StrictSubsetOrdering
  <2>5. QED
    BY <1>4, <1>5, <2>1, <2>4
<1>7. QED
  BY <1>6

\* A set that has 0 and, with a number, the next one, has all of them.
LEMMA AllNumbers ==
    ASSUME NEW S, 0 \in S, \A n \in Nat : n \in S => n + 1 \in S
    PROVE  Nat \subseteq S
<1>1. SUFFICES ASSUME Nat \ S # {} PROVE FALSE
  OBVIOUS
<1>2. PICK n \in Nat \ S : \A m \in Nat \ S : n <= m
  BY <1>1, LeastNumber
<1>3. n # 0 /\ n - 1 \in Nat /\ n - 1 < n
  BY <1>2
<1>4. n - 1 \in S
  BY <1>2, <1>3
<1>5. (n - 1) + 1 = n
  BY <1>3
<1>6. QED
  BY <1>2, <1>3, <1>4, <1>5

-----------------------------------------------------------------------------
(* The sums behind the length of a multipart body.                          *)

\* A recursive function is only what its definition says if there is such a
\* function: there is one on each prefix, by induction.
LEMMA SumsExist ==
    ASSUME NEW numbers \in Seq(Nat)
    PROVE  \E g \in [0 .. Len(numbers) -> Nat] :
              \A i \in 0 .. Len(numbers) : g[i] = IF i = 0 THEN 0 ELSE g[i - 1] + numbers[i]
<1> DEFINE N == Len(numbers)
           Good(g, n) == \A i \in 0 .. n : g[i] = IF i = 0 THEN 0 ELSE g[i - 1] + numbers[i]
           Exists(n) == \E g \in [0 .. n -> Nat] : Good(g, n)
           S == {n \in Nat : n <= N => Exists(n)}
<1>n. N \in Nat /\ \A i \in 1 .. N : numbers[i] \in Nat
  OBVIOUS
<1>1. 0 \in S
  <2>1. [i \in 0 .. 0 |-> 0] \in [0 .. 0 -> Nat] /\ Good([i \in 0 .. 0 |-> 0], 0)
    OBVIOUS
  <2>2. Exists(0)
    BY <2>1, Zenon
  <2> HIDE DEF Exists
  <2>3. QED
    BY <2>2
<1>2. ASSUME NEW n \in Nat, n \in S PROVE n + 1 \in S
  <2>1. CASE n + 1 <= N
    <3>0. Exists(n)
      <4> HIDE DEF Exists
      <4>1. QED
        BY <1>2, <2>1, <1>n
    <3>1. PICK g \in [0 .. n -> Nat] : Good(g, n)
      BY <3>0
    <3> DEFINE h == [i \in 0 .. n + 1 |-> IF i = n + 1 THEN g[n] + numbers[n + 1] ELSE g[i]]
    <3>2. g[n] \in Nat /\ numbers[n + 1] \in Nat
      BY <1>n, <2>1
    <3>3. h \in [0 .. n + 1 -> Nat]
      BY <3>2
    <3>4. ASSUME NEW i \in 0 .. n + 1 PROVE h[i] = IF i = 0 THEN 0 ELSE h[i - 1] + numbers[i]
      <4>1. CASE i = n + 1
        <5>1. h[i] = g[n] + numbers[n + 1] /\ h[i - 1] = g[n]
          BY <4>1
        <5>2. QED
          BY <4>1, <5>1
      <4>2. CASE i # n + 1
        <5>1. i \in 0 .. n /\ h[i] = g[i] /\ (i # 0 => h[i - 1] = g[i - 1])
          BY <4>2
        <5>2. QED
          BY <3>1, <5>1
      <4>3. QED
        BY <4>1, <4>2
    <3> HIDE DEF h
    <3>5. Good(h, n + 1)
      BY <3>4
    <3>6. Exists(n + 1)
      BY <3>3, <3>5, Zenon
    <3> HIDE DEF Exists
    <3>7. QED
      BY <3>6
  <2>2. CASE ~(n + 1 <= N)
    <3> HIDE DEF Exists
    <3>1. QED
      BY <2>2
  <2>3. QED
    BY <2>1, <2>2
<1>3. Nat \subseteq S
  <2> HIDE DEF S
  <2>1. QED
    BY <1>1, <1>2, AllNumbers
<1>4. Exists(N)
  <2> HIDE DEF Exists
  <2>1. QED
    BY <1>n, <1>3
<1>5. QED
  BY <1>4

\* The sums of a sequence of numbers, step by step.
LEMMA SumsStep ==
    ASSUME NEW numbers \in Seq(Nat)
    PROVE  /\ Encoding!PartialSums(numbers) \in [0 .. Len(numbers) -> Nat]
           /\ Encoding!PartialSums(numbers)[0] = 0
           /\ \A i \in 1 .. Len(numbers) :
                 Encoding!PartialSums(numbers)[i] = Encoding!PartialSums(numbers)[i - 1] + numbers[i]
<1> DEFINE D == 0 .. Len(numbers)
           Eq(g) == g = [i \in D |-> IF i = 0 THEN 0 ELSE g[i - 1] + numbers[i]]
<1>1. PICK g \in [D -> Nat] : \A i \in D : g[i] = IF i = 0 THEN 0 ELSE g[i - 1] + numbers[i]
  BY SumsExist
<1>2. Eq(g)
  BY <1>1
<1> DEFINE p == CHOOSE h : Eq(h)
<1>3. Encoding!PartialSums(numbers) = p
  BY DEF Encoding!PartialSums
<1>4. Eq(p)
  <2> HIDE DEF Eq
  <2>1. QED
    BY <1>2
<1> HIDE DEF p
<1>n. Len(numbers) \in Nat /\ 0 \in D /\ \A i \in 1 .. Len(numbers) : i \in D /\ i # 0
  OBVIOUS
<1>5. p[0] = 0
  BY <1>4, <1>n
<1>6. \A i \in 1 .. Len(numbers) : p[i] = p[i - 1] + numbers[i]
  BY <1>4, <1>n
<1>7. DOMAIN p = D /\ p = [i \in D |-> p[i]]
  BY <1>4
<1> DEFINE T == {n \in Nat : n <= Len(numbers) => p[n] \in Nat}
<1>8. ASSUME NEW n \in Nat, n \in T PROVE n + 1 \in T
  <2>1. ASSUME n + 1 <= Len(numbers) PROVE p[n + 1] \in Nat
    <3>1. n <= Len(numbers) /\ n + 1 \in 1 .. Len(numbers) /\ (n + 1) - 1 = n
      BY <1>n, <2>1
    <3>2. p[n] \in Nat /\ numbers[n + 1] \in Nat
      BY <1>8, <3>1
    <3>3. QED
      BY <1>6, <3>1, <3>2
  <2>2. QED
    BY <2>1
<1>9. \A n \in D : p[n] \in Nat
  <2>1. 0 \in T
    BY <1>5
  <2> HIDE DEF T
  <2>2. Nat \subseteq T
    BY <1>8, <2>1, AllNumbers
  <2> USE DEF T
  <2>3. QED
    BY <1>n, <2>2
<1>10. QED
  BY <1>3, <1>5, <1>6, <1>7, <1>9

-----------------------------------------------------------------------------
(* The framing of bodies.                                                   *)

\* What a body is, field by field.
LEMMA BodyShape ==
    ASSUME NEW value \in Bodies
    PROVE  /\ value.kind \in {"none", "iterator", "bytes", "file", "multipart"}
           /\ value.kind = "bytes" => value.length \in Nat
           /\ value.kind = "file" => value.file \in Files
           /\ value.kind = "multipart" =>
                 /\ value.fields \in Seq(Encoding!FormField)
                 /\ Len(value.fields) \in Nat /\ DOMAIN value.fields = 1 .. Len(value.fields)
                 /\ \A i \in DOMAIN value.fields :
                       /\ value.fields[i].kind \in {"bytes", "file"}
                       /\ value.fields[i].kind = "bytes" => value.fields[i].length \in Nat
                       /\ value.fields[i].kind = "file" => value.fields[i].file \in Files
<1>1. Encoding!IsBody(value)
  BY ValuesAssumption DEF Encoding!RequestEncodingAssumption
<1>2. CASE value \in [kind : {"none", "iterator"}] \union [kind : {"bytes"}, length : Nat, typed : BOOLEAN]
  BY <1>2
<1>3. CASE value \in [kind : {"file"}, file : Files]
  BY <1>3
<1>4. CASE value \in [kind : {"multipart"}, fields : Seq(Encoding!FormField)]
  <2>1. value.kind = "multipart" /\ value.fields \in Seq(Encoding!FormField)
    BY <1>4
  <2>2. \A i \in DOMAIN value.fields : value.fields[i] \in Encoding!FormField
    BY <2>1
  <2>3. \A i \in DOMAIN value.fields :
           /\ value.fields[i].kind \in {"bytes", "file"}
           /\ value.fields[i].kind = "bytes" => value.fields[i].length \in Nat
           /\ value.fields[i].kind = "file" => value.fields[i].file \in Files
    BY <2>2 DEF Encoding!FormField
  <2>4. Len(value.fields) \in Nat /\ DOMAIN value.fields = 1 .. Len(value.fields)
    BY <2>1
  <2>5. QED
    BY <2>1, <2>3, <2>4
<1>5. QED
  BY <1>1, <1>2, <1>3, <1>4 DEF Encoding!IsBody

\* The lengths of a multipart body's fields, each the size of its file if all
\* of the files can be rewound.
LEMMA FieldLengths ==
    ASSUME Encoding!EncodingTypeOK, body.kind = "multipart"
    PROVE  /\ Encoding!RenderedLengths(body.fields) \in Seq(Nat)
           /\ Len(Encoding!RenderedLengths(body.fields)) = Len(body.fields)
           /\ \A i \in DOMAIN body.fields :
                 Encoding!RenderedLengths(body.fields)[i] =
                     Encoding!Overhead + Encoding!FieldLength(body.fields[i]).length
           /\ \A i \in DOMAIN body.fields : Encoding!FieldLength(body.fields[i]).length \in Nat
           /\ Encoding!Rewindable =>
                 \A i \in DOMAIN body.fields :
                    Encoding!FieldLength(body.fields[i]) =
                        Encoding!Known(IF body.fields[i].kind = "bytes" THEN body.fields[i].length
                                       ELSE Size[body.fields[i].file])
<1>1. ASSUME NEW i \in DOMAIN body.fields
      PROVE  /\ Encoding!FieldLength(body.fields[i]).length \in Nat
             /\ Encoding!Rewindable =>
                   Encoding!FieldLength(body.fields[i]) =
                       Encoding!Known(IF body.fields[i].kind = "bytes" THEN body.fields[i].length
                                      ELSE Size[body.fields[i].file])
  <2> DEFINE field == body.fields[i]
  <2>1. /\ field.kind \in {"bytes", "file"}
        /\ field.kind = "bytes" => field.length \in Nat
        /\ field.kind = "file" => field.file \in Files
    BY BodyShape DEF Encoding!EncodingTypeOK
  <2>2. Encoding!Rewindable => (field.kind = "file" => Encoding!Seekable(field.file))
    BY DEF Encoding!Rewindable
  <2> HIDE DEF field
  <2>3. CASE field.kind = "bytes"
    <3>1. Encoding!FieldLength(field) = Encoding!Known(field.length)
      BY <2>3 DEF Encoding!FieldLength
    <3>2. QED
      BY <2>1, <2>3, <3>1 DEF Encoding!Known, field
  <2>4. CASE field.kind = "file"
    <3>1. Encoding!FieldLength(field) = Encoding!PeekLength(field.file)
      BY <2>4 DEF Encoding!FieldLength
    <3>2. field.file \in Files /\ kind[field.file] \in Encoding!Kinds /\ Size[field.file] \in Nat
      BY <2>1, <2>4, ValuesAssumption DEF Encoding!EncodingTypeOK, Encoding!RequestEncodingAssumption
    <3>3. Encoding!PeekLength(field.file).length \in Nat
      BY <3>2 DEF Encoding!PeekLength, Encoding!Kinds, Encoding!Known, Encoding!Unknown
    <3>4. Encoding!Seekable(field.file) => Encoding!PeekLength(field.file) = Encoding!Known(Size[field.file])
      BY DEF Encoding!Seekable, Encoding!PeekLength
    <3>5. QED
      BY <2>2, <2>4, <3>1, <3>3, <3>4 DEF field
  <2>5. QED
    BY <2>1, <2>3, <2>4
<1>2. Encoding!Overhead \in Nat
  BY ValuesAssumption DEF Encoding!Overhead, Encoding!RequestEncodingAssumption
<1>3. Len(body.fields) \in Nat /\ DOMAIN body.fields = 1 .. Len(body.fields)
  BY BodyShape DEF Encoding!EncodingTypeOK
<1> DEFINE l(i) == Encoding!FieldLength(body.fields[i]).length
<1>4. \A i \in 1 .. Len(body.fields) : l(i) \in Nat
  BY <1>1, <1>3
<1>5. Encoding!RenderedLengths(body.fields) = [i \in 1 .. Len(body.fields) |-> Encoding!Overhead + l(i)]
  BY <1>3 DEF Encoding!RenderedLengths
<1>6. Encoding!RenderedLengths(body.fields) \in Seq(Nat)
         /\ Len(Encoding!RenderedLengths(body.fields)) = Len(body.fields)
  <2> HIDE DEF l
  <2>1. QED
    BY <1>2, <1>3, <1>4, <1>5
<1>7. QED
  BY <1>1, <1>3, <1>5, <1>6

\* The framing invariant holds at the start.
LEMMA FramingStart == Encoding!Init => Encoding!EncodingInv
<1> SUFFICES ASSUME Encoding!Init PROVE Encoding!EncodingInv
  OBVIOUS
<1>1. Size \in [Files -> Nat]
  BY ValuesAssumption DEF Encoding!RequestEncodingAssumption
<1>2. /\ kind \in [Files -> Encoding!Kinds] /\ body \in Bodies
      /\ given \in [contentLength : {Encoding!Unknown, Encoding!Known(1)}, chunked : BOOLEAN]
      /\ sending = [field |-> 0, file |-> 0] /\ sent = 0 /\ count = 0 /\ fromStart = TRUE
  BY DEF Encoding!Init
<1>3. PICK start \in {0, 1} : position = [f \in Files |-> IF Size[f] < start THEN 0 ELSE start]
  BY DEF Encoding!Init
<1>4. position \in [Files -> Nat] /\ \A file \in Files : position[file] <= Size[file]
  BY <1>1, <1>3
<1>5. Encoding!EncodingTypeOK
  BY <1>2, <1>4 DEF Encoding!EncodingTypeOK
<1>6. Encoding!HeadersOfBody
  BY DEF Encoding!Init, Encoding!HeadersOfBody
<1>7. Encoding!RenderedSoFar
  BY <1>2 DEF Encoding!RenderedSoFar
<1>8. Encoding!RenderedInFull
  BY <1>2 DEF Encoding!RenderedInFull
<1>9. QED
  BY <1>5, <1>6, <1>7, <1>8 DEF Encoding!EncodingInv

\* A step changes neither what a body is nor what its lengths are.
LEMMA LengthsStay ==
    ASSUME UNCHANGED <<kind, body>>
    PROVE  /\ Encoding!RenderedLengths(body.fields)' = Encoding!RenderedLengths(body.fields)
           /\ Encoding!PartialSums(Encoding!RenderedLengths(body.fields))'
                  = Encoding!PartialSums(Encoding!RenderedLengths(body.fields))
           /\ Encoding!Sum(Encoding!RenderedLengths(body.fields))'
                  = Encoding!Sum(Encoding!RenderedLengths(body.fields))
           /\ Encoding!Rewindable' = Encoding!Rewindable
           /\ Encoding!Announced' = Encoding!Announced
<1>1. Encoding!RenderedLengths(body.fields)' = Encoding!RenderedLengths(body.fields)
  BY DEF Encoding!RenderedLengths, Encoding!FieldLength, Encoding!PeekLength
<1>2. Encoding!PartialSums(Encoding!RenderedLengths(body.fields))'
          = Encoding!PartialSums(Encoding!RenderedLengths(body.fields))
  BY <1>1
<1>3. Encoding!Sum(Encoding!RenderedLengths(body.fields))'
          = Encoding!Sum(Encoding!RenderedLengths(body.fields))
  BY <1>1
<1>4. Encoding!Rewindable' = Encoding!Rewindable
  BY DEF Encoding!Rewindable, Encoding!Seekable
<1>5. Encoding!Announced' = Encoding!Announced
  BY DEF Encoding!Announced, Encoding!MultipartLength, Encoding!RenderedLengths,
         Encoding!FieldLength, Encoding!PeekLength
<1>6. QED
  BY <1>1, <1>2, <1>3, <1>4, <1>5

\* The headers of a body that stays are those they were.
LEMMA HeadersStay ==
    ASSUME Encoding!HeadersOfBody, UNCHANGED <<kind, body, given, framing>>
    PROVE  Encoding!HeadersOfBody'
<1>1. PICK bodyExpected \in BOOLEAN : framing = Encoding!Prepared(Encoding!Announced, bodyExpected)
  BY DEF Encoding!HeadersOfBody
<1>2. framing' = Encoding!Prepared(Encoding!Announced, bodyExpected)'
  BY <1>1, LengthsStay DEF Encoding!Prepared
<1>3. QED
  BY <1>2 DEF Encoding!HeadersOfBody

\* The numbers a body is measured with.
LEMMA Measures ==
    /\ Size \in [Files -> Nat] /\ ChunkSize \in Nat /\ ChunkSize > 0
    /\ Encoding!Overhead \in Nat /\ Encoding!Closing \in Nat
BY ValuesAssumption DEF Encoding!RequestEncodingAssumption, Encoding!Overhead, Encoding!Closing

\* A transmission begins.
LEMMA TransmitFraming ==
    ASSUME Encoding!EncodingInv, Encoding!Transmit
    PROVE  Encoding!EncodingInv'
<1> USE DEF Encoding!EncodingInv
<1>1. /\ UNCHANGED <<kind, position, body, given, framing>>
      /\ sending.field = 0 /\ count' = count + 1
      /\ fromStart' = (body.kind = "file" => position[body.file] = 0)
      /\ sent' = IF body.kind = "bytes" THEN body.length ELSE 0
      /\ sending' = [sending EXCEPT !.field = IF body.kind \in {"file", "multipart"} THEN 1 ELSE 0]
  BY DEF Encoding!Transmit
<1>2. Encoding!EncodingTypeOK /\ Encoding!RenderedSoFar
  OBVIOUS
<1>3. /\ body \in Bodies /\ body.kind \in {"none", "iterator", "bytes", "file", "multipart"}
      /\ body.kind = "bytes" => body.length \in Nat
      /\ body.kind = "multipart" => Len(body.fields) \in Nat
  BY <1>2, BodyShape DEF Encoding!EncodingTypeOK
<1>4. sending.file = 0 /\ sending \in [field : Nat, file : {0, 1}]
  <2>1. sending \in [field : Nat, file : {0, 1}]
    BY <1>2 DEF Encoding!EncodingTypeOK
  <2>2. sending.file = 1 => body.kind = "multipart" /\ 0 \in DOMAIN body.fields
    BY <1>1, <1>2 DEF Encoding!RenderedSoFar
  <2>3. body.kind = "multipart" => DOMAIN body.fields = 1 .. Len(body.fields)
    BY <1>3, BodyShape
  <2>4. QED
    BY <1>3, <2>1, <2>2, <2>3
<1>5. sending' = [field |-> IF body.kind \in {"file", "multipart"} THEN 1 ELSE 0, file |-> 0]
  BY <1>1, <1>4
<1>6. Encoding!EncodingTypeOK'
  <2>1. fromStart' \in BOOLEAN
    BY <1>1, Zenon
  <2>2. sent' \in Nat
    BY <1>1, <1>3
  <2>3. sending' \in [field : Nat, file : {0, 1}]
    <3>1. ASSUME NEW n \in Nat PROVE [field |-> n, file |-> 0] \in [field : Nat, file : {0, 1}]
      OBVIOUS
    <3>2. (IF body.kind \in {"file", "multipart"} THEN 1 ELSE 0) \in Nat
      OBVIOUS
    <3>3. QED
      BY <1>5, <3>1, <3>2
  <2>4. count' \in Nat
    BY <1>1, <1>2 DEF Encoding!EncodingTypeOK
  <2>5. QED
    BY <1>1, <1>2, <2>1, <2>2, <2>3, <2>4 DEF Encoding!EncodingTypeOK
<1>7. Encoding!HeadersOfBody'
  BY <1>1, HeadersStay
<1>8. Encoding!RenderedSoFar'
  <2>1. body.kind = "multipart" =>
           Encoding!PartialSums(Encoding!RenderedLengths(body.fields))'[0] = 0
    BY <1>1, <1>2, FieldLengths, LengthsStay, SumsStep
  <2>2. body.kind = "file" => (fromStart' => sent' = position'[body.file])
    BY <1>1
  <2> USE DEF Encoding!RenderedSoFar
  <2>3. CASE body.kind = "file"
    BY <1>1, <1>5, <2>2, <2>3
  <2>4. CASE body.kind = "multipart"
    BY <1>1, <1>3, <1>5, <2>1, <2>4
  <2>5. CASE body.kind \notin {"file", "multipart"}
    BY <1>1, <1>5, <2>5
  <2>6. QED
    BY <2>3, <2>4, <2>5
<1>9. Encoding!RenderedInFull'
  BY <1>1, <1>3, <1>5 DEF Encoding!RenderedInFull
<1>10. QED
  BY <1>6, <1>7, <1>8, <1>9

\* A field begins.
LEMMA BeginFieldFraming ==
    ASSUME Encoding!EncodingInv, Encoding!BeginField
    PROVE  Encoding!EncodingInv'
<1> USE DEF Encoding!EncodingInv
<1> DEFINE field == body.fields[sending.field]
           L == Encoding!RenderedLengths(body.fields)
           k == sending.field
<1>1. /\ UNCHANGED <<kind, body, given, framing, count, fromStart>>
      /\ body.kind = "multipart" /\ k \in DOMAIN body.fields /\ sending.file = 0
      /\ IF field.kind = "bytes"
         THEN /\ sent' = sent + Encoding!Overhead + field.length
              /\ sending' = [sending EXCEPT !.field = @ + 1]
              /\ UNCHANGED position
         ELSE /\ sent' = sent + Encoding!Overhead
              /\ sending' = [sending EXCEPT !.file = 1]
              /\ position' = IF Encoding!Seekable(field.file)
                             THEN [position EXCEPT ![field.file] = 0] ELSE position
  BY DEF Encoding!BeginField, Encoding!Fields
<1>2. Encoding!EncodingTypeOK /\ Encoding!RenderedSoFar
  OBVIOUS
<1>3. /\ Len(body.fields) \in Nat /\ k \in 1 .. Len(body.fields) /\ k \in Nat
      /\ field.kind \in {"bytes", "file"}
      /\ field.kind = "bytes" => field.length \in Nat
      /\ field.kind = "file" => field.file \in Files
      /\ body \in Bodies
  BY <1>1, <1>2, BodyShape DEF Encoding!EncodingTypeOK
<1>4. /\ sending \in [field : Nat, file : {0, 1}] /\ sent \in Nat /\ count \in Nat
      /\ position \in [Files -> Nat]
  BY <1>2 DEF Encoding!EncodingTypeOK
<1>5. /\ L \in Seq(Nat) /\ Len(L) = Len(body.fields)
      /\ Encoding!Rewindable =>
            L[k] = Encoding!Overhead + (IF field.kind = "bytes" THEN field.length ELSE Size[field.file])
  <2>1. L \in Seq(Nat) /\ Len(L) = Len(body.fields)
    BY <1>1, <1>2, FieldLengths
  <2>2. L[k] = Encoding!Overhead + Encoding!FieldLength(field).length
    BY <1>1, <1>2, FieldLengths
  <2>3. Encoding!Rewindable =>
           Encoding!FieldLength(field) =
               Encoding!Known(IF field.kind = "bytes" THEN field.length ELSE Size[field.file])
    BY <1>1, <1>2, FieldLengths
  <2> HIDE DEF L, field
  <2>4. QED
    BY <2>1, <2>2, <2>3 DEF Encoding!Known
<1>6. /\ Encoding!PartialSums(L)[k] = Encoding!PartialSums(L)[k - 1] + L[k]
      /\ Encoding!PartialSums(L)[k - 1] \in Nat /\ Encoding!PartialSums(L)[k] \in Nat
  <2> HIDE DEF L, k
  <2>1. k \in 1 .. Len(L) /\ k \in 0 .. Len(L) /\ k - 1 \in 0 .. Len(L)
    BY <1>3, <1>5
  <2>2. QED
    BY <1>5, <2>1, SumsStep
<1>7. Encoding!Rewindable => sent = Encoding!PartialSums(L)[k - 1]
  <2>1. sending.field > 0 /\ sending.file = 0 /\ Encoding!PartialSums(L)[k - 1] \in Nat
    BY <1>1, <1>3, <1>6
  <2>2. Encoding!Rewindable =>
           sent = Encoding!PartialSums(L)[k - 1]
                  + IF sending.file = 0 THEN 0
                    ELSE Encoding!Overhead + position[body.fields[sending.field].file]
    BY <1>1, <1>2, <2>1 DEF Encoding!RenderedSoFar
  <2> HIDE DEF L, k
  <2>3. QED
    BY <2>1, <2>2
<1>8. Encoding!Rewindable' = Encoding!Rewindable
      /\ Encoding!PartialSums(L)' = Encoding!PartialSums(L)
  BY <1>1, LengthsStay
<1>9. Encoding!Rewindable => (field.kind = "file" => Encoding!Seekable(field.file))
  BY <1>1 DEF Encoding!Rewindable
<1>10. sending' = IF field.kind = "bytes" THEN [field |-> k + 1, file |-> 0]
                                          ELSE [field |-> k, file |-> 1]
  BY <1>1, <1>4
<1>11. position' \in [Files -> Nat]
       /\ \A file \in Files : position'[file] = position[file] \/ position'[file] = 0
  BY <1>1, <1>3, <1>4
<1>12. Encoding!HeadersOfBody'
  BY <1>1, HeadersStay
<1> HIDE DEF field, L, k
<1>13. Encoding!EncodingTypeOK'
  <2>1. sending' \in [field : Nat, file : {0, 1}] /\ sent' \in Nat
    BY <1>1, <1>3, <1>4, <1>10, Measures
  <2>2. \A file \in Files : position'[file] <= Size[file]
    BY <1>2, <1>11, Measures DEF Encoding!EncodingTypeOK
  <2>3. QED
    BY <1>1, <1>2, <1>11, <2>1, <2>2 DEF Encoding!EncodingTypeOK
<1>14. Encoding!RenderedSoFar'
  <2> USE DEF Encoding!RenderedSoFar
  <2>1. CASE field.kind = "bytes"
    <3>1. sending'.field = k + 1 /\ sending'.file = 0 /\ k + 1 <= Len(body.fields) + 1 /\ (k + 1) - 1 = k
      BY <1>3, <1>10, <2>1
    <3>2. Encoding!Rewindable => sent' = Encoding!PartialSums(L)[k]
      <4>1. Encoding!Rewindable => L[k] = Encoding!Overhead + field.length
        BY <1>5, <2>1
      <4>2. sent' = sent + Encoding!Overhead + field.length /\ field.length \in Nat
        BY <1>1, <1>3, <2>1 DEF field
      <4>3. QED
        BY <1>4, <1>6, <1>7, <4>1, <4>2, Measures
    <3>3. Encoding!PartialSums(L)[k] \in Nat
      BY <1>6
    <3> DEFINE sums == Encoding!PartialSums(L)
    <3>4. Encoding!Rewindable' =>
             sent' = sums'[sending'.field - 1]
                     + IF sending'.file = 0 THEN 0
                       ELSE Encoding!Overhead + position'[body'.fields[sending'.field].file]
      BY <1>8, <3>1, <3>2, <3>3
    <3>5. body'.kind = "multipart" /\ sending'.field <= Len(body'.fields) + 1
      BY <1>1, <3>1
    <3> HIDE DEF sums
    <3>6. QED
      BY <3>1, <3>4, <3>5 DEF L, sums
  <2>2. CASE field.kind = "file"
    <3>1. sending'.field = k /\ sending'.file = 1 /\ k <= Len(body.fields) + 1
      BY <1>3, <1>10, <2>2
    <3>2. Encoding!Rewindable => position'[field.file] = 0
      BY <1>1, <1>3, <1>4, <1>9, <2>2
    <3>3. Encoding!Rewindable =>
             sent' = Encoding!PartialSums(L)[k - 1] + (Encoding!Overhead + position'[field.file])
      BY <1>1, <1>4, <1>6, <1>7, <2>2, <3>2, Measures
    <3>4. k \in DOMAIN body.fields /\ body.fields[k].kind = "file"
      BY <1>1, <2>2 DEF field, k
    <3>5. QED
      BY <1>1, <1>8, <3>1, <3>3, <3>4 DEF L, field, k
  <2>3. QED
    BY <1>3, <2>1, <2>2
<1>15. Encoding!RenderedInFull'
  <2>1. sending'.field # 0
    BY <1>3, <1>10
  <2>2. QED
    BY <2>1 DEF Encoding!RenderedInFull
<1>16. QED
  BY <1>12, <1>13, <1>14, <1>15

\* A chunk of a file is read.
LEMMA ReadChunkFraming ==
    ASSUME Encoding!EncodingInv, Encoding!ReadChunk
    PROVE  Encoding!EncodingInv'
<1> USE DEF Encoding!EncodingInv
<1> DEFINE file == Encoding!Fields[sending.field].file
           n == Encoding!Chunk(file)
           k == sending.field
           L == Encoding!RenderedLengths(body.fields)
           sums == Encoding!PartialSums(L)
<1>1. /\ UNCHANGED <<kind, body, given, framing, count, fromStart>>
      /\ k \in DOMAIN Encoding!Fields
      /\ sending.file = 1 \/ body.kind = "file"
      /\ sent' = sent + n
      /\ position' = [position EXCEPT ![file] = @ + n]
      /\ sending' = IF n > 0 THEN sending
                    ELSE [field |-> IF body.kind = "file" THEN 0 ELSE k + 1, file |-> 0]
  BY DEF Encoding!ReadChunk
<1>2. Encoding!EncodingTypeOK /\ Encoding!RenderedSoFar
  OBVIOUS
<1>3. /\ sending \in [field : Nat, file : {0, 1}] /\ sent \in Nat /\ count \in Nat
      /\ position \in [Files -> Nat] /\ body \in Bodies
      /\ \A f \in Files : position[f] <= Size[f]
  BY <1>2 DEF Encoding!EncodingTypeOK
\* Which field's file is read, and that it is the one being rendered.
<1>4. /\ file \in Files /\ k > 0 /\ k \in Nat
      /\ \/ body.kind = "file" /\ file = body.file /\ k = 1 /\ sending.file = 0
         \/ /\ body.kind = "multipart" /\ k \in 1 .. Len(body.fields) /\ sending.file = 1
            /\ body.fields[k].kind = "file" /\ file = body.fields[k].file
            /\ Len(body.fields) \in Nat
  <2>1. CASE body.kind = "file"
    <3>1. Encoding!Fields = <<body>>
      BY <2>1 DEF Encoding!Fields
    <3>2. k = 1
      BY <1>1, <3>1
    <3>3. file = body.file /\ body.file \in Files
      BY <1>3, <2>1, <3>1, <3>2, BodyShape
    <3>4. sending.file = 0
      BY <1>2, <1>3, <2>1 DEF Encoding!RenderedSoFar
    <3>5. QED
      BY <2>1, <3>2, <3>3, <3>4
  <2>2. CASE body.kind # "file"
    <3>1. /\ body.kind = "multipart" /\ k \in DOMAIN body.fields
          /\ body.fields[k].kind = "file" /\ sending.file = 1
      BY <1>1, <1>2, <2>2 DEF Encoding!RenderedSoFar
    <3>2. Encoding!Fields = body.fields
      BY <3>1 DEF Encoding!Fields
    <3>3. /\ body.fields[k].file \in Files /\ Len(body.fields) \in Nat
          /\ DOMAIN body.fields = 1 .. Len(body.fields)
      BY <1>3, <3>1, BodyShape
    <3>4. QED
      BY <3>1, <3>2, <3>3
  <2>3. QED
    BY <2>1, <2>2
<1>5. /\ n \in Nat /\ position[file] + n <= Size[file] /\ position[file] \in Nat /\ Size[file] \in Nat
      /\ n = 0 => position[file] = Size[file]
  <2>1. position[file] \in Nat /\ Size[file] \in Nat /\ position[file] <= Size[file]
    BY <1>3, <1>4, Measures
  <2> HIDE DEF file
  <2>2. QED
    BY <2>1, Measures DEF Encoding!Chunk
<1>6. Encoding!HeadersOfBody'
  BY <1>1, HeadersStay
<1> HIDE DEF file, n, k, L, sums
<1>7. /\ position' \in [Files -> Nat] /\ position'[file] = position[file] + n
      /\ \A f \in Files : f # file => position'[f] = position[f]
  BY <1>1, <1>3, <1>4, <1>5
<1>8. Encoding!EncodingTypeOK'
  <2>1. \A f \in Files : position'[f] <= Size[f]
    BY <1>3, <1>5, <1>7
  <2>2. sent' \in Nat
    BY <1>1, <1>3, <1>5
  <2>3. sending' \in [field : Nat, file : {0, 1}]
    <3>1. CASE n > 0
      BY <1>1, <1>3, <3>1
    <3>2. CASE ~(n > 0) /\ body.kind = "file"
      BY <1>1, <3>2
    <3>3. CASE ~(n > 0) /\ body.kind # "file"
      BY <1>1, <1>4, <3>3
    <3>4. QED
      BY <3>1, <3>2, <3>3
  <2>4. QED
    BY <1>1, <1>2, <1>7, <2>1, <2>2, <2>3 DEF Encoding!EncodingTypeOK
<1>9. CASE body.kind = "file"
  <2>1. file = body.file /\ k = 1 /\ sending.file = 0
    BY <1>4, <1>9
  <2>2. fromStart => sent = position[body.file]
    BY <1>2, <1>4, <1>9 DEF Encoding!RenderedSoFar, k
  <2>3. fromStart' => sent' = position'[body.file]
    BY <1>1, <1>5, <1>7, <2>1, <2>2
  <2>4. sending'.field \in {0, 1} /\ sending'.file = 0
    BY <1>1, <1>3, <1>9, <2>1 DEF k
  <2>5. Encoding!RenderedSoFar'
    BY <1>1, <1>9, <2>3, <2>4 DEF Encoding!RenderedSoFar
  <2>6. sending'.field = 0 => position'[body.file] = Size[body.file]
    BY <1>1, <1>5, <1>7, <2>1 DEF k
  <2>7. Encoding!RenderedInFull'
    BY <1>1, <1>9, <2>3, <2>6 DEF Encoding!RenderedInFull
  <2>8. QED
    BY <1>6, <1>8, <2>5, <2>7
<1>10. CASE body.kind = "multipart"
  <2>1. /\ k \in 1 .. Len(body.fields) /\ sending.file = 1 /\ body.fields[k].kind = "file"
        /\ file = body.fields[k].file /\ Len(body.fields) \in Nat
    BY <1>4, <1>10
  <2>2. DOMAIN body.fields = 1 .. Len(body.fields)
    BY <1>3, <1>10, BodyShape
  <2>3. /\ L \in Seq(Nat) /\ Len(L) = Len(body.fields)
        /\ Encoding!Rewindable => L[k] = Encoding!Overhead + Size[file]
    <3>1. L \in Seq(Nat) /\ Len(L) = Len(body.fields)
      BY <1>2, <1>10, FieldLengths DEF L
    <3>2. L[k] = Encoding!Overhead + Encoding!FieldLength(body.fields[k]).length
      BY <1>2, <1>10, <2>1, <2>2, FieldLengths DEF L
    <3>3. Encoding!Rewindable =>
             Encoding!FieldLength(body.fields[k]) =
                 Encoding!Known(IF body.fields[k].kind = "bytes" THEN body.fields[k].length
                                ELSE Size[body.fields[k].file])
      BY <1>2, <1>10, <2>1, <2>2, FieldLengths
    <3>4. QED
      BY <2>1, <3>1, <3>2, <3>3 DEF Encoding!Known
  <2>4. sums[k - 1] \in Nat /\ sums[k] \in Nat /\ sums[k] = sums[k - 1] + L[k]
    <3>1. k \in 1 .. Len(L) /\ k \in 0 .. Len(L) /\ k - 1 \in 0 .. Len(L)
      BY <2>1, <2>3
    <3>2. QED
      BY <2>3, <3>1, SumsStep DEF sums
  <2>5. Encoding!Rewindable => sent = sums[k - 1] + (Encoding!Overhead + position[file])
    <3>1. sending.field > 0 /\ sending.file # 0 /\ body.fields[sending.field].file = file
      BY <1>4, <2>1 DEF k
    <3>2. QED
      BY <1>2, <1>10, <3>1 DEF Encoding!RenderedSoFar, sums, L, k
  <2>6. Encoding!Rewindable' = Encoding!Rewindable /\ sums' = sums
    BY <1>1, LengthsStay DEF sums, L
  <2>7. Encoding!RenderedSoFar'
    <3>1. CASE n > 0
      <4>1. sending' = sending
        BY <1>1, <3>1
      <4>2. Encoding!Rewindable' => sent' = sums'[k - 1] + (Encoding!Overhead + position'[file])
        BY <1>1, <1>3, <1>5, <1>7, <2>4, <2>5, <2>6, Measures
      <4>3. k <= Len(body.fields) + 1
        BY <2>1
      <4>4. QED
        BY <1>1, <1>10, <2>1, <2>2, <4>1, <4>2, <4>3 DEF Encoding!RenderedSoFar, sums, L, k
    <3>2. CASE ~(n > 0)
      <4>1. sending'.field = k + 1 /\ sending'.file = 0 /\ (k + 1) - 1 = k /\ k + 1 > 0
        BY <1>1, <1>4, <1>10, <3>2
      <4>2. position[file] = Size[file] /\ sent' = sent
        BY <1>1, <1>3, <1>5, <3>2
      <4>3. Encoding!Rewindable' => sent' = sums'[k] + 0
        BY <2>3, <2>4, <2>5, <2>6, <4>2, <1>5, Measures
      <4>4. k + 1 <= Len(body.fields) + 1
        BY <2>1
      <4>5. Encoding!Rewindable' =>
               sent' = sums'[sending'.field - 1]
                       + IF sending'.file = 0 THEN 0
                         ELSE Encoding!Overhead + position'[body'.fields[sending'.field].file]
        BY <4>1, <4>3
      <4>6. QED
        BY <1>1, <1>10, <4>1, <4>4, <4>5 DEF Encoding!RenderedSoFar, sums, L
    <3>3. QED
      BY <3>1, <3>2
  <2>8. sending'.field # 0
    BY <1>1, <1>4, <1>10 DEF k
  <2>9. Encoding!RenderedInFull'
    BY <2>8 DEF Encoding!RenderedInFull
  <2>10. QED
    BY <1>6, <1>8, <2>7, <2>9
<1>11. QED
  BY <1>4, <1>9, <1>10

\* The body ends.
LEMMA EndMultipartFraming ==
    ASSUME Encoding!EncodingInv, Encoding!EndMultipart
    PROVE  Encoding!EncodingInv'
<1> USE DEF Encoding!EncodingInv
<1> DEFINE L == Encoding!RenderedLengths(body.fields)
<1>1. /\ UNCHANGED <<kind, position, body, given, framing, count, fromStart>>
      /\ body.kind = "multipart" /\ sending.field = Len(body.fields) + 1
      /\ sent' = sent + Encoding!Closing /\ sending' = [field |-> 0, file |-> 0]
  BY DEF Encoding!EndMultipart, Encoding!Fields
<1>2. Encoding!EncodingTypeOK /\ Encoding!RenderedSoFar
  OBVIOUS
<1>3. /\ Len(body.fields) \in Nat /\ DOMAIN body.fields = 1 .. Len(body.fields)
      /\ sent \in Nat /\ sending \in [field : Nat, file : {0, 1}]
  BY <1>1, <1>2, BodyShape DEF Encoding!EncodingTypeOK
<1>4. L \in Seq(Nat) /\ Len(L) = Len(body.fields)
  BY <1>1, <1>2, FieldLengths
<1>5. sending.file = 0
  <2>1. sending.file = 1 => sending.field \in DOMAIN body.fields
    BY <1>2 DEF Encoding!RenderedSoFar
  <2>2. QED
    BY <1>1, <1>3, <2>1
<1>6. Encoding!Sum(L) = Encoding!PartialSums(L)[Len(body.fields)] /\ Encoding!Sum(L) \in Nat
  <2> HIDE DEF L
  <2>1. Len(L) \in 0 .. Len(L)
    BY <1>3, <1>4
  <2>2. QED
    BY <1>4, <2>1, SumsStep DEF Encoding!Sum
<1>7. Encoding!Rewindable => sent = Encoding!Sum(L)
  <2>1. sending.field > 0 /\ sending.field - 1 = Len(body.fields)
    BY <1>1, <1>3
  <2>2. Encoding!Rewindable => sent = Encoding!PartialSums(L)[Len(body.fields)] + 0
    BY <1>1, <1>2, <1>5, <2>1 DEF Encoding!RenderedSoFar
  <2> HIDE DEF L
  <2>3. QED
    BY <1>6, <2>2
<1>8. Encoding!EncodingTypeOK'
  BY <1>1, <1>2, <1>3, Measures DEF Encoding!EncodingTypeOK
<1>9. Encoding!HeadersOfBody'
  BY <1>1, HeadersStay
<1>10. Encoding!RenderedSoFar'
  BY <1>1 DEF Encoding!RenderedSoFar
<1>11. Encoding!RenderedInFull'
  <2>1. Encoding!Rewindable' = Encoding!Rewindable /\ Encoding!Sum(L)' = Encoding!Sum(L)
    BY <1>1, LengthsStay
  <2>2. Encoding!Rewindable' => sent' = Encoding!Sum(L)' + Encoding!Closing
    BY <1>1, <1>7, <2>1
  <2>3. QED
    BY <1>1, <2>2 DEF Encoding!RenderedInFull
<1>12. QED
  BY <1>8, <1>9, <1>10, <1>11

\* Every action keeps the framing.
LEMMA FramingStep ==
    ASSUME Encoding!EncodingInv, Encoding!Next
    PROVE  Encoding!EncodingInv'
BY TransmitFraming, BeginFieldFraming, ReadChunkFraming, EndMultipartFraming DEF Encoding!Next

\* What the invariant says of the headers: they are the caller's, or those of
\* the body, and of an absent body a length of 0.
LEMMA FramingFollows == Encoding!EncodingInv => Encoding!LengthDeclared /\ Encoding!OneFraming
<1> SUFFICES ASSUME Encoding!EncodingInv PROVE Encoding!LengthDeclared /\ Encoding!OneFraming
  OBVIOUS
<1> DEFINE announced == Encoding!Announced
           length == IF given.contentLength.known THEN given.contentLength ELSE announced.contentLength
           chunked == given.chunked \/ (announced.chunked /\ ~given.contentLength.known)
<1>1. Encoding!EncodingTypeOK /\ Encoding!HeadersOfBody /\ Encoding!RenderedInFull
  BY DEF Encoding!EncodingInv
<1>2. PICK expected \in BOOLEAN : framing = Encoding!Prepared(Encoding!Announced, expected)
  BY <1>1 DEF Encoding!HeadersOfBody
<1>3. framing = [contentLength |-> IF expected /\ ~length.known /\ ~chunked
                                   THEN Encoding!Known(0) ELSE length,
                 chunked |-> chunked]
  BY <1>2 DEF Encoding!Prepared
<1>4. body \in Bodies /\ body.kind \in {"none", "iterator", "bytes", "file", "multipart"}
  BY <1>1, BodyShape DEF Encoding!EncodingTypeOK
<1> DEFINE empty == body.kind = "none" \/ (body.kind = "bytes" /\ body.length = 0 /\ ~body.typed)
           measured == CASE body.kind = "bytes" -> Encoding!Known(body.length)
                         [] body.kind = "file" -> Encoding!PeekLength(body.file)
                         [] body.kind = "multipart" -> Encoding!MultipartLength(body.fields)
                         [] OTHER -> Encoding!Unknown
<1>5. announced = IF empty THEN [contentLength |-> Encoding!Unknown, chunked |-> FALSE]
                  ELSE [contentLength |-> measured, chunked |-> ~measured.known]
  BY DEF Encoding!Announced
<1> HIDE DEF announced, empty, measured
<1>6. ~Encoding!Unknown.known
  BY DEF Encoding!Unknown
<1>7. announced.chunked => ~announced.contentLength.known
  BY <1>5
<1>8. Encoding!OneFraming
  BY <1>3, <1>7 DEF Encoding!OneFraming, Encoding!Known
<1>9. ASSUME count > 0, sending.field = 0, framing.contentLength.known,
             ~given.contentLength.known, ~Encoding!UsesPipe, fromStart
      PROVE  sent = framing.contentLength.length
  <2>1. CASE empty
    <3>1. framing.contentLength = Encoding!Known(0)
      BY <1>3, <1>5, <1>6, <1>9, <2>1
    <3>2. sent = 0
      BY <1>1, <1>9, <2>1 DEF empty, Encoding!RenderedInFull
    <3>3. QED
      BY <3>1, <3>2 DEF Encoding!Known
  <2>2. CASE ~empty
    <3>1. framing.contentLength = measured /\ measured.known
      BY <1>3, <1>5, <1>9, <2>2
    <3>2. CASE body.kind = "bytes"
      <4>1. measured.length = body.length
        BY <3>2 DEF measured, Encoding!Known
      <4>2. QED
        BY <1>1, <1>9, <3>1, <3>2, <4>1 DEF Encoding!RenderedInFull
    <3>3. CASE body.kind = "file"
      <4>1. measured = Encoding!PeekLength(body.file)
        BY <3>3 DEF measured
      <4>2. kind[body.file] \in Encoding!Kinds \ {"pipe"}
        BY <1>1, <1>4, <1>9, <3>3, BodyShape DEF Encoding!EncodingTypeOK, Encoding!UsesPipe
      <4>3. measured = Encoding!Known(Size[body.file])
        BY <1>6, <3>1, <4>1, <4>2 DEF Encoding!PeekLength, Encoding!Kinds
      <4>4. QED
        BY <1>1, <1>9, <3>1, <3>3, <4>3 DEF Encoding!RenderedInFull, Encoding!Known
    <3>4. CASE body.kind = "multipart"
      <4>1. measured = Encoding!MultipartLength(body.fields)
        BY <3>4 DEF measured
      <4>2. \A i \in DOMAIN body.fields : Encoding!FieldLength(body.fields[i]).known
        BY <1>6, <3>1, <4>1 DEF Encoding!MultipartLength
      <4>3. measured.length = Encoding!Sum(Encoding!RenderedLengths(body.fields)) + Encoding!Closing
        BY <4>1, <4>2 DEF Encoding!MultipartLength, Encoding!Known
      <4>4. ASSUME NEW i \in DOMAIN body.fields, body.fields[i].kind = "file"
            PROVE  Encoding!Seekable(body.fields[i].file)
        <5>1. kind[body.fields[i].file] \in Encoding!Kinds
          BY <1>1, <1>4, <3>4, <4>4, BodyShape DEF Encoding!EncodingTypeOK
        <5>2. kind[body.fields[i].file] # "pipe"
          BY <1>9, <3>4, <4>4 DEF Encoding!UsesPipe, Encoding!Fields
        <5>3. Encoding!PeekLength(body.fields[i].file).known
          BY <4>2, <4>4 DEF Encoding!FieldLength
        <5>4. QED
          BY <1>6, <5>1, <5>2, <5>3 DEF Encoding!PeekLength, Encoding!Kinds, Encoding!Seekable
      <4>5. Encoding!Rewindable
        BY <4>4 DEF Encoding!Rewindable
      <4>6. QED
        BY <1>1, <1>9, <3>1, <3>4, <4>3, <4>5 DEF Encoding!RenderedInFull
    <3>5. CASE body.kind \in {"none", "iterator"}
      <4>1. measured = Encoding!Unknown
        BY <3>5 DEF measured
      <4>2. QED
        BY <1>6, <3>1, <4>1
    <3>6. QED
      BY <1>4, <3>2, <3>3, <3>4, <3>5
  <2>3. QED
    BY <2>1, <2>2
<1>10. Encoding!LengthDeclared
  BY <1>9 DEF Encoding!LengthDeclared
<1>11. QED
  BY <1>8, <1>10

-----------------------------------------------------------------------------
(* One part of the module moves in a behaviour, the others are at <<>>.     *)

FramingInv == part = "encoding" => Encoding!EncodingInv

\* Whatever the files, the fields and their lengths: a body is as long as its
\* Content-Length says each time it is sent, and a message is framed one way.
THEOREM FramingIsSound == Spec => []FramingSound
<1>1. Init => FramingInv
  BY FramingStart DEF Init, FramingInv
<1>2. FramingInv /\ [Next]_<<part, dvars, cvars, uvars, rvars, evars, ovars>> => FramingInv'
  <2> SUFFICES ASSUME FramingInv, [Next]_<<part, dvars, cvars, uvars, rvars, evars, ovars>>,
                      part' = "encoding"
               PROVE  Encoding!EncodingInv'
    BY DEF FramingInv
  <2>1. part = "encoding" /\ Encoding!EncodingInv
    BY DEF FramingInv, Next
  <2>2. CASE Encoding!Next
    BY <2>1, <2>2, FramingStep
  <2>3. CASE UNCHANGED evars
    <3>1. UNCHANGED <<kind, position, body, given, framing, sending, sent, count, fromStart>>
      BY <2>3 DEF evars
    <3>2. Encoding!HeadersOfBody'
      BY <2>1, <3>1, HeadersStay DEF Encoding!EncodingInv
    <3>3. Encoding!EncodingTypeOK'
      BY <2>1, <3>1 DEF Encoding!EncodingInv, Encoding!EncodingTypeOK
    <3>4. Encoding!RenderedSoFar'
      BY <2>1, <3>1, LengthsStay DEF Encoding!EncodingInv, Encoding!RenderedSoFar
    <3>5. Encoding!RenderedInFull'
      BY <2>1, <3>1, LengthsStay DEF Encoding!EncodingInv, Encoding!RenderedInFull
    <3>6. QED
      BY <3>2, <3>3, <3>4, <3>5 DEF Encoding!EncodingInv
  <2>4. QED
    BY <2>1, <2>2, <2>3 DEF Next
<1>3. FramingInv => FramingSound
  BY FramingFollows DEF FramingInv, FramingSound
<1>4. QED
  BY <1>1, <1>2, <1>3, PTL DEF Spec

-----------------------------------------------------------------------------
(* Recursion along a sequence.                                              *)

\* A set of sequences that has the empty one and all prolongations of its own
\* has all of them.
LEMMA AllSequences ==
    ASSUME NEW A, NEW X, <<>> \in X,
           \A s \in Seq(A), e \in A : s \in X => Append(s, e) \in X
    PROVE  Seq(A) \subseteq X
<1> DEFINE Y == {n \in Nat : \A s \in Seq(A) : Len(s) = n => s \in X}
<1>1. 0 \in Y
  <2>1. \A s \in Seq(A) : Len(s) = 0 => s = <<>>
    BY EmptySeq
  <2>2. QED
    BY <2>1
<1>2. ASSUME NEW n \in Nat, n \in Y PROVE n + 1 \in Y
  <2>1. ASSUME NEW s \in Seq(A), Len(s) = n + 1 PROVE s \in X
    <3>1. s # <<>>
      BY <2>1
    <3>2. PICK t \in Seq(A), e \in A : s = Append(t, e)
      BY <3>1, SequenceEmptyOrAppend
    <3>3. Len(t) = n
      BY <2>1, <3>2, AppendProperties
    <3>4. t \in X
      BY <1>2, <3>3
    <3>5. QED
      BY <3>2, <3>4
  <2>2. QED
    BY <2>1
<1>3. Nat \subseteq Y
  <2> HIDE DEF Y
  <2>1. QED
    BY <1>1, <1>2, AllNumbers
<1>4. \A s \in Seq(A) : Len(s) \in Nat
  OBVIOUS
<1>5. QED
  BY <1>3, <1>4

\* Two functions on 0 .. n that begin alike and go on alike are one.
LEMMA SameRun ==
    ASSUME NEW n \in Nat, NEW V, NEW f \in [0 .. n -> V], NEW g \in [0 .. n -> V], f[0] = g[0],
           \A i \in 1 .. n : f[i - 1] = g[i - 1] => f[i] = g[i]
    PROVE  f = g
<1> DEFINE Y == {m \in Nat : m <= n => f[m] = g[m]}
<1>1. 0 \in Y
  OBVIOUS
<1>2. ASSUME NEW m \in Nat, m \in Y PROVE m + 1 \in Y
  <2>1. ASSUME m + 1 <= n PROVE f[m + 1] = g[m + 1]
    <3>1. m + 1 \in 1 .. n /\ (m + 1) - 1 = m /\ f[m] = g[m]
      BY <1>2, <2>1
    <3>2. QED
      BY <3>1
  <2>2. QED
    BY <2>1
<1>3. Nat \subseteq Y
  <2> HIDE DEF Y
  <2>1. QED
    BY <1>1, <1>2, AllNumbers
<1>4. QED
  BY <1>3

\* The functions defined along a sequence, each value from the one before.
Runs(States, step, start, s) ==
    {g \in [0 .. Len(s) -> States] :
        g[0] = start /\ \A i \in 1 .. Len(s) : g[i] = step[<<g[i - 1], s[i]>>]}

\* There is one.
LEMMA RunExists ==
    ASSUME NEW A, NEW States, NEW step \in [States \X A -> States], NEW start \in States,
           NEW s \in Seq(A)
    PROVE  \E g : g \in Runs(States, step, start, s)
<1> DEFINE Run(g, t) == g[0] = start /\ \A i \in 1 .. Len(t) : g[i] = step[<<g[i - 1], t[i]>>]
           Has(t) == \E g \in [0 .. Len(t) -> States] : Run(g, t)
           X == {t \in Seq(A) : Has(t)}
<1>1. <<>> \in X
  <2>1. [i \in 0 .. 0 |-> start] \in [0 .. Len(<<>>) -> States] /\ Run([i \in 0 .. 0 |-> start], <<>>)
    OBVIOUS
  <2>2. Has(<<>>)
    BY <2>1, Zenon
  <2> HIDE DEF Has
  <2>3. QED
    BY <2>2, EmptySeq
<1>2. ASSUME NEW t \in Seq(A), NEW e \in A, t \in X PROVE Append(t, e) \in X
  <2> DEFINE n == Len(t)
             u == Append(t, e)
  <2>1. Has(t)
    <3> HIDE DEF Has
    <3>1. QED
      BY <1>2
  <2>2. PICK g \in [0 .. n -> States] : Run(g, t)
    BY <2>1
  <2>3. /\ u \in Seq(A) /\ Len(u) = n + 1 /\ u[n + 1] = e /\ \A i \in 1 .. n : u[i] = t[i]
        /\ n \in Nat
    BY AppendProperties
  <2> DEFINE h == [i \in 0 .. n + 1 |-> IF i = n + 1 THEN step[<<g[n], e>>] ELSE g[i]]
  <2> HIDE DEF u, n
  <2>4. g[n] \in States /\ step[<<g[n], e>>] \in States
    BY <2>3
  <2>5. h \in [0 .. n + 1 -> States]
    <3>1. \A i \in 0 .. n + 1 : i # n + 1 => i \in 0 .. n
      BY <2>3
    <3>2. \A i \in 0 .. n + 1 : (IF i = n + 1 THEN step[<<g[n], e>>] ELSE g[i]) \in States
      BY <2>4, <3>1
    <3>3. QED
      BY <3>2
  <2>6. h[0] = start
    BY <2>2, <2>3
  <2>7. ASSUME NEW i \in 1 .. n + 1 PROVE h[i] = step[<<h[i - 1], u[i]>>]
    <3>1. CASE i = n + 1
      <4>1. h[i] = step[<<g[n], e>>] /\ h[i - 1] = g[n] /\ u[i] = e
        BY <2>3, <3>1
      <4>2. QED
        BY <4>1
    <3>2. CASE i # n + 1
      <4>1. i \in 1 .. n /\ h[i] = g[i] /\ h[i - 1] = g[i - 1] /\ u[i] = t[i]
        <5>1. i \in 1 .. n /\ i \in 0 .. n + 1 /\ i - 1 \in 0 .. n + 1 /\ i - 1 # n + 1
          BY <2>3, <3>2
        <5>2. u[i] = t[i]
          BY <2>3, <5>1
        <5> HIDE DEF n
        <5>3. h[i] = g[i] /\ h[i - 1] = g[i - 1]
          BY <3>2, <5>1
        <5>4. QED
          BY <5>1, <5>2, <5>3
      <4>2. QED
        BY <2>2, <4>1 DEF n
    <3>3. QED
      BY <3>1, <3>2
  <2> HIDE DEF h
  <2>8. h \in [0 .. Len(u) -> States] /\ Run(h, u)
    BY <2>3, <2>5, <2>6, <2>7
  <2>9. Has(u)
    BY <2>8, Zenon
  <2> HIDE DEF Has
  <2>10. QED
    BY <2>3, <2>9 DEF u
<1>3. Seq(A) \subseteq X
  <2> HIDE DEF X
  <2>1. QED
    BY <1>1, <1>2, AllSequences
<1>4. Has(s)
  <2> HIDE DEF Has
  <2>1. QED
    BY <1>3
<1>5. QED
  BY <1>4 DEF Runs

\* Whatever satisfies the equations of such a function is one.
LEMMA RunIsRun ==
    ASSUME NEW A, NEW States, NEW step \in [States \X A -> States], NEW start \in States,
           NEW s \in Seq(A), NEW f, f = [i \in 0 .. Len(s) |-> f[i]], f[0] = start,
           \A i \in 1 .. Len(s) : f[i - 1] \in States => f[i] = step[<<f[i - 1], s[i]>>]
    PROVE  f \in Runs(States, step, start, s)
<1>1. PICK g : g \in Runs(States, step, start, s)
  BY RunExists
<1> DEFINE n == Len(s)
           V == States \union {f[i] : i \in 0 .. n}
<1>2. /\ g \in [0 .. n -> States] /\ g[0] = start
      /\ \A i \in 1 .. n : g[i] = step[<<g[i - 1], s[i]>>]
  BY <1>1 DEF Runs
<1>3. n \in Nat /\ \A i \in 1 .. n : i - 1 \in 0 .. n
  OBVIOUS
<1>4. \A i \in 1 .. n : f[i - 1] = g[i - 1] => f[i] = g[i]
  BY <1>2, <1>3
<1>5. f[0] = g[0]
  BY <1>2
<1>6. f \in [0 .. n -> V] /\ g \in [0 .. n -> V]
  BY <1>2
<1> HIDE DEF n, V
<1>7. f = g
  BY <1>3, <1>4, <1>5, <1>6, SameRun, Zenon
<1>8. QED
  BY <1>1, <1>7

\* A longer sequence takes one step more.
LEMMA RunGoesOn ==
    ASSUME NEW A, NEW States, NEW step, NEW start, NEW s \in Seq(A), NEW e \in A,
           NEW f \in Runs(States, step, start, s), NEW g \in Runs(States, step, start, Append(s, e))
    PROVE  g[Len(Append(s, e))] = step[<<f[Len(s)], e>>]
<1> DEFINE u == Append(s, e)
           n == Len(s)
           h == [i \in 0 .. n |-> g[i]]
<1>1. /\ u \in Seq(A) /\ Len(u) = n + 1 /\ u[n + 1] = e /\ n \in Nat
      /\ \A i \in 1 .. n : u[i] = s[i]
  BY AppendProperties
<1>2. /\ f \in [0 .. n -> States] /\ f[0] = start
      /\ \A i \in 1 .. n : f[i] = step[<<f[i - 1], s[i]>>]
  BY DEF Runs
<1>3. /\ g \in [0 .. Len(u) -> States] /\ g[0] = start
      /\ \A i \in 1 .. Len(u) : g[i] = step[<<g[i - 1], u[i]>>]
  BY DEF Runs
<1> HIDE DEF u, n
<1>4. /\ h \in [0 .. n -> States] /\ h[0] = start
      /\ \A i \in 1 .. n : h[i] = step[<<h[i - 1], s[i]>>]
  <2>1. \A i \in 0 .. n : i \in 0 .. Len(u)
    BY <1>1
  <2>2. h \in [0 .. n -> States] /\ h[0] = start
    BY <1>1, <1>3, <2>1
  <2>3. ASSUME NEW i \in 1 .. n PROVE h[i] = step[<<h[i - 1], s[i]>>]
    <3>1. i \in 1 .. Len(u) /\ i \in 0 .. n /\ i - 1 \in 0 .. n /\ u[i] = s[i]
      BY <1>1
    <3>2. QED
      BY <1>3, <3>1
  <2>4. QED
    BY <2>2, <2>3
<1> HIDE DEF h
<1>5. \A i \in 1 .. n : f[i - 1] = h[i - 1] => f[i] = h[i]
  BY <1>2, <1>4
<1>6. f = h
  <2>1. n \in Nat /\ f \in [0 .. n -> States] /\ h \in [0 .. n -> States] /\ f[0] = h[0]
    BY <1>1, <1>2, <1>4
  <2>2. QED
    BY ONLY <1>5, <2>1, SameRun
<1>7. f[n] = g[n] /\ n + 1 \in 1 .. Len(u) /\ (n + 1) - 1 = n
  BY <1>1, <1>6 DEF h
<1>8. g[n + 1] = step[<<g[n], e>>]
  BY <1>1, <1>3, <1>7
<1>9. QED
  BY <1>1, <1>7, <1>8 DEF u, n

-----------------------------------------------------------------------------
(* The decoders as recursions along what they decode.                       *)

\* The characters of a text, and what decoding and splitting it goes through.
Letters == {"a", "r", "n", "e", "?"}
TextState == [lead : BOOLEAN, text : Seq(Letters)]
SplitState == [lines : Seq(Seq(Letters)), line : Seq(Letters), cr : BOOLEAN]

\* A byte adds letters to the text, and may leave the first of two open.
LEMMA ByteDecoded ==
    ASSUME NEW acc \in TextState, NEW byte \in Decoding!Symbols
    PROVE  Decoding!DecodeByte(acc, byte) \in TextState
<1>1. acc.text \in Seq(Letters)
  BY DEF TextState
<1>2. \A x \in Letters : Append(acc.text, x) \in Seq(Letters)
  BY <1>1
<1>3. acc.text \o <<"?">> \in Seq(Letters) /\ acc.text \o <<>> \in Seq(Letters)
  BY <1>1 DEF Letters
<1>4. CASE byte = "t"
  BY <1>2, <1>4 DEF Decoding!DecodeByte, TextState, Letters
<1>5. CASE byte = "h"
  BY <1>3, <1>5 DEF Decoding!DecodeByte, TextState
<1>6. CASE byte \in Letters
  <2> DEFINE bad == IF acc.lead THEN <<"?">> ELSE <<>>
  <2>1. acc.text \o bad \in Seq(Letters)
    BY <1>3
  <2>2. Append(acc.text \o bad, byte) \in Seq(Letters)
    BY <1>6, <2>1
  <2>3. Decoding!DecodeByte(acc, byte) = [lead |-> FALSE, text |-> Append(acc.text \o bad, byte)]
    BY <1>6 DEF Decoding!DecodeByte, Letters
  <2>4. QED
    BY <2>2, <2>3 DEF TextState
<1>7. QED
  BY <1>4, <1>5, <1>6 DEF Decoding!Symbols, Letters

\* The text decoder, byte by byte.
LEMMA TextEquations ==
    ASSUME NEW pending \in BOOLEAN
    PROVE  /\ Decoding!DecodeText(pending, <<>>) = [lead |-> pending, text |-> <<>>]
           /\ \A s \in Seq(Decoding!Symbols) :
                 /\ Decoding!DecodeText(pending, s) \in TextState
                 /\ \A e \in Decoding!Symbols :
                       Decoding!DecodeText(pending, Append(s, e)) =
                           Decoding!DecodeByte(Decoding!DecodeText(pending, s), e)
<1> DEFINE A == Decoding!Symbols
           start == [lead |-> pending, text |-> <<>>]
           step == [p \in TextState \X A |-> Decoding!DecodeByte(p[1], p[2])]
           Eq(f, s) == f = [i \in 0 .. Len(s) |-> IF i = 0 THEN start
                                                  ELSE Decoding!DecodeByte(f[i - 1], s[i])]
           run(s) == CHOOSE f : Eq(f, s)
           Run(s) == Runs(TextState, step, start, s)
<1>1. start \in TextState
  BY EmptySeq DEF TextState
<1>2. step \in [TextState \X A -> TextState]
       /\ \A x \in TextState, y \in A : step[<<x, y>>] = Decoding!DecodeByte(x, y)
  BY ByteDecoded
<1>3. ASSUME NEW s \in Seq(A) PROVE run(s) \in Run(s)
  <2> HIDE DEF step, start, A
  <2>1. Len(s) \in Nat /\ \A i \in 1 .. Len(s) : s[i] \in A /\ i - 1 \in 0 .. Len(s)
    OBVIOUS
  <2>2. \A i \in 0 .. Len(s) : i # 0 => i \in 1 .. Len(s)
    BY <2>1
  <2>3. PICK g : g \in Run(s)
    BY <1>1, <1>2, RunExists
  <2>4. Eq(g, s)
    BY <1>2, <2>1, <2>2, <2>3 DEF Runs
  <2>5. Eq(run(s), s)
    <3> HIDE DEF Eq
    <3>1. QED
      BY <2>4
  <2> DEFINE f == run(s)
  <2> HIDE DEF run
  <2>6. /\ f = [i \in 0 .. Len(s) |-> f[i]] /\ f[0] = start
        /\ \A i \in 1 .. Len(s) : f[i - 1] \in TextState => f[i] = step[<<f[i - 1], s[i]>>]
    BY <1>2, <2>1, <2>5
  <2> HIDE DEF f
  <2>7. f \in Run(s)
    BY <1>1, <1>2, <2>6, RunIsRun
  <2>8. QED
    BY <2>7 DEF f
<1>4. \A s : Decoding!DecodeText(pending, s) = run(s)[Len(s)]
  BY DEF Decoding!DecodeText
<1> HIDE DEF run, start, step
<1>5. Decoding!DecodeText(pending, <<>>) = start
  BY <1>3, <1>4, EmptySeq DEF Runs
<1>6. ASSUME NEW s \in Seq(A)
      PROVE  /\ Decoding!DecodeText(pending, s) \in TextState
             /\ \A e \in A : Decoding!DecodeText(pending, Append(s, e)) =
                                 Decoding!DecodeByte(Decoding!DecodeText(pending, s), e)
  <2>1. Decoding!DecodeText(pending, s) \in TextState
    BY <1>3, <1>4 DEF Runs
  <2>2. ASSUME NEW e \in A
        PROVE  Decoding!DecodeText(pending, Append(s, e)) = step[<<Decoding!DecodeText(pending, s), e>>]
    <3>1. Append(s, e) \in Seq(A)
      BY AppendProperties
    <3>2. run(s) \in Run(s) /\ run(Append(s, e)) \in Run(Append(s, e))
      BY <1>3, <3>1
    <3>3. run(Append(s, e))[Len(Append(s, e))] = step[<<run(s)[Len(s)], e>>]
      <4> HIDE DEF A
      <4>1. QED
        BY <3>2, RunGoesOn
    <3>4. QED
      BY <1>4, <3>3
  <2>3. QED
    BY <1>2, <2>1, <2>2
<1>7. QED
  BY <1>5, <1>6 DEF start

\* A character adds to the line, or ends it.
LEMMA CharSplit ==
    ASSUME NEW acc \in SplitState, NEW char \in Letters
    PROVE  Decoding!SplitChar(acc, char) \in SplitState
<1>1. acc.line \in Seq(Letters) /\ acc.lines \in Seq(Seq(Letters)) /\ acc.cr \in BOOLEAN
  BY Zenon DEF SplitState
<1>2. Append(acc.line, char) \in Seq(Letters) /\ Append(acc.lines, acc.line) \in Seq(Seq(Letters))
  BY <1>1
<1>3. (char = "r") \in BOOLEAN /\ <<>> \in Seq(Letters)
  BY EmptySeq
<1>4. acc = [lines |-> acc.lines, line |-> acc.line, cr |-> acc.cr]
  BY DEF SplitState
<1>5. \/ Decoding!SplitChar(acc, char) = [lines |-> acc.lines, line |-> acc.line, cr |-> FALSE]
      \/ Decoding!SplitChar(acc, char) = [lines |-> Append(acc.lines, acc.line), line |-> <<>>, cr |-> char = "r"]
      \/ Decoding!SplitChar(acc, char) = [lines |-> acc.lines, line |-> Append(acc.line, char), cr |-> FALSE]
  BY <1>4 DEF Decoding!SplitChar
<1>6. \A ls \in Seq(Seq(Letters)), l \in Seq(Letters), b \in BOOLEAN :
         [lines |-> ls, line |-> l, cr |-> b] \in SplitState
  BY DEF SplitState
<1>7. QED
  BY <1>1, <1>2, <1>3, <1>5, <1>6, Zenon

\* splitlines, character by character.
LEMMA SplitEquations ==
           /\ Decoding!Split(<<>>) = [lines |-> <<>>, line |-> <<>>, cr |-> FALSE]
           /\ \A s \in Seq(Letters) :
                 /\ Decoding!Split(s) \in SplitState
                 /\ \A e \in Letters :
                       Decoding!Split(Append(s, e)) =
                           Decoding!SplitChar(Decoding!Split(s), e)
<1> DEFINE A == Letters
           start == [lines |-> <<>>, line |-> <<>>, cr |-> FALSE]
           step == [p \in SplitState \X A |-> Decoding!SplitChar(p[1], p[2])]
           Eq(f, s) == f = [i \in 0 .. Len(s) |-> IF i = 0 THEN start
                                                  ELSE Decoding!SplitChar(f[i - 1], s[i])]
           run(s) == CHOOSE f : Eq(f, s)
           Run(s) == Runs(SplitState, step, start, s)
<1>1. start \in SplitState
  BY EmptySeq DEF SplitState
<1>2. step \in [SplitState \X A -> SplitState]
       /\ \A x \in SplitState, y \in A : step[<<x, y>>] = Decoding!SplitChar(x, y)
  BY CharSplit
<1>3. ASSUME NEW s \in Seq(A) PROVE run(s) \in Run(s)
  <2> HIDE DEF step, start, A
  <2>1. Len(s) \in Nat /\ \A i \in 1 .. Len(s) : s[i] \in A /\ i - 1 \in 0 .. Len(s)
    OBVIOUS
  <2>2. \A i \in 0 .. Len(s) : i # 0 => i \in 1 .. Len(s)
    BY <2>1
  <2>3. PICK g : g \in Run(s)
    BY <1>1, <1>2, RunExists
  <2>4. Eq(g, s)
    BY <1>2, <2>1, <2>2, <2>3 DEF Runs
  <2>5. Eq(run(s), s)
    <3> HIDE DEF Eq
    <3>1. QED
      BY <2>4
  <2> DEFINE f == run(s)
  <2> HIDE DEF run
  <2>6. /\ f = [i \in 0 .. Len(s) |-> f[i]] /\ f[0] = start
        /\ \A i \in 1 .. Len(s) : f[i - 1] \in SplitState => f[i] = step[<<f[i - 1], s[i]>>]
    BY <1>2, <2>1, <2>5
  <2> HIDE DEF f
  <2>7. f \in Run(s)
    BY <1>1, <1>2, <2>6, RunIsRun
  <2>8. QED
    BY <2>7 DEF f
<1>4. \A s : Decoding!Split(s) = run(s)[Len(s)]
  BY DEF Decoding!Split
<1> HIDE DEF run, start, step
<1>5. Decoding!Split(<<>>) = start
  BY <1>3, <1>4, EmptySeq DEF Runs
<1>6. ASSUME NEW s \in Seq(A)
      PROVE  /\ Decoding!Split(s) \in SplitState
             /\ \A e \in A : Decoding!Split(Append(s, e)) =
                                 Decoding!SplitChar(Decoding!Split(s), e)
  <2>1. Decoding!Split(s) \in SplitState
    BY <1>3, <1>4 DEF Runs
  <2>2. ASSUME NEW e \in A
        PROVE  Decoding!Split(Append(s, e)) = step[<<Decoding!Split(s), e>>]
    <3>1. Append(s, e) \in Seq(A)
      BY AppendProperties
    <3>2. run(s) \in Run(s) /\ run(Append(s, e)) \in Run(Append(s, e))
      BY <1>3, <3>1
    <3>3. run(Append(s, e))[Len(Append(s, e))] = step[<<run(s)[Len(s)], e>>]
      <4> HIDE DEF A
      <4>1. QED
        BY <3>2, RunGoesOn
    <3>4. QED
      BY <1>4, <3>3
  <2>3. QED
    BY <1>2, <2>1, <2>2
<1>7. QED
  BY <1>5, <1>6 DEF start

\* The wire with its headers, a decoder, and what decoders make of a chunk.
Wire == {"a", "h", "t", "r", "n", "g", "z"}
Decoder == [coding : {"deflate", "gzip", "raw"}, first : BOOLEAN, header : 0 .. 2, failed : BOOLEAN]
DecodedState == [decoders : Seq(Decoder), data : Seq(Wire)]

\* What one decoder makes of a chunk: its header is taken away, and only a raw
\* stream, which has none, can make it fail.
LEMMA Decompressed ==
    ASSUME NEW d \in Decoder, NEW data \in Seq(Wire)
    PROVE  LET step == Decoding!Decompress(d, data)
               taken == IF Len(data) < d.header THEN Len(data) ELSE d.header IN
           /\ step.decoder \in Decoder /\ step.data \in Seq(Wire)
           /\ step.decoder.coding = d.coding
           /\ d.coding # "raw" =>
                 /\ step.data = SubSeq(data, taken + 1, Len(data))
                 /\ step.decoder.failed = d.failed
<1> DEFINE step == Decoding!Decompress(d, data)
           taken == IF Len(data) < d.header THEN Len(data) ELSE d.header
           complete == d.header > 0 /\ taken = d.header
           bad == d.coding = "raw"
<1>1. /\ d.coding \in {"deflate", "gzip", "raw"} /\ d.first \in BOOLEAN /\ d.header \in 0 .. 2
      /\ d.failed \in BOOLEAN
  BY Zenon DEF Decoder
<1>2. d = [coding |-> d.coding, first |-> d.first, header |-> d.header, failed |-> d.failed]
  BY DEF Decoder
<1>3. Len(data) \in Nat /\ taken \in 0 .. d.header /\ taken <= Len(data) /\ d.header - taken \in 0 .. 2
  BY <1>1
<1>4. step = [decoder |-> [coding |-> d.coding, first |-> FALSE,
                           header |-> IF complete /\ bad THEN 0 ELSE d.header - taken,
                           failed |-> d.failed \/ (complete /\ bad /\ ~d.first)],
              data |-> IF complete /\ bad THEN data ELSE SubSeq(data, taken + 1, Len(data))]
  BY Zenon DEF Decoding!Decompress
<1>5. SubSeq(data, taken + 1, Len(data)) \in Seq(Wire)
  <2> HIDE DEF taken
  <2>1. \A i \in taken + 1 .. Len(data) : data[i] \in Wire
    BY <1>1, <1>3
  <2>2. taken + 1 \in Int /\ Len(data) \in Int
    BY <1>1, <1>3
  <2>3. QED
    BY <2>1, <2>2, SubSeqProperties
<1> HIDE DEF step, taken, complete, bad
<1>6. (IF complete /\ bad THEN 0 ELSE d.header - taken) \in 0 .. 2
  BY <1>3
<1>7. (d.failed \/ (complete /\ bad /\ ~d.first)) \in BOOLEAN
  BY Zenon
<1>8. \A c \in {"deflate", "gzip", "raw"}, h \in 0 .. 2, b \in BOOLEAN :
         [coding |-> c, first |-> FALSE, header |-> h, failed |-> b] \in Decoder
  BY DEF Decoder
<1>9. step.decoder \in Decoder
  <2>1. step.decoder = [coding |-> d.coding, first |-> FALSE,
                        header |-> IF complete /\ bad THEN 0 ELSE d.header - taken,
                        failed |-> d.failed \/ (complete /\ bad /\ ~d.first)]
    BY <1>4
  <2>2. QED
    BY <1>1, <1>6, <1>7, <1>8, <2>1, Zenon
<1>10. step.data \in Seq(Wire)
  BY <1>4, <1>5
<1>11. step.decoder.coding = d.coding
  BY <1>4
<1>12. d.coding # "raw" => /\ step.data = SubSeq(data, taken + 1, Len(data))
                          /\ step.decoder.failed = d.failed
  <2>1. ASSUME d.coding # "raw" PROVE step.data = SubSeq(data, taken + 1, Len(data))
    BY <1>4, <2>1 DEF bad
  <2>2. ASSUME d.coding # "raw" PROVE step.decoder.failed = d.failed
    <3>1. step.decoder.failed = (d.failed \/ (complete /\ bad /\ ~d.first))
      BY <1>4
    <3>2. ~bad
      BY <2>2 DEF bad
    <3>3. QED
      BY <1>1, <3>1, <3>2, Zenon
  <2>3. QED
    BY <2>1, <2>2
<1>13. QED
  BY <1>9, <1>10, <1>11, <1>12 DEF step, taken

\* The next decoder works on what the ones before it gave out.
LEMMA DecoderAdded ==
    ASSUME NEW acc \in DecodedState, NEW child \in Decoder
    PROVE  Decoding!AddDecoder(acc, child) \in DecodedState
<1> DEFINE step == Decoding!Decompress(child, acc.data)
<1>1. acc.data \in Seq(Wire) /\ acc.decoders \in Seq(Decoder)
  BY DEF DecodedState
<1>2. step.decoder \in Decoder /\ step.data \in Seq(Wire)
  BY <1>1, Decompressed
<1> HIDE DEF step
<1>3. Append(acc.decoders, step.decoder) \in Seq(Decoder)
  BY <1>1, <1>2
<1>4. QED
  BY <1>2, <1>3 DEF Decoding!AddDecoder, DecodedState, step

\* As many header bytes as are missing.
LEMMA HeaderShape ==
    ASSUME NEW d \in Decoder
    PROVE  /\ Decoding!HeaderOf(d) \in Seq(Wire)
           /\ Len(Decoding!HeaderOf(d)) = IF d.coding = "raw" THEN 0 ELSE d.header
<1>1. d.header \in Nat
  BY DEF Decoder
<1>2. Decoding!Header(d.coding) \in Wire
  BY DEF Decoding!Header, Wire
<1>3. CASE d.coding = "raw"
  BY <1>3, EmptySeq DEF Decoding!HeaderOf
<1>4. CASE d.coding # "raw"
  BY <1>1, <1>2, <1>4 DEF Decoding!HeaderOf
<1>5. QED
  BY <1>3, <1>4

\* Headers one behind the other.
LEMMA HeaderAdded ==
    ASSUME NEW x \in Seq(Wire), NEW child \in Decoder
    PROVE  (x \o Decoding!HeaderOf(child)) \in Seq(Wire)
BY HeaderShape, ConcatProperties

\* The decoders one after the other.
LEMMA DecodeAllEquations ==
    ASSUME NEW raw \in Seq(Wire)
    PROVE  /\ Decoding!DecodeAll(<<>>, raw) = [decoders |-> <<>>, data |-> raw]
           /\ \A s \in Seq(Decoder) :
                 /\ Decoding!DecodeAll(s, raw) \in DecodedState
                 /\ \A e \in Decoder :
                       Decoding!DecodeAll(Append(s, e), raw) =
                           Decoding!AddDecoder(Decoding!DecodeAll(s, raw), e)
<1> DEFINE A == Decoder
           start == [decoders |-> <<>>, data |-> raw]
           step == [p \in DecodedState \X A |-> Decoding!AddDecoder(p[1], p[2])]
           Eq(f, s) == f = [i \in 0 .. Len(s) |-> IF i = 0 THEN start
                                                  ELSE Decoding!AddDecoder(f[i - 1], s[i])]
           run(s) == CHOOSE f : Eq(f, s)
           Run(s) == Runs(DecodedState, step, start, s)
<1>1. start \in DecodedState
  BY EmptySeq DEF DecodedState
<1>2. step \in [DecodedState \X A -> DecodedState]
       /\ \A x \in DecodedState, y \in A : step[<<x, y>>] = Decoding!AddDecoder(x, y)
  BY DecoderAdded
<1>3. ASSUME NEW s \in Seq(A) PROVE run(s) \in Run(s)
  <2> HIDE DEF step, start, A
  <2>1. Len(s) \in Nat /\ \A i \in 1 .. Len(s) : s[i] \in A /\ i - 1 \in 0 .. Len(s)
    OBVIOUS
  <2>2. \A i \in 0 .. Len(s) : i # 0 => i \in 1 .. Len(s)
    BY <2>1
  <2>3. PICK g : g \in Run(s)
    BY <1>1, <1>2, RunExists
  <2>4. Eq(g, s)
    BY <1>2, <2>1, <2>2, <2>3 DEF Runs
  <2>5. Eq(run(s), s)
    <3> HIDE DEF Eq
    <3>1. QED
      BY <2>4
  <2> DEFINE f == run(s)
  <2> HIDE DEF run
  <2>6. /\ f = [i \in 0 .. Len(s) |-> f[i]] /\ f[0] = start
        /\ \A i \in 1 .. Len(s) : f[i - 1] \in DecodedState => f[i] = step[<<f[i - 1], s[i]>>]
    BY <1>2, <2>1, <2>5
  <2> HIDE DEF f
  <2>7. f \in Run(s)
    BY <1>1, <1>2, <2>6, RunIsRun
  <2>8. QED
    BY <2>7 DEF f
<1>4. \A s : Decoding!DecodeAll(s, raw) = run(s)[Len(s)]
  BY DEF Decoding!DecodeAll
<1> HIDE DEF run, start, step
<1>5. Decoding!DecodeAll(<<>>, raw) = start
  BY <1>3, <1>4, EmptySeq DEF Runs
<1>6. ASSUME NEW s \in Seq(A)
      PROVE  /\ Decoding!DecodeAll(s, raw) \in DecodedState
             /\ \A e \in A : Decoding!DecodeAll(Append(s, e), raw) =
                                 Decoding!AddDecoder(Decoding!DecodeAll(s, raw), e)
  <2>1. Decoding!DecodeAll(s, raw) \in DecodedState
    BY <1>3, <1>4 DEF Runs
  <2>2. ASSUME NEW e \in A
        PROVE  Decoding!DecodeAll(Append(s, e), raw) = step[<<Decoding!DecodeAll(s, raw), e>>]
    <3>1. Append(s, e) \in Seq(A)
      BY AppendProperties
    <3>2. run(s) \in Run(s) /\ run(Append(s, e)) \in Run(Append(s, e))
      BY <1>3, <3>1
    <3>3. run(Append(s, e))[Len(Append(s, e))] = step[<<run(s)[Len(s)], e>>]
      <4> HIDE DEF A
      <4>1. QED
        BY <3>2, RunGoesOn
    <3>4. QED
      BY <1>4, <3>3
  <2>3. QED
    BY <1>2, <2>1, <2>2
<1>7. QED
  BY <1>5, <1>6 DEF start

\* The headers one after the other.
LEMMA HeaderEquations ==
           /\ Decoding!HeadersOf(<<>>) = <<>>
           /\ \A s \in Seq(Decoder) :
                 /\ Decoding!HeadersOf(s) \in Seq(Wire)
                 /\ \A e \in Decoder :
                       Decoding!HeadersOf(Append(s, e)) =
                           (Decoding!HeadersOf(s) \o Decoding!HeaderOf(e))
<1> DEFINE A == Decoder
           start == <<>>
           step == [p \in Seq(Wire) \X A |-> (p[1] \o Decoding!HeaderOf(p[2]))]
           Eq(f, s) == f = [i \in 0 .. Len(s) |-> IF i = 0 THEN start
                                                  ELSE (f[i - 1] \o Decoding!HeaderOf(s[i]))]
           run(s) == CHOOSE f : Eq(f, s)
           Run(s) == Runs(Seq(Wire), step, start, s)
<1>1. start \in Seq(Wire)
  BY EmptySeq
<1>2. step \in [Seq(Wire) \X A -> Seq(Wire)]
       /\ \A x \in Seq(Wire), y \in A : step[<<x, y>>] = (x \o Decoding!HeaderOf(y))
  BY HeaderAdded
<1>3. ASSUME NEW s \in Seq(A) PROVE run(s) \in Run(s)
  <2> HIDE DEF step, start, A
  <2>1. Len(s) \in Nat /\ \A i \in 1 .. Len(s) : s[i] \in A /\ i - 1 \in 0 .. Len(s)
    OBVIOUS
  <2>2. \A i \in 0 .. Len(s) : i # 0 => i \in 1 .. Len(s)
    BY <2>1
  <2>3. PICK g : g \in Run(s)
    BY <1>1, <1>2, RunExists
  <2>4. Eq(g, s)
    BY <1>2, <2>1, <2>2, <2>3 DEF Runs
  <2>5. Eq(run(s), s)
    <3> HIDE DEF Eq
    <3>1. QED
      BY <2>4
  <2> DEFINE f == run(s)
  <2> HIDE DEF run
  <2>6. /\ f = [i \in 0 .. Len(s) |-> f[i]] /\ f[0] = start
        /\ \A i \in 1 .. Len(s) : f[i - 1] \in Seq(Wire) => f[i] = step[<<f[i - 1], s[i]>>]
    <3>1. f = [i \in 0 .. Len(s) |-> f[i]]
      BY <2>5
    <3>2. f[0] = start
      BY <2>1, <2>5
    <3>3. \A i \in 1 .. Len(s) : f[i] = f[i - 1] \o Decoding!HeaderOf(s[i])
      BY <2>1, <2>5
    <3> HIDE DEF f
    <3>4. QED
      BY <1>2, <2>1, <3>1, <3>2, <3>3
  <2> HIDE DEF f
  <2>7. f \in Run(s)
    BY <1>1, <1>2, <2>6, RunIsRun
  <2>8. QED
    BY <2>7 DEF f
<1>4. \A s : Decoding!HeadersOf(s) = run(s)[Len(s)]
  BY DEF Decoding!HeadersOf
<1> HIDE DEF run, start, step
<1>5. Decoding!HeadersOf(<<>>) = start
  BY <1>3, <1>4, EmptySeq DEF Runs
<1>6. ASSUME NEW s \in Seq(A)
      PROVE  /\ Decoding!HeadersOf(s) \in Seq(Wire)
             /\ \A e \in A : Decoding!HeadersOf(Append(s, e)) =
                                 (Decoding!HeadersOf(s) \o Decoding!HeaderOf(e))
  <2>1. Decoding!HeadersOf(s) \in Seq(Wire)
    BY <1>3, <1>4 DEF Runs
  <2>2. ASSUME NEW e \in A
        PROVE  Decoding!HeadersOf(Append(s, e)) = step[<<Decoding!HeadersOf(s), e>>]
    <3>1. Append(s, e) \in Seq(A)
      BY AppendProperties
    <3>2. run(s) \in Run(s) /\ run(Append(s, e)) \in Run(Append(s, e))
      BY <1>3, <3>1
    <3>3. run(Append(s, e))[Len(Append(s, e))] = step[<<run(s)[Len(s)], e>>]
      <4> HIDE DEF A
      <4>1. QED
        BY <3>2, RunGoesOn
    <3>4. QED
      BY <1>4, <3>3
  <2>3. QED
    BY <1>2, <2>1, <2>2
<1>7. QED
  BY <1>5, <1>6 DEF start

-----------------------------------------------------------------------------
(* Cutting the text.                                                        *)

\* Putting texts together.
LEMMA AppendBehind ==
    \A p \in Seq(Letters), q \in Seq(Letters), e \in Letters : Append(p \o q, e) = p \o Append(q, e)
OBVIOUS

\* Texts can be put together from either end.
LEMMA ThreeTexts ==
    \A p \in Seq(Letters), q \in Seq(Letters), r \in Seq(Letters) : (p \o q) \o r = p \o (q \o r)
OBVIOUS

\* Two texts make a text.
LEMMA TwoTexts == \A p \in Seq(Letters), q \in Seq(Letters) : p \o q \in Seq(Letters)
OBVIOUS

\* The empty text adds nothing.
LEMMA NoText == \A p \in Seq(Letters) : p \o <<>> = p /\ <<>> \o p = p
OBVIOUS

\* A letter more.
LEMMA LongerText == \A p \in Seq(Letters), e \in Letters : Append(p, e) \in Seq(Letters) /\ Append(p, e) # <<>>
BY AppendProperties

\* The byte is decoded in the same way behind another text.
LEMMA ByteBehind ==
    ASSUME NEW t \in Seq(Letters), NEW v \in TextState, NEW c \in Decoding!Symbols
    PROVE  Decoding!DecodeByte([lead |-> v.lead, text |-> t \o v.text], c) =
              [lead |-> Decoding!DecodeByte(v, c).lead, text |-> t \o Decoding!DecodeByte(v, c).text]
<1> DEFINE u == [lead |-> v.lead, text |-> t \o v.text]
           bad == IF v.lead THEN <<"?">> ELSE <<>>
           char == IF v.lead THEN "e" ELSE "?"
<1>1. v.text \in Seq(Letters)
  BY DEF TextState
<1>2. bad \in Seq(Letters) /\ char \in Letters
  <2>1. "e" \in Letters /\ "?" \in Letters
    BY DEF Letters
  <2>2. <<"?">> \in Seq(Letters) /\ <<>> \in Seq(Letters)
    BY <2>1, EmptySeq
  <2>3. QED
    BY <2>1, <2>2
<1>3. u.lead = v.lead /\ u.text = t \o v.text
  OBVIOUS
<1> HIDE DEF u
<1>4. CASE c = "t"
  <2>1. Decoding!DecodeByte(u, c) = [lead |-> FALSE, text |-> Append(t \o v.text, char)]
    BY <1>3, <1>4 DEF Decoding!DecodeByte
  <2>2. Decoding!DecodeByte(v, c) = [lead |-> FALSE, text |-> Append(v.text, char)]
    BY <1>4 DEF Decoding!DecodeByte
  <2> HIDE DEF char
  <2>3. Append(t \o v.text, char) = t \o Append(v.text, char)
    BY <1>1, <1>2, AppendBehind
  <2>4. QED
    BY <2>1, <2>2, <2>3 DEF u
<1>5. CASE c = "h"
  <2>1. Decoding!DecodeByte(u, c) = [lead |-> TRUE, text |-> (t \o v.text) \o bad]
    BY <1>3, <1>5 DEF Decoding!DecodeByte
  <2>2. Decoding!DecodeByte(v, c) = [lead |-> TRUE, text |-> v.text \o bad]
    BY <1>5 DEF Decoding!DecodeByte
  <2> HIDE DEF bad
  <2>3. (t \o v.text) \o bad = t \o (v.text \o bad)
    BY <1>1, <1>2, ThreeTexts
  <2>4. QED
    BY <2>1, <2>2, <2>3 DEF u
<1>6. CASE c \notin {"t", "h"}
  <2>1. Decoding!DecodeByte(u, c) = [lead |-> FALSE, text |-> Append((t \o v.text) \o bad, c)]
    BY <1>3, <1>6 DEF Decoding!DecodeByte
  <2>2. Decoding!DecodeByte(v, c) = [lead |-> FALSE, text |-> Append(v.text \o bad, c)]
    BY <1>6 DEF Decoding!DecodeByte
  <2> HIDE DEF bad
  <2>3. (t \o v.text) \o bad = t \o (v.text \o bad)
    BY <1>1, <1>2, ThreeTexts
  <2>7. v.text \o bad \in Seq(Letters)
    BY <1>1, <1>2, TwoTexts
  <2>4. c \in Letters
    BY <1>6 DEF Decoding!Symbols, Letters
  <2>5. Append((t \o v.text) \o bad, c) = t \o Append(v.text \o bad, c)
    BY <2>3, <2>4, <2>7, AppendBehind
  <2>6. QED
    BY <2>1, <2>2, <2>5 DEF u
<1>7. QED
  BY <1>4, <1>5, <1>6 DEF u

\* The text decoder goes on where it stopped.
LEMMA TextCut ==
    ASSUME NEW pending \in BOOLEAN, NEW a \in Seq(Decoding!Symbols)
    PROVE  \A b \in Seq(Decoding!Symbols) :
              LET x == Decoding!DecodeText(pending, a)
                  y == Decoding!DecodeText(x.lead, b) IN
              Decoding!DecodeText(pending, a \o b) = [lead |-> y.lead, text |-> x.text \o y.text]
<1> DEFINE S == Decoding!Symbols
           x == Decoding!DecodeText(pending, a)
           y(b) == Decoding!DecodeText(x.lead, b)
           W == {b \in Seq(S) : Decoding!DecodeText(pending, a \o b) =
                                   [lead |-> y(b).lead, text |-> x.text \o y(b).text]}
<1>1. x \in TextState
  BY TextEquations
<1>2. x.text \in Seq(Letters) /\ x = [lead |-> x.lead, text |-> x.text]
  BY <1>1 DEF TextState
<1>3. x.lead \in BOOLEAN
  BY <1>1, Zenon DEF TextState
<1>4. y(<<>>) = [lead |-> x.lead, text |-> <<>>]
  BY <1>3, TextEquations
<1>5. \A b \in Seq(S) : y(b) \in TextState
  BY <1>3, TextEquations
<1>6. <<>> \in W
  <2>1. <<>> \in Seq(S) /\ a \o <<>> = a /\ x.text \o <<>> = x.text
    BY <1>2, EmptySeq, ConcatEmptySeq
  <2>2. Decoding!DecodeText(pending, a \o <<>>) = x
    BY <2>1
  <2> HIDE DEF x, y
  <2>3. y(<<>>).lead = x.lead /\ y(<<>>).text = <<>>
    BY <1>4
  <2>4. QED
    BY <1>2, <2>1, <2>2, <2>3
<1>7. ASSUME NEW b \in Seq(S), NEW c \in S, b \in W PROVE Append(b, c) \in W
  <2> DEFINE u == [lead |-> y(b).lead, text |-> x.text \o y(b).text]
  <2>1. a \o b \in Seq(S) /\ Append(a \o b, c) = a \o Append(b, c) /\ Append(b, c) \in Seq(S)
    <3>1. a \o b \in Seq(S)
      OBVIOUS
    <3>2. Append(b, c) \in Seq(S)
      OBVIOUS
    <3>3. Append(a \o b, c) = a \o Append(b, c)
      OBVIOUS
    <3>4. QED
      BY <3>1, <3>2, <3>3
  <2>2. Decoding!DecodeText(pending, a \o Append(b, c)) = Decoding!DecodeByte(u, c)
    BY <1>7, <2>1, TextEquations, Zenon
  <2>3. y(Append(b, c)) = Decoding!DecodeByte(y(b), c)
    BY <1>3, TextEquations
  <2>4. y(b) \in TextState
    BY <1>5
  <2> HIDE DEF x, y
  <2>5. Decoding!DecodeByte(u, c) =
           [lead |-> Decoding!DecodeByte(y(b), c).lead, text |-> x.text \o Decoding!DecodeByte(y(b), c).text]
    BY <1>2, <2>4, ByteBehind
  <2>6. QED
    BY <2>1, <2>2, <2>3, <2>5
<1>8. Seq(S) \subseteq W
  <2> HIDE DEF W
  <2>1. QED
    BY <1>6, <1>7, AllSequences
<1>9. QED
  BY <1>8

\* What splitlines makes of a text: the lines that have ended, and the one that
\* has not.
LEMMA SplitShape ==
    \A s \in Seq(Letters) :
       LET split == Decoding!Split(s) IN
       /\ split.cr = (s # <<>> /\ s[Len(s)] = "r")
       /\ s = <<>> => split.line = <<>> /\ split.lines = <<>>
       /\ s # <<>> => (split.line = <<>> <=> s[Len(s)] \in {"r", "n"})
       /\ s # <<>> /\ split.line = <<>> => split.lines # <<>>
<1> DEFINE B(s) == Decoding!Split(s)
           Ends(s, b) == /\ b.cr = (s # <<>> /\ s[Len(s)] = "r")
                         /\ s = <<>> => b.line = <<>> /\ b.lines = <<>>
                         /\ s # <<>> => (b.line = <<>> <=> s[Len(s)] \in {"r", "n"})
                         /\ s # <<>> /\ b.line = <<>> => b.lines # <<>>
           W == {s \in Seq(Letters) : Ends(s, B(s))}
<1>1. <<>> \in W
  <2>1. B(<<>>) = [lines |-> <<>>, line |-> <<>>, cr |-> FALSE] /\ <<>> \in Seq(Letters)
    BY SplitEquations, EmptySeq
  <2> DEFINE b == B(<<>>)
  <2>2. b.lines = <<>> /\ b.line = <<>> /\ b.cr = FALSE
    BY <2>1
  <2> HIDE DEF b
  <2>3. Ends(<<>>, b)
    BY <2>2, Zenon
  <2>4. QED
    BY <2>1, <2>3 DEF b
<1>2. ASSUME NEW s \in Seq(Letters), NEW c \in Letters, s \in W PROVE Append(s, c) \in W
  <2> DEFINE u == Append(s, c)
             b == B(s)
             d == B(u)
  <2>1. u \in Seq(Letters) /\ u # <<>> /\ u[Len(u)] = c
    BY AppendProperties
  <2>2. b \in SplitState /\ d = Decoding!SplitChar(b, c)
    BY SplitEquations
  <2>3. Ends(s, b)
    BY <1>2
  <2> HIDE DEF u, b, d
  <2>4. b.line \in Seq(Letters) /\ b.lines \in Seq(Seq(Letters))
    BY <2>2 DEF SplitState
  <2>5. Append(b.line, c) # <<>> /\ Append(b.lines, b.line) # <<>>
    <3>1. Append(b.line, c) # <<>>
      BY <2>4, AppendProperties
    <3>2. Append(b.lines, b.line) # <<>>
      BY <2>4, AppendProperties
    <3>3. QED
      BY <3>1, <3>2
  <2>6. b.cr \in BOOLEAN
    BY <2>2, Zenon DEF SplitState
  <2>7. Ends(u, d)
    <3>1. CASE c = "n" /\ b.cr
      <4>1. d.line = b.line /\ d.lines = b.lines /\ d.cr = FALSE
        BY <2>2, <3>1 DEF Decoding!SplitChar, SplitState
      <4>2. s # <<>> /\ b.line = <<>> /\ b.lines # <<>>
        BY <2>3, <3>1
      <4>3. QED
        BY <2>1, <3>1, <4>1, <4>2
    <3>2. CASE c \in {"r", "n"} /\ ~(c = "n" /\ b.cr)
      <4>1. d = [lines |-> Append(b.lines, b.line), line |-> <<>>, cr |-> c = "r"]
        BY <2>2, <3>2 DEF Decoding!SplitChar, Decoding!Newlines
      <4>2. QED
        BY <2>1, <2>5, <3>2, <4>1
    <3>3. CASE c \notin {"r", "n"}
      <4>1. d.line = Append(b.line, c) /\ d.cr = FALSE
        BY <2>2, <3>3 DEF Decoding!SplitChar, Decoding!Newlines, SplitState
      <4>2. QED
        BY <2>1, <2>5, <3>3, <4>1
    <3>4. QED
      BY <3>1, <3>2, <3>3
  <2>8. QED
    BY <2>1, <2>7 DEF u, d
<1>3. Seq(Letters) \subseteq W
  <2> HIDE DEF W
  <2>1. QED
    BY <1>1, <1>2, AllSequences
<1>4. QED
  BY <1>3

\* A text that goes on where another has stopped.
Continued(a, b) ==
    [lines |-> IF b.lines = <<>> THEN a.lines ELSE a.lines \o (<<a.line \o b.lines[1]>> \o Tail(b.lines)),
     line |-> IF b.lines = <<>> THEN a.line \o b.line ELSE b.line,
     cr |-> b.cr]

\* A line is a text.
Strings == Seq(Letters)

\* Putting lines together.
LEMMA LineBehind ==
    \A p \in Seq(Strings), q \in Seq(Strings), e \in Strings : Append(p \o q, e) = p \o Append(q, e)
OBVIOUS

\* A sequence of lines and one line more.
LEMMA LineAppended ==
    \A q \in Seq(Strings), e \in Strings :
       /\ Append(q, e) \in Seq(Strings) /\ Append(q, e) # <<>>
       /\ q # <<>> => Append(q, e)[1] = q[1] /\ Tail(Append(q, e)) = Append(Tail(q), e)
       /\ q # <<>> => q[1] \in Strings /\ Tail(q) \in Seq(Strings)
<1> SUFFICES ASSUME NEW q \in Seq(Strings), NEW e \in Strings
             PROVE  /\ Append(q, e) \in Seq(Strings) /\ Append(q, e) # <<>>
                    /\ q # <<>> => Append(q, e)[1] = q[1] /\ Tail(Append(q, e)) = Append(Tail(q), e)
                    /\ q # <<>> => q[1] \in Strings /\ Tail(q) \in Seq(Strings)
  OBVIOUS
<1>1. Append(q, e) \in Seq(Strings) /\ Append(q, e) # <<>>
  BY AppendProperties
<1>2. ASSUME q # <<>> PROVE q[1] \in Strings /\ Append(q, e)[1] = q[1]
  <2>1. 1 \in 1 .. Len(q)
    BY <1>2, EmptySeq
  <2>2. QED
    BY <2>1, AppendProperties
<1>3. ASSUME q # <<>> PROVE Tail(q) \in Seq(Strings) /\ Tail(Append(q, e)) = Append(Tail(q), e)
  BY <1>3, HeadTailProperties, HeadTailAppend
<1>4. QED
  BY <1>1, <1>2, <1>3

\* So can lists of lines.
LEMMA LinesTogether ==
    \A p \in Seq(Strings), e \in Strings, q \in Seq(Strings) :
       p \o (<<e>> \o q) \in Seq(Strings) /\ <<e>> \o q \in Seq(Strings)
<1> SUFFICES ASSUME NEW p \in Seq(Strings), NEW e \in Strings, NEW q \in Seq(Strings)
             PROVE  p \o (<<e>> \o q) \in Seq(Strings) /\ <<e>> \o q \in Seq(Strings)
  OBVIOUS
<1>1. <<e>> \in Seq(Strings)
  OBVIOUS
<1>2. <<e>> \o q \in Seq(Strings)
  BY <1>1, ConcatProperties
<1>3. p \o (<<e>> \o q) \in Seq(Strings)
  BY <1>2, ConcatProperties
<1>4. QED
  BY <1>2, <1>3

\* A list of one line.
LEMMA OneLine ==
    \A p \in Seq(Strings), e \in Strings : p \o (<<e>> \o <<>>) = Append(p, e)
<1> SUFFICES ASSUME NEW p \in Seq(Strings), NEW e \in Strings
             PROVE  p \o (<<e>> \o <<>>) = Append(p, e)
  OBVIOUS
<1>1. <<e>> \in Seq(Strings)
  OBVIOUS
<1>2. <<e>> \o <<>> = <<e>>
  BY <1>1, ConcatEmptySeq
<1>3. p \o <<e>> = Append(p, e)
  BY AppendIsConcat
<1>4. QED
  BY <1>2, <1>3

\* The three things a character can do.
LEMMA CharCases ==
    ASSUME NEW acc \in SplitState, NEW char \in Letters
    PROVE  Decoding!SplitChar(acc, char) =
              IF char = "n" /\ acc.cr THEN [lines |-> acc.lines, line |-> acc.line, cr |-> FALSE]
              ELSE IF char \in {"r", "n"}
                   THEN [lines |-> Append(acc.lines, acc.line), line |-> <<>>, cr |-> char = "r"]
                   ELSE [lines |-> acc.lines, line |-> Append(acc.line, char), cr |-> FALSE]
<1>1. CASE char = "n" /\ acc.cr
  BY <1>1 DEF Decoding!SplitChar
<1>2. CASE char \in {"r", "n"} /\ ~(char = "n" /\ acc.cr)
  BY <1>2 DEF Decoding!SplitChar, Decoding!Newlines
<1>3. CASE char \notin {"r", "n"}
  BY <1>3 DEF Decoding!SplitChar, Decoding!Newlines
<1>4. QED
  BY <1>1, <1>2, <1>3

\* The parts of what has been split.
LEMMA StateParts ==
    ASSUME NEW a \in SplitState
    PROVE  /\ a.lines \in Seq(Strings) /\ a.line \in Strings /\ a.cr \in BOOLEAN
           /\ a = [lines |-> a.lines, line |-> a.line, cr |-> a.cr]
<1>1. a.lines \in Seq(Strings) /\ a.line \in Strings /\ a.cr \in BOOLEAN
  BY Zenon DEF SplitState, Strings
<1>2. a = [lines |-> a.lines, line |-> a.line, cr |-> a.cr]
  BY DEF SplitState
<1>3. QED
  BY <1>1, <1>2

\* A text split in two parts is a split text.
LEMMA ContinuedState ==
    ASSUME NEW a \in SplitState, NEW b \in SplitState
    PROVE  Continued(a, b) \in SplitState
<1>1. /\ a.lines \in Seq(Strings) /\ a.line \in Strings
      /\ b.lines \in Seq(Strings) /\ b.line \in Strings /\ b.cr \in BOOLEAN
  BY StateParts
<1>2. a.line \o b.line \in Strings
  BY <1>1, TwoTexts DEF Strings
<1>3. b.lines # <<>> => /\ a.line \o b.lines[1] \in Strings /\ Tail(b.lines) \in Seq(Strings)
  BY <1>1, LineAppended, TwoTexts DEF Strings
<1>4. b.lines # <<>> => a.lines \o (<<a.line \o b.lines[1]>> \o Tail(b.lines)) \in Seq(Strings)
  BY <1>1, <1>3, LinesTogether
<1>5. \A ls \in Seq(Strings), l \in Strings, x \in BOOLEAN :
         [lines |-> ls, line |-> l, cr |-> x] \in SplitState
  BY DEF SplitState, Strings
<1>6. CASE b.lines = <<>>
  <2>1. Continued(a, b) = [lines |-> a.lines, line |-> a.line \o b.line, cr |-> b.cr]
    BY <1>6 DEF Continued
  <2>2. QED
    BY <1>1, <1>2, <1>5, <2>1, Zenon
<1>7. CASE b.lines # <<>>
  <2>1. Continued(a, b) = [lines |-> a.lines \o (<<a.line \o b.lines[1]>> \o Tail(b.lines)),
                           line |-> b.line, cr |-> b.cr]
    BY <1>7 DEF Continued
  <2>2. QED
    BY <1>1, <1>4, <1>5, <1>7, <2>1, Zenon
<1>8. QED
  BY <1>6, <1>7

\* A character does the same in both.
LEMMA CharContinues ==
    ASSUME NEW a \in SplitState, NEW b \in SplitState, NEW char \in Letters
    PROVE  Decoding!SplitChar(Continued(a, b), char) = Continued(a, Decoding!SplitChar(b, char))
<1> DEFINE u == Continued(a, b)
           d == Decoding!SplitChar(b, char)
           first == a.line \o b.lines[1]
<1>1. /\ a.lines \in Seq(Strings) /\ a.line \in Strings
      /\ b.lines \in Seq(Strings) /\ b.line \in Strings /\ b.cr \in BOOLEAN
  BY StateParts
<1>2. u \in SplitState /\ u.cr = b.cr
  BY ContinuedState DEF Continued
<1>3. b.lines = <<>> => u.lines = a.lines /\ u.line = a.line \o b.line
  BY DEF Continued
<1>4. b.lines # <<>> => u.lines = a.lines \o (<<first>> \o Tail(b.lines)) /\ u.line = b.line
  BY DEF Continued
<1>5. b.lines # <<>> => first \in Strings /\ Tail(b.lines) \in Seq(Strings)
  BY <1>1, LineAppended, TwoTexts DEF Strings
<1> HIDE DEF u, d
<1>6. ASSUME char = "n" /\ b.cr
      PROVE  Decoding!SplitChar(u, char) = Continued(a, d)
  <2>1. Decoding!SplitChar(u, char) = [lines |-> u.lines, line |-> u.line, cr |-> FALSE]
    BY <1>2, <1>6, CharCases
  <2>2. d = [lines |-> b.lines, line |-> b.line, cr |-> FALSE]
    BY <1>6, CharCases DEF d
  <2> HIDE DEF first
  <2>3. d.lines = b.lines /\ d.line = b.line /\ d.cr = FALSE
    BY <2>2
  <2>4. CASE b.lines = <<>>
    BY <1>3, <2>1, <2>3, <2>4 DEF Continued
  <2>5. CASE b.lines # <<>>
    BY <1>4, <2>1, <2>3, <2>5 DEF Continued, first
  <2>6. QED
    BY <2>4, <2>5
<1>7. ASSUME char \in {"r", "n"} /\ ~(char = "n" /\ b.cr)
      PROVE  Decoding!SplitChar(u, char) = Continued(a, d)
  <2>1. Decoding!SplitChar(u, char) = [lines |-> Append(u.lines, u.line), line |-> <<>>, cr |-> char = "r"]
    BY <1>2, <1>7, CharCases
  <2>2. d = [lines |-> Append(b.lines, b.line), line |-> <<>>, cr |-> char = "r"]
    BY <1>7, CharCases DEF d
  <2> HIDE DEF first
  <2>3. d.lines = Append(b.lines, b.line) /\ d.line = <<>> /\ d.cr = (char = "r") /\ d.lines # <<>>
    <3>1. d.lines = Append(b.lines, b.line) /\ d.line = <<>> /\ d.cr = (char = "r")
      BY <2>2
    <3>2. QED
      BY <1>1, <3>1, LineAppended
  <2>4. CASE b.lines = <<>>
    <3>1. d.lines[1] = b.line /\ Tail(d.lines) = <<>>
      BY <1>1, <2>3, <2>4
    <3>2. Continued(a, d).lines = a.lines \o (<<a.line \o b.line>> \o <<>>)
      BY <2>3, <3>1 DEF Continued
    <3>3. a.line \o b.line \in Strings
      BY <1>1, TwoTexts DEF Strings
    <3>4. Continued(a, d).lines = Append(u.lines, u.line)
      BY <1>1, <1>3, <2>4, <3>2, <3>3, OneLine
    <3>5. Continued(a, d) = [lines |-> Continued(a, d).lines, line |-> <<>>, cr |-> char = "r"]
      BY <2>3 DEF Continued
    <3>6. QED
      BY <2>1, <3>4, <3>5
  <2>5. CASE b.lines # <<>>
    <3>1. d.lines[1] = b.lines[1] /\ Tail(d.lines) = Append(Tail(b.lines), b.line)
      BY <1>1, <2>3, <2>5, LineAppended
    <3>2. Continued(a, d).lines = a.lines \o (<<first>> \o Append(Tail(b.lines), b.line))
      BY <2>3, <3>1 DEF Continued, first
    <3>3. <<first>> \in Seq(Strings) /\ <<first>> \o Tail(b.lines) \in Seq(Strings)
      BY <1>5, <2>5, LinesTogether
    <3>4. <<first>> \o Append(Tail(b.lines), b.line) = Append(<<first>> \o Tail(b.lines), b.line)
      BY <1>1, <1>5, <2>5, <3>3, LineBehind
    <3>8. Append(a.lines \o (<<first>> \o Tail(b.lines)), b.line) =
             a.lines \o Append(<<first>> \o Tail(b.lines), b.line)
      BY <1>1, <3>3, LineBehind
    <3>5. Continued(a, d).lines = Append(u.lines, u.line)
      BY <1>4, <2>5, <3>2, <3>4, <3>8
    <3>6. Continued(a, d) = [lines |-> Continued(a, d).lines, line |-> <<>>, cr |-> char = "r"]
      BY <2>3 DEF Continued
    <3>7. QED
      BY <2>1, <3>5, <3>6
  <2>6. QED
    BY <2>4, <2>5
<1>8. ASSUME char \notin {"r", "n"}
      PROVE  Decoding!SplitChar(u, char) = Continued(a, d)
  <2>1. Decoding!SplitChar(u, char) = [lines |-> u.lines, line |-> Append(u.line, char), cr |-> FALSE]
    BY <1>2, <1>8, CharCases
  <2>2. d = [lines |-> b.lines, line |-> Append(b.line, char), cr |-> FALSE]
    BY <1>8, CharCases DEF d
  <2>3. d.lines = b.lines /\ d.line = Append(b.line, char) /\ d.cr = FALSE
    BY <2>2
  <2>4. CASE b.lines = <<>>
    <3>1. a.line \o Append(b.line, char) = Append(a.line \o b.line, char)
      BY <1>1, AppendBehind DEF Strings
    <3>2. Continued(a, d) = [lines |-> a.lines, line |-> a.line \o Append(b.line, char), cr |-> FALSE]
      BY <2>3, <2>4 DEF Continued
    <3>3. QED
      BY <1>3, <2>1, <2>4, <3>1, <3>2
  <2>5. CASE b.lines # <<>>
    <3>1. Continued(a, d) = [lines |-> a.lines \o (<<first>> \o Tail(b.lines)),
                             line |-> Append(b.line, char), cr |-> FALSE]
      BY <2>3, <2>5 DEF Continued
    <3>2. QED
      BY <1>4, <2>1, <2>5, <3>1
  <2>6. QED
    BY <2>4, <2>5
<1>9. QED
  BY <1>6, <1>7, <1>8 DEF u, d

\* Nothing has been split yet.
NoSplit == [lines |-> <<>>, line |-> <<>>, cr |-> FALSE]

\* The first character of a text that goes on.
LEMMA FirstContinues ==
    ASSUME NEW a \in SplitState, NEW char \in Letters, ~(a.cr /\ char = "n")
    PROVE  Decoding!SplitChar(a, char) = Continued(a, Decoding!SplitChar(NoSplit, char))
<1> DEFINE d == Decoding!SplitChar(NoSplit, char)
<1>1. a.lines \in Seq(Strings) /\ a.line \in Strings
  BY StateParts
<1>2. NoSplit \in SplitState /\ NoSplit.lines = <<>> /\ NoSplit.line = <<>> /\ NoSplit.cr = FALSE
  BY EmptySeq DEF NoSplit, SplitState
<1>3. CASE char \in {"r", "n"}
  <2>1. d = [lines |-> Append(<<>>, <<>>), line |-> <<>>, cr |-> char = "r"]
    BY <1>2, <1>3, CharCases
  <2> HIDE DEF d
  <2>2. <<>> \in Seq(Strings) /\ <<>> \in Strings
    BY EmptySeq DEF Strings
  <2>3. d.lines = Append(<<>>, <<>>) /\ d.line = <<>> /\ d.cr = (char = "r")
    BY <2>1
  <2>4. d.lines # <<>> /\ d.lines[1] = <<>> /\ Tail(d.lines) = <<>>
    BY <2>3
  <2>5. a.line \o <<>> = a.line
    BY <1>1, NoText DEF Strings
  <2>6. a.lines \o (<<a.line>> \o <<>>) = Append(a.lines, a.line)
    BY <1>1, OneLine
  <2>7. Continued(a, d) = [lines |-> a.lines \o (<<a.line \o <<>>>> \o <<>>),
                           line |-> <<>>, cr |-> char = "r"]
    BY <2>3, <2>4 DEF Continued
  <2>8. Decoding!SplitChar(a, char) = [lines |-> Append(a.lines, a.line), line |-> <<>>, cr |-> char = "r"]
    BY <1>3, CharCases
  <2>9. QED
    BY <2>5, <2>6, <2>7, <2>8 DEF d
<1>4. CASE char \notin {"r", "n"}
  <2>1. d = [lines |-> <<>>, line |-> Append(<<>>, char), cr |-> FALSE]
    BY <1>2, <1>4, CharCases
  <2> HIDE DEF d
  <2>2. d.lines = <<>> /\ d.line = Append(<<>>, char) /\ d.cr = FALSE
    BY <2>1
  <2>3. Continued(a, d) = [lines |-> a.lines, line |-> a.line \o Append(<<>>, char), cr |-> FALSE]
    BY <2>2 DEF Continued
  <2>4. a.line \o Append(<<>>, char) = Append(a.line, char)
    <3>1. <<>> \in Strings
      BY EmptySeq DEF Strings
    <3>2. Append(a.line \o <<>>, char) = a.line \o Append(<<>>, char) /\ a.line \o <<>> = a.line
      BY <1>1, <3>1, AppendBehind, NoText DEF Strings
    <3>3. QED
      BY <3>2
  <2>5. Decoding!SplitChar(a, char) = [lines |-> a.lines, line |-> Append(a.line, char), cr |-> FALSE]
    BY <1>4, CharCases
  <2>6. QED
    BY <2>3, <2>4, <2>5 DEF d
<1>5. QED
  BY <1>3, <1>4

\* A text that goes on begins as it did.
LEMMA FirstOfLonger ==
    \A s \in Seq(Letters), e \in Letters :
       Append(s, e)[1] = IF s = <<>> THEN e ELSE s[1]
<1> SUFFICES ASSUME NEW s \in Seq(Letters), NEW e \in Letters
             PROVE  Append(s, e)[1] = IF s = <<>> THEN e ELSE s[1]
  OBVIOUS
<1>1. CASE s = <<>>
  BY <1>1
<1>2. CASE s # <<>>
  <2>1. 1 \in 1 .. Len(s)
    BY <1>2, EmptySeq
  <2>2. QED
    BY <1>2, <2>1, AppendProperties
<1>3. QED
  BY <1>1, <1>2

\* Lines do not care where the text was cut, unless between CR and LF.
LEMMA SplitCut ==
    ASSUME NEW v \in Seq(Letters)
    PROVE  \A w \in Seq(Letters) :
              w # <<>> /\ ~(Decoding!Split(v).cr /\ w[1] = "n") =>
                 Decoding!Split(v \o w) = Continued(Decoding!Split(v), Decoding!Split(w))
<1> DEFINE a == Decoding!Split(v)
           B(w) == Decoding!Split(w)
           Good(w) == w # <<>> /\ ~(a.cr /\ w[1] = "n") => Decoding!Split(v \o w) = Continued(a, B(w))
           W == {w \in Seq(Letters) : Good(w)}
<1>1. a \in SplitState
  BY SplitEquations
<1>2. <<>> \in W
  BY EmptySeq
<1>3. ASSUME NEW w \in Seq(Letters), NEW c \in Letters, w \in W PROVE Append(w, c) \in W
  <2> DEFINE z == Append(w, c)
  <2>1. z \in Seq(Letters) /\ v \o w \in Seq(Letters) /\ v \o z = Append(v \o w, c)
    BY LongerText, TwoTexts, AppendBehind
  <2>2. Decoding!Split(v \o z) = Decoding!SplitChar(Decoding!Split(v \o w), c)
    BY <2>1, SplitEquations
  <2>3. B(z) = Decoding!SplitChar(B(w), c) /\ B(w) \in SplitState
    BY SplitEquations
  <2>4. z[1] = IF w = <<>> THEN c ELSE w[1]
    BY FirstOfLonger
  <2> HIDE DEF z
  <2>5. CASE w = <<>>
    <3>1. v \o w = v
      BY <2>5, NoText
    <3>2. B(w) = NoSplit
      BY <2>5, SplitEquations DEF NoSplit
    <3> HIDE DEF a, B
    <3>3. ~(a.cr /\ z[1] = "n") => Decoding!SplitChar(a, c) = Continued(a, Decoding!SplitChar(NoSplit, c))
      BY <1>1, <2>4, <2>5, FirstContinues
    <3>4. Decoding!Split(v \o z) = Decoding!SplitChar(a, c)
      BY <2>2, <3>1 DEF a
    <3>5. B(z) = Decoding!SplitChar(NoSplit, c)
      BY <2>3, <3>2
    <3>6. QED
      BY <2>1, <3>3, <3>4, <3>5 DEF z
  <2>6. CASE w # <<>>
    <3> HIDE DEF a, B
    <3>1. ASSUME ~(a.cr /\ z[1] = "n") PROVE Decoding!Split(v \o z) = Continued(a, B(z))
      <4>1. Decoding!Split(v \o w) = Continued(a, B(w))
        BY <1>3, <2>4, <2>6, <3>1
      <4>2. Decoding!SplitChar(Continued(a, B(w)), c) = Continued(a, Decoding!SplitChar(B(w), c))
        BY <1>1, <2>3, CharContinues
      <4>3. QED
        BY <2>2, <2>3, <4>1, <4>2
    <3>2. QED
      BY <2>1, <3>1 DEF z
  <2>7. QED
    BY <2>5, <2>6
<1>4. Seq(Letters) \subseteq W
  <2> HIDE DEF W
  <2>1. QED
    BY <1>2, <1>3, AllSequences
<1>5. QED
  BY <1>4

-----------------------------------------------------------------------------
(* The line decoder.                                                        *)

\* The line decoder.
LineState == [buffer : Strings, cr : BOOLEAN, out : Seq(Strings)]

\* A line decoder has split what it was given, a last CR excepted.
LinesKept(state, string) ==
    \E v \in Strings :
       /\ string = IF state.cr THEN Append(v, "r") ELSE v
       /\ Decoding!Split(v).cr => state.cr
       /\ state.out = Decoding!Split(v).lines /\ state.buffer = Decoding!Split(v).line

\* The last of a sequence, and what is before it.
LEMMA LastAndFront ==
    /\ \A s \in Strings, e \in Letters : Decoding!Last(Append(s, e)) = e /\ Decoding!Front(Append(s, e)) = s
    /\ \A s \in Seq(Strings), e \in Strings :
          Decoding!Last(Append(s, e)) = e /\ Decoding!Front(Append(s, e)) = s
<1>1. ASSUME NEW A, NEW s \in Seq(A), NEW e \in A
      PROVE  Decoding!Last(Append(s, e)) = e /\ Decoding!Front(Append(s, e)) = s
  BY DEF Decoding!Last, Decoding!Front
<1>2. QED
  BY <1>1 DEF Strings

\* The parts of a line decoder.
LEMMA LineStates ==
    \A x \in Strings, y \in BOOLEAN, z \in Seq(Strings) : [buffer |-> x, cr |-> y, out |-> z] \in LineState
BY DEF LineState

\* A text that is not empty leaves the line decoder as it should be: whether a
\* CR was held back, whether the text is that CR alone or ends in one, and whether
\* a line goes on.
LEMMA LinesDecoded ==
    ASSUME NEW state \in LineState, NEW u \in Strings, LinesKept(state, u),
           NEW string \in Strings, string # <<>>
    PROVE  /\ Decoding!DecodeLines(state, string) \in LineState
           /\ LinesKept(Decoding!DecodeLines(state, string), u \o string)
<1> DEFINE pushed == (IF state.cr THEN <<"r">> ELSE <<>>) \o string
           cr == pushed # <<>> /\ Decoding!Last(pushed) = "r"
           rest == IF cr THEN Decoding!Front(pushed) ELSE pushed
           split == Decoding!SplitLines(rest)
           joined == <<state.buffer \o split[1]>> \o Tail(split)
           next == Decoding!DecodeLines(state, string)
<1>1. PICK v \in Strings :
         /\ u = IF state.cr THEN Append(v, "r") ELSE v
         /\ Decoding!Split(v).cr => state.cr
         /\ state.out = Decoding!Split(v).lines /\ state.buffer = Decoding!Split(v).line
  BY DEF LinesKept
<1>2. state.buffer \in Strings /\ state.out \in Seq(Strings) /\ state.cr \in BOOLEAN
  BY Zenon DEF LineState
<1>3. "r" \in Letters /\ "n" \in Letters
  BY DEF Letters
<1>4. /\ pushed \in Strings /\ pushed # <<>> /\ v \o pushed = u \o string
      /\ state.cr => pushed[1] = "r"
  <2>1. CASE state.cr
    <3>1. pushed = <<"r">> \o string /\ u = Append(v, "r")
      BY <1>1, <2>1
    <3>2. <<"r">> \in Strings
      BY <1>3 DEF Strings
    <3>3. <<"r">> \o string \in Strings /\ v \o (<<"r">> \o string) = (v \o <<"r">>) \o string
      BY <3>2, TwoTexts, ThreeTexts DEF Strings
    <3>4. Append(v, "r") = v \o <<"r">>
      BY <1>3, AppendIsConcat DEF Strings
    <3>5. (<<"r">> \o string)[1] = "r" /\ <<"r">> \o string # <<>>
      <4>1. Len(<<"r">> \o string) = 1 + Len(string) /\ Len(string) \in Nat
        BY <3>2, ConcatProperties DEF Strings
      <4>2. (<<"r">> \o string)[1] = "r"
        BY DEF Strings
      <4>3. QED
        BY <4>1, <4>2
    <3>6. QED
      BY <3>1, <3>3, <3>4, <3>5
  <2>2. CASE ~state.cr
    BY <1>1, <2>2, NoText DEF Strings
  <2>3. QED
    BY <2>1, <2>2
<1> HIDE DEF pushed
<1>5. PICK t \in Strings, e \in Letters : pushed = Append(t, e)
  BY <1>4, SequenceEmptyOrAppend DEF Strings
<1>6. cr = (e = "r") /\ rest = IF e = "r" THEN t ELSE pushed
  BY <1>4, <1>5, LastAndFront
<1> HIDE DEF cr, rest
<1> DEFINE w == v \o rest
           a == Decoding!Split(v)
           b == Decoding!Split(rest)
<1>7. rest \in Strings /\ w \in Strings
  BY <1>4, <1>6, TwoTexts DEF Strings
<1>8. u \o string = IF cr THEN Append(w, "r") ELSE w
  <2>1. CASE e = "r"
    <3>1. v \o Append(t, "r") = Append(v \o t, "r")
      BY <1>3, AppendBehind DEF Strings
    <3>2. QED
      BY <1>4, <1>5, <1>6, <2>1, <3>1
  <2>2. CASE e # "r"
    BY <1>4, <1>6, <2>2
  <2>3. QED
    BY <2>1, <2>2
<1>9. Decoding!Split(w).cr => cr
  <2>1. ASSUME e # "r" PROVE Decoding!Split(w).cr = FALSE
    <3>1. w = Append(v \o t, e) /\ v \o t \in Strings
      BY <1>5, <1>6, <2>1, AppendBehind, TwoTexts DEF Strings
    <3> HIDE DEF w
    <3>2. w[Len(w)] = e
      BY <3>1, AppendProperties DEF Strings
    <3>3. Decoding!Split(w).cr = (w # <<>> /\ w[Len(w)] = "r")
      BY <1>7, SplitShape DEF Strings
    <3>4. QED
      BY <2>1, <3>2, <3>3
  <2>2. QED
    BY <1>6, <2>1
<1>10. a \in SplitState /\ b \in SplitState
  BY <1>7, SplitEquations DEF Strings
<1>11. /\ a.lines \in Seq(Strings) /\ a.line \in Strings
       /\ b.lines \in Seq(Strings) /\ b.line \in Strings
  BY <1>10, StateParts
<1>12. cr \in BOOLEAN
  BY <1>6
<1>13. CASE rest = <<>>
  <2>1. next = [buffer |-> state.buffer, cr |-> cr, out |-> state.out]
    BY <1>13, Zenon DEF Decoding!DecodeLines, pushed, cr, rest
  <2>2. w = v
    BY <1>13, NoText DEF Strings
  <2>3. next \in LineState
    BY <1>2, <1>12, <2>1, LineStates, Zenon
  <2>4. QED
    BY <1>1, <1>7, <1>8, <1>9, <2>1, <2>2, <2>3 DEF LinesKept
<1>14. CASE rest # <<>>
  <2>1. ~(a.cr /\ rest[1] = "n")
    <3>1. ASSUME state.cr PROVE rest[1] = "r"
      <4>1. pushed[1] = "r"
        BY <1>4, <3>1
      <4>2. t # <<>> => pushed[1] = t[1]
        BY <1>5, FirstOfLonger DEF Strings
      <4>3. QED
        BY <1>6, <1>14, <4>1, <4>2
    <3>2. QED
      BY <1>1, <3>1
  <2>2. Decoding!Split(w) = Continued(a, b)
    BY <1>7, <1>14, <2>1, SplitCut DEF Strings
  <2>3. /\ b.line = <<>> <=> rest[Len(rest)] \in {"r", "n"}
        /\ b.line = <<>> => b.lines # <<>>
    BY <1>7, <1>14, SplitShape DEF Strings
  <2>4. split = IF b.line = <<>> THEN b.lines ELSE Append(b.lines, b.line)
    BY DEF Decoding!SplitLines
  <2> HIDE DEF split, a, b, w
  <2>5. a.lines = state.out /\ a.line = state.buffer
    BY <1>1 DEF a
  <2>9. Continued(a, b).lines \in Seq(Strings) /\ Continued(a, b).line \in Strings
    BY <1>10, ContinuedState, StateParts DEF a, b
  <2>6. CASE b.line = <<>>
    <3>1. next = [buffer |-> <<>>, cr |-> cr, out |-> state.out \o joined]
      BY <1>14, <2>3, <2>6, Zenon DEF Decoding!DecodeLines, Decoding!Last, Decoding!Newlines, pushed, cr, rest, split
    <3>2. Continued(a, b).lines = state.out \o joined /\ Continued(a, b).line = <<>>
      BY <2>3, <2>4, <2>5, <2>6 DEF Continued
    <3> HIDE DEF joined, next
    <3>3. next.buffer = Decoding!Split(w).line /\ next.out = Decoding!Split(w).lines /\ next.cr = cr
      BY <2>2, <3>1, <3>2
    <3>4. next \in LineState
      BY <1>12, <2>2, <3>1, <3>2, <2>9, LineStates, Zenon
    <3>5. QED
      BY <1>7, <1>8, <1>9, <3>3, <3>4 DEF LinesKept, next
  <2>7. CASE b.line # <<>>
    <3>1. next = [buffer |-> Decoding!Last(joined), cr |-> cr, out |-> state.out \o Decoding!Front(joined)]
      BY <1>14, <2>3, <2>7, Zenon DEF Decoding!DecodeLines, Decoding!Last, Decoding!Newlines, pushed, cr, rest, split
    <3>2. Continued(a, b).lines = state.out \o Decoding!Front(joined) /\ Continued(a, b).line = Decoding!Last(joined)
      <4>1. split = Append(b.lines, b.line) /\ split # <<>>
        BY <1>11, <2>4, <2>7, LineAppended DEF a, b
      <4>2. CASE b.lines = <<>>
        <5>1. split[1] = b.line /\ Tail(split) = <<>>
          BY <1>11, <4>1, <4>2
        <5>2. state.buffer \o b.line \in Strings /\ <<>> \in Seq(Strings)
          BY <1>2, <1>11, TwoTexts, EmptySeq DEF Strings, a, b
        <5>3. joined = Append(<<>>, state.buffer \o b.line)
          <6> DEFINE x == state.buffer \o b.line
          <6>1. <<x>> \o <<>> = <<x>> /\ Append(<<>>, x) = <<x>>
            BY <5>2, ConcatEmptySeq
          <6>2. QED
            BY <5>1, <6>1
        <5>4. Decoding!Last(joined) = state.buffer \o b.line /\ Decoding!Front(joined) = <<>>
          <6> DEFINE x == state.buffer \o b.line
          <6> HIDE DEF joined, x
          <6>1. \A s \in Seq(Strings), z \in Strings :
                   Decoding!Last(Append(s, z)) = z /\ Decoding!Front(Append(s, z)) = s
            BY LastAndFront
          <6>2. Decoding!Last(Append(<<>>, x)) = x /\ Decoding!Front(Append(<<>>, x)) = <<>>
            BY <5>2, <6>1, Zenon DEF x
          <6>3. QED
            BY <5>3, <6>2, Zenon DEF x
        <5> HIDE DEF joined
        <5>5. state.out \o <<>> = state.out
          BY <1>2, ConcatEmptySeq
        <5>6. QED
          BY <2>5, <4>2, <5>4, <5>5 DEF Continued
      <4>3. CASE b.lines # <<>>
        <5> DEFINE front == <<state.buffer \o b.lines[1]>> \o Tail(b.lines)
        <5>1. /\ split[1] = b.lines[1] /\ Tail(split) = Append(Tail(b.lines), b.line)
              /\ b.lines[1] \in Strings /\ Tail(b.lines) \in Seq(Strings)
          BY <1>11, <4>1, <4>3, LineAppended DEF a, b
        <5>2. state.buffer \o b.lines[1] \in Strings
          BY <1>2, <5>1, TwoTexts DEF Strings
        <5>3. <<state.buffer \o b.lines[1]>> \in Seq(Strings)
          BY <5>2
        <5>4. front \in Seq(Strings)
          BY <5>1, <5>2, LinesTogether
        <5>5. joined = Append(front, b.line)
          <6> DEFINE x == <<state.buffer \o b.lines[1]>>
          <6>1. b.line \in Strings
            BY <1>11
          <6>2. joined = x \o Append(Tail(b.lines), b.line) /\ front = x \o Tail(b.lines)
            BY <5>1
          <6> HIDE DEF x, joined, front
          <6>3. x \in Seq(Strings) /\ Tail(b.lines) \in Seq(Strings)
            BY <5>1, <5>3 DEF x
          <6>4. Append(x \o Tail(b.lines), b.line) = x \o Append(Tail(b.lines), b.line)
            BY <6>1, <6>3, LineBehind
          <6>5. QED
            BY <6>2, <6>4
        <5>6. Decoding!Last(joined) = b.line /\ Decoding!Front(joined) = front
          <6> HIDE DEF joined, front
          <6>1. b.line \in Strings
            BY <1>11
          <6>2. QED
            BY <5>4, <5>5, <6>1, LastAndFront
        <5> HIDE DEF joined
        <5>7. QED
          BY <2>5, <4>3, <5>6 DEF Continued
      <4>4. QED
        BY <4>2, <4>3
    <3> HIDE DEF joined, next
    <3>3. next.buffer = Decoding!Split(w).line /\ next.out = Decoding!Split(w).lines /\ next.cr = cr
      BY <2>2, <3>1, <3>2
    <3>4. next \in LineState
      BY <1>12, <2>2, <3>1, <3>2, <2>9, LineStates, Zenon
    <3>5. QED
      BY <1>7, <1>8, <1>9, <3>3, <3>4 DEF LinesKept, next
  <2>8. QED
    BY <2>6, <2>7
<1>15. QED
  BY <1>13, <1>14

\* The end of the text ends its last line, if there is one.
LEMMA LinesFlushed ==
    ASSUME NEW state \in LineState, NEW u \in Strings, LinesKept(state, u)
    PROVE  Decoding!FlushLines(state).out = Decoding!SplitLines(u)
<1>1. PICK v \in Strings :
         /\ u = IF state.cr THEN Append(v, "r") ELSE v
         /\ Decoding!Split(v).cr => state.cr
         /\ state.out = Decoding!Split(v).lines /\ state.buffer = Decoding!Split(v).line
  BY DEF LinesKept
<1>2. Decoding!FlushLines(state).out =
         IF state.buffer = <<>> /\ ~state.cr THEN state.out ELSE Append(state.out, state.buffer)
  BY DEF Decoding!FlushLines
<1>3. CASE state.cr
  <2>1. u = Append(v, "r") /\ "r" \in Letters
    BY <1>1, <1>3 DEF Letters
  <2>2. Decoding!Split(u) = Decoding!SplitChar(Decoding!Split(v), "r") /\ Decoding!Split(v) \in SplitState
    BY <2>1, SplitEquations DEF Strings
  <2>3. Decoding!Split(u) = [lines |-> Append(state.out, state.buffer), line |-> <<>>, cr |-> TRUE]
    BY <1>1, <2>1, <2>2, CharCases
  <2>4. QED
    BY <1>2, <1>3, <2>3 DEF Decoding!SplitLines
<1>4. CASE ~state.cr
  BY <1>1, <1>2, <1>4 DEF Decoding!SplitLines
<1>5. QED
  BY <1>3, <1>4

-----------------------------------------------------------------------------
(* The chunkers.                                                            *)

\* What chunks are made of, bytes or characters, and values of headers.
Signs == {"a", "h", "t", "r", "n", "e", "?", "g", "z"} \union HeaderValues
Pieces == Seq(Signs)

\* Two pieces make a piece.
LEMMA PieceBehind == \A p \in Pieces, q \in Pieces : p \o q \in Pieces
BY DEF Pieces

\* Pieces can be put together from either end.
LEMMA ThreePieces == \A p \in Pieces, q \in Pieces, r \in Pieces : (p \o q) \o r = p \o (q \o r)
BY DEF Pieces

\* The empty piece adds nothing.
LEMMA NoPiece == <<>> \in Pieces /\ \A p \in Pieces : p \o <<>> = p /\ <<>> \o p = p
BY EmptySeq DEF Pieces

\* The chunks one after the other.
LEMMA FlattenEquations ==
           /\ Decoding!FlattenSeq(<<>>) = <<>>
           /\ \A s \in Seq(Pieces) :
                 /\ Decoding!FlattenSeq(s) \in Pieces
                 /\ \A e \in Pieces :
                       Decoding!FlattenSeq(Append(s, e)) = (Decoding!FlattenSeq(s) \o e)
<1> DEFINE A == Pieces
           start == <<>>
           step == [p \in Pieces \X A |-> p[1] \o p[2]]
           Eq(f, s) == f = [i \in 1 .. Len(s) |-> IF i = 1 THEN s[i] ELSE f[i - 1] \o s[i]]
           run(s) == CHOOSE f : Eq(f, s)
           whole(s) == [i \in 0 .. Len(s) |-> IF i = 0 THEN <<>> ELSE run(s)[i]]
           Run(s) == Runs(Pieces, step, start, s)
<1>1. start \in Pieces
  BY NoPiece
<1>2. step \in [Pieces \X A -> Pieces]
       /\ \A x \in Pieces, y \in A : step[<<x, y>>] = (x \o y)
  BY PieceBehind
<1>3. ASSUME NEW s \in Seq(A) PROVE whole(s) \in Run(s)
  <2>1. Len(s) \in Nat /\ \A i \in 1 .. Len(s) : s[i] \in A /\ i - 1 \in 0 .. Len(s)
    OBVIOUS
  <2>2. \A i \in 1 .. Len(s) : i # 1 => i - 1 \in 1 .. Len(s)
    BY <2>1
  <2>3. PICK g : g \in Run(s)
    <3> HIDE DEF step, start, A
    <3>1. QED
      BY <1>1, <1>2, RunExists
  <2>4. /\ g \in [0 .. Len(s) -> Pieces] /\ g[0] = <<>>
        /\ \A i \in 1 .. Len(s) : g[i] = g[i - 1] \o s[i]
    <3>1. /\ g \in [0 .. Len(s) -> Pieces] /\ g[0] = start
          /\ \A i \in 1 .. Len(s) : g[i] = step[<<g[i - 1], s[i]>>]
      BY <2>3 DEF Runs
    <3> HIDE DEF step
    <3>2. \A i \in 1 .. Len(s) : g[i - 1] \in Pieces /\ s[i] \in A
      BY <2>1, <3>1
    <3>3. QED
      BY <1>2, <3>1, <3>2
  <2>5. Eq([i \in 1 .. Len(s) |-> g[i]], s)
    <3>1. ASSUME NEW i \in 1 .. Len(s), i = 1 PROVE g[i] = s[i]
      <4>3. 1 \in 1 .. Len(s) /\ 1 - 1 = 0
        BY <3>1
      <4>4. g[1] = g[1 - 1] \o s[1]
        BY <2>4, <4>3
      <4>5. s[1] \in Pieces
        BY <2>1, <4>3
      <4>1. g[1] = g[0] \o s[1] /\ s[1] \in Pieces
        BY <4>3, <4>4, <4>5
      <4>2. QED
        BY <2>4, <3>1, <4>1, NoPiece
    <3>2. QED
      BY <2>2, <2>4, <3>1
  <2>6. Eq(run(s), s)
    <3> HIDE DEF Eq
    <3>1. QED
      BY <2>5
  <2> DEFINE f == run(s)
             k == [i \in 0 .. Len(s) |-> IF i = 0 THEN <<>> ELSE f[i]]
  <2> HIDE DEF run
  <2>7. f[1] = s[1] \/ Len(s) = 0
    BY <2>1, <2>6
  <2>8. \A i \in 1 .. Len(s) : i # 1 => f[i] = f[i - 1] \o s[i]
    BY <2>6
  <2>9. k = [i \in 0 .. Len(s) |-> k[i]] /\ k[0] = start
    BY <2>1
  <2>10. \A i \in 1 .. Len(s) : k[i] = k[i - 1] \o s[i]
    <3>1. ASSUME NEW i \in 1 .. Len(s), i = 1 PROVE k[i] = k[i - 1] \o s[i]
      <4>1. k[i] = s[1] /\ k[i - 1] = <<>> /\ s[1] \in Pieces
        BY <2>1, <2>7, <3>1
      <4>2. QED
        BY <3>1, <4>1, NoPiece
    <3>2. ASSUME NEW i \in 1 .. Len(s), i # 1 PROVE k[i] = k[i - 1] \o s[i]
      BY <2>1, <2>2, <2>8, <3>2
    <3>3. QED
      BY <3>1, <3>2
  <2> HIDE DEF k, step, start, A
  <2>11. \A i \in 1 .. Len(s) : k[i - 1] \in Pieces => k[i] = step[<<k[i - 1], s[i]>>]
    BY <1>2, <2>1, <2>10
  <2>12. k \in Run(s)
    BY <1>1, <1>2, <2>9, <2>11, RunIsRun
  <2>13. QED
    BY <2>12 DEF k, f
<1>4. \A s \in Seq(A) : Decoding!FlattenSeq(s) = whole(s)[Len(s)]
  <2>1. ASSUME NEW s \in Seq(A) PROVE Decoding!FlattenSeq(s) = whole(s)[Len(s)]
    <3>1. CASE Len(s) = 0
      <4>1. s = <<>>
        BY <3>1, EmptySeq
      <4>2. Decoding!FlattenSeq(s) = s
        BY <3>1 DEF Decoding!FlattenSeq
      <4> HIDE DEF run
      <4>3. QED
        BY <3>1, <4>1, <4>2
    <3>2. CASE Len(s) # 0
      <4>1. Decoding!FlattenSeq(s) = run(s)[Len(s)]
        BY <3>2 DEF Decoding!FlattenSeq
      <4> HIDE DEF run
      <4>2. Len(s) \in 0 .. Len(s)
        OBVIOUS
      <4>3. QED
        BY <3>2, <4>1, <4>2
    <3>3. QED
      BY <3>1, <3>2
  <2>2. QED
    BY <2>1
<1> HIDE DEF whole, step, start
<1>5. Decoding!FlattenSeq(<<>>) = start
  <2>1. <<>> \in Seq(A) /\ Len(<<>>) = 0
    BY EmptySeq
  <2>2. QED
    BY <1>3, <1>4, <2>1 DEF Runs
<1>6. ASSUME NEW s \in Seq(A)
      PROVE  /\ Decoding!FlattenSeq(s) \in Pieces
             /\ \A e \in A : Decoding!FlattenSeq(Append(s, e)) = (Decoding!FlattenSeq(s) \o e)
  <2>1. Decoding!FlattenSeq(s) \in Pieces
    BY <1>3, <1>4 DEF Runs
  <2>2. ASSUME NEW e \in A
        PROVE  Decoding!FlattenSeq(Append(s, e)) = step[<<Decoding!FlattenSeq(s), e>>]
    <3>1. Append(s, e) \in Seq(A)
      BY AppendProperties
    <3>2. whole(s) \in Run(s) /\ whole(Append(s, e)) \in Run(Append(s, e))
      BY <1>3, <3>1
    <3>3. whole(Append(s, e))[Len(Append(s, e))] = step[<<whole(s)[Len(s)], e>>]
      <4> HIDE DEF A
      <4>1. QED
        BY <3>2, RunGoesOn
    <3>4. QED
      BY <1>4, <3>1, <3>3
  <2>3. QED
    BY <1>2, <2>1, <2>2
<1>7. QED
  BY <1>5, <1>6 DEF start

\* Two lists of chunks.
LEMMA FlattenTogether ==
    ASSUME NEW p \in Seq(Pieces)
    PROVE  \A q \in Seq(Pieces) :
              Decoding!FlattenSeq(p \o q) = Decoding!FlattenSeq(p) \o Decoding!FlattenSeq(q)
<1> DEFINE Flat(s) == Decoding!FlattenSeq(s)
           W == {q \in Seq(Pieces) : Flat(p \o q) = Flat(p) \o Flat(q)}
<1>1. Flat(<<>>) = <<>> /\ \A s \in Seq(Pieces) : Flat(s) \in Pieces /\ \A e \in Pieces : Flat(Append(s, e)) = Flat(s) \o e
  BY FlattenEquations
<1> HIDE DEF Flat
<1>2. <<>> \in W
  <2>1. <<>> \in Seq(Pieces) /\ p \o <<>> = p
    BY EmptySeq, ConcatEmptySeq
  <2>2. QED
    BY <1>1, <2>1, NoPiece
<1>3. ASSUME NEW q \in Seq(Pieces), NEW e \in Pieces, q \in W PROVE Append(q, e) \in W
  <2>1. p \o q \in Seq(Pieces)
    OBVIOUS
  <2>2. Append(q, e) \in Seq(Pieces)
    OBVIOUS
  <2>3. p \o Append(q, e) = Append(p \o q, e)
    OBVIOUS
  <2>4. Flat(p \o Append(q, e)) = (Flat(p) \o Flat(q)) \o e
    BY <1>1, <1>3, <2>1, <2>3
  <2>5. (Flat(p) \o Flat(q)) \o e = Flat(p) \o (Flat(q) \o e)
    BY <1>1, ThreePieces
  <2>6. QED
    BY <1>1, <2>2, <2>4, <2>5
<1>4. Seq(Pieces) \subseteq W
  <2> HIDE DEF W
  <2>1. QED
    BY <1>2, <1>3, AllSequences
<1>5. QED
  BY <1>4 DEF Flat

\* The first n pieces of one width.
Slices(value, width, n) == [i \in 1 .. n |-> SubSeq(value, (i - 1) * width + 1, i * width)]

\* Pieces of one length make up what they were cut from.
LEMMA SlicesMakeUp ==
    ASSUME NEW value \in Pieces, NEW width \in Nat
    PROVE  \A n \in Nat : n * width <= Len(value) =>
              /\ Slices(value, width, n) \in Seq(Pieces)
              /\ Decoding!FlattenSeq(Slices(value, width, n)) = SubSeq(value, 1, n * width)
              /\ \A i \in 1 .. n : Len(Slices(value, width, n)[i]) = width
<1> DEFINE slice(i) == SubSeq(value, (i - 1) * width + 1, i * width)
           slices(n) == [i \in 1 .. n |-> slice(i)]
           Good(n) == n * width <= Len(value) =>
                         /\ slices(n) \in Seq(Pieces)
                         /\ Decoding!FlattenSeq(slices(n)) = SubSeq(value, 1, n * width)
                         /\ \A i \in 1 .. n : Len(slice(i)) = width
           W == {n \in Nat : Good(n)}
<1>1. Len(value) \in Nat /\ value \in Seq(Signs)
  BY DEF Pieces
<1>2. \A x \in Int, y \in Int : 1 <= x /\ y <= Len(value) =>
         SubSeq(value, x, y) \in Pieces /\ Len(SubSeq(value, x, y)) = IF x <= y THEN y - x + 1 ELSE 0
  <2>1. ASSUME NEW x \in Int, NEW y \in Int, 1 <= x, y <= Len(value)
        PROVE  SubSeq(value, x, y) \in Pieces /\ Len(SubSeq(value, x, y)) = IF x <= y THEN y - x + 1 ELSE 0
    <3>1. \A i \in x .. y : value[i] \in Signs
      BY <1>1, <2>1
    <3>2. QED
      BY <3>1, SubSeqProperties DEF Pieces
  <2>2. QED
    BY <2>1
<1>3. 0 \in W
  <2>1. slices(0) = <<>>
    <3> HIDE DEF slice
    <3>1. QED
      OBVIOUS
  <2>2. 0 * width = 0 /\ SubSeq(value, 1, 0) = <<>>
    BY SubSeqEmpty
  <2>3. <<>> \in Seq(Pieces) /\ Decoding!FlattenSeq(<<>>) = <<>>
    BY EmptySeq, FlattenEquations
  <2> HIDE DEF slices, slice
  <2>4. \A i \in 1 .. 0 : Len(slice(i)) = width
    OBVIOUS
  <2>5. slices(0) \in Seq(Pieces) /\ Decoding!FlattenSeq(slices(0)) = SubSeq(value, 1, 0 * width)
    BY <2>1, <2>2, <2>3
  <2>6. QED
    BY <2>4, <2>5
<1>4. ASSUME NEW n \in Nat, n \in W PROVE n + 1 \in W
  <2> DEFINE m == n * width
  <2>1. ASSUME (n + 1) * width <= Len(value)
        PROVE  /\ slices(n + 1) \in Seq(Pieces)
               /\ Decoding!FlattenSeq(slices(n + 1)) = SubSeq(value, 1, (n + 1) * width)
               /\ \A i \in 1 .. n + 1 : Len(slice(i)) = width
    <3>1. m \in Nat /\ (n + 1) * width = m + width
      OBVIOUS
    <3>2. m <= Len(value) /\ m + width <= Len(value)
      BY <1>1, <2>1, <3>1
    <3>3. slice(n + 1) = SubSeq(value, m + 1, m + width)
      <4>1. (n + 1) - 1 = n
        OBVIOUS
      <4>2. QED
        BY <3>1, <4>1
    <3>4. slice(n + 1) \in Pieces /\ Len(slice(n + 1)) = width
      <4> HIDE DEF slice, m
      <4>1. m + 1 \in Int /\ m + width \in Int /\ 1 <= m + 1
        BY <3>1
      <4>2. QED
        <5> DEFINE x == m + 1
                   y == m + width
        <5>1. /\ x \in Int /\ y \in Int /\ 1 <= x /\ y <= Len(value)
              /\ (x <= y => y - x + 1 = width) /\ (~(x <= y) => 0 = width)
          BY <3>1, <3>2, <4>1
        <5>2. slice(n + 1) = SubSeq(value, x, y)
          BY <3>3
        <5> HIDE DEF x, y
        <5>3. /\ SubSeq(value, x, y) \in Pieces
              /\ Len(SubSeq(value, x, y)) = IF x <= y THEN y - x + 1 ELSE 0
          BY <1>2, <5>1
        <5>4. QED
          BY <5>1, <5>2, <5>3
    <3>5. /\ slices(n) \in Seq(Pieces)
          /\ Decoding!FlattenSeq(slices(n)) = SubSeq(value, 1, m)
          /\ \A i \in 1 .. n : Len(slice(i)) = width
      <4> HIDE DEF slice, slices
      <4>1. QED
        BY <1>4, <3>2
    <3> HIDE DEF slice
    <3>6. slices(n + 1) = Append(slices(n), slice(n + 1))
      <4>1. Len(slices(n)) = n
        OBVIOUS
      <4>2. QED
        BY <4>1
    <3>7. SubSeq(value, 1, m) \o SubSeq(value, m + 1, m + width) = SubSeq(value, 1, m + width)
      <4> HIDE DEF m
      <4>1. 1 \in 1 .. Len(value) + 1 /\ m \in 1 - 1 .. Len(value) /\ m + width \in m .. Len(value)
        BY <1>1, <3>1, <3>2
      <4>2. QED
        BY <1>1, <4>1, ConcatAdjacentSubSeq
    <3> HIDE DEF slices, m
    <3>8. slices(n + 1) \in Seq(Pieces)
      BY <3>4, <3>5, <3>6, AppendProperties
    <3>9. Decoding!FlattenSeq(slices(n + 1)) = SubSeq(value, 1, m) \o slice(n + 1)
      BY <3>4, <3>5, <3>6, FlattenEquations
    <3>10. \A i \in 1 .. n + 1 : Len(slice(i)) = width
      <4>1. \A i \in 1 .. n + 1 : i \in 1 .. n \/ i = n + 1
        OBVIOUS
      <4>2. QED
        BY <3>4, <3>5, <4>1
    <3>11. QED
      BY <3>1, <3>3, <3>7, <3>8, <3>9, <3>10
  <2>2. n + 1 \in Nat
    OBVIOUS
  <2> HIDE DEF slice, slices
  <2>3. QED
    BY <2>1, <2>2
<1>5. Nat \subseteq W
  <2> HIDE DEF W
  <2>1. QED
    BY <1>3, <1>4, AllNumbers
<1>6. ASSUME NEW n \in Nat, n * width <= Len(value)
      PROVE  /\ slices(n) \in Seq(Pieces)
             /\ Decoding!FlattenSeq(slices(n)) = SubSeq(value, 1, n * width)
             /\ \A i \in 1 .. n : Len(slices(n)[i]) = width
  <2> HIDE DEF slice
  <2>1. n \in W
    BY <1>5
  <2>2. \A i \in 1 .. n : slices(n)[i] = slice(i)
    OBVIOUS
  <2> HIDE DEF slices
  <2>3. QED
    BY <1>6, <2>1, <2>2
<1>7. QED
  BY <1>6 DEF Slices

\* A chunker.
ChunkerState == [buffer : Pieces, chunks : Seq(Pieces)]

\* A chunker has cut what it was given into chunks of its size, and keeps the
\* rest, which is shorter.
ChunksKept(chunker, all) ==
    /\ Decoding!FlattenSeq(chunker.chunks) \o chunker.buffer = all
    /\ size = 0 => chunker.buffer = <<>>
    /\ size # 0 => /\ Len(chunker.buffer) < size
                   /\ \A i \in DOMAIN chunker.chunks : Len(chunker.chunks[i]) = size

\* What a chunker is given is cut off in chunks of its size, up to the rest.
LEMMA ChunksTaken ==
    ASSUME size \in Nat, NEW chunker \in ChunkerState, NEW all \in Pieces, ChunksKept(chunker, all),
           NEW data \in Pieces
    PROVE  /\ Decoding!Chunk(chunker, data) \in ChunkerState
           /\ ChunksKept(Decoding!Chunk(chunker, data), all \o data)
<1> DEFINE next == Decoding!Chunk(chunker, data)
           Flat(s) == Decoding!FlattenSeq(s)
<1>1. chunker.buffer \in Pieces /\ chunker.chunks \in Seq(Pieces)
  BY DEF ChunkerState
<1>2. \A s \in Seq(Pieces) : Flat(s) \in Pieces /\ \A e \in Pieces : Flat(Append(s, e)) = Flat(s) \o e
  BY FlattenEquations
<1>3. \A b \in Pieces, c \in Seq(Pieces) : [buffer |-> b, chunks |-> c] \in ChunkerState
  BY DEF ChunkerState
<1>4. CASE size = 0
  <2>1. chunker.buffer = <<>> /\ Flat(chunker.chunks) = all
    <3>1. chunker.buffer = <<>> /\ Flat(chunker.chunks) \o chunker.buffer = all
      BY <1>4 DEF ChunksKept
    <3> HIDE DEF Flat
    <3>2. QED
      BY <1>1, <1>2, <3>1, NoPiece
  <2>2. next = [buffer |-> chunker.buffer,
                chunks |-> IF data = <<>> THEN chunker.chunks ELSE Append(chunker.chunks, data)]
    BY <1>4 DEF Decoding!Chunk, ChunkerState
  <2>3. Append(chunker.chunks, data) \in Seq(Pieces)
    BY <1>1, AppendProperties
  <2> HIDE DEF next, Flat
  <2>4. next \in ChunkerState
    BY <1>1, <1>3, <2>2, <2>3
  <2>5. Flat(next.chunks) = all \o data /\ next.buffer = <<>>
    BY <1>1, <1>2, <2>1, <2>2, NoPiece
  <2>6. Flat(next.chunks) \o next.buffer = all \o data
    BY <2>5, PieceBehind, NoPiece
  <2>7. QED
    BY <1>4, <2>4, <2>5, <2>6 DEF ChunksKept, Flat, next
<1>5. CASE size # 0
  <2> DEFINE value == chunker.buffer \o data
             full == Len(value) \div size
             slices == Slices(value, size, full)
             rest == SubSeq(value, full * size + 1, Len(value))
  <2>1. value \in Pieces /\ Len(value) \in Nat
    BY <1>1, PieceBehind DEF Pieces
  <2>2. next = [buffer |-> rest, chunks |-> chunker.chunks \o slices]
    BY <1>5 DEF Decoding!Chunk, Slices
  <2> HIDE DEF value
  <2>3. full \in Nat /\ full * size <= Len(value) /\ Len(value) - full * size < size /\ full * size \in Nat
    BY <1>5, <2>1
  <2> HIDE DEF full
  <2>4. /\ slices \in Seq(Pieces) /\ Flat(slices) = SubSeq(value, 1, full * size)
        /\ \A i \in 1 .. full : Len(slices[i]) = size
    <3>1. /\ Slices(value, size, full) \in Seq(Pieces)
          /\ Decoding!FlattenSeq(Slices(value, size, full)) = SubSeq(value, 1, full * size)
          /\ \A i \in 1 .. full : Len(Slices(value, size, full)[i]) = size
      <4>1. ASSUME NEW x \in Pieces, NEW y \in Nat, NEW n \in Nat, n * y <= Len(x)
            PROVE  /\ Slices(x, y, n) \in Seq(Pieces)
                   /\ Decoding!FlattenSeq(Slices(x, y, n)) = SubSeq(x, 1, n * y)
                   /\ \A i \in 1 .. n : Len(Slices(x, y, n)[i]) = y
        BY <4>1, SlicesMakeUp
      <4>2. \A x \in Pieces, y \in Nat, n \in Nat : n * y <= Len(x) =>
                   Slices(x, y, n) \in Seq(Pieces)
        BY <4>1, Zenon
      <4>3. \A x \in Pieces, y \in Nat, n \in Nat : n * y <= Len(x) =>
                   Decoding!FlattenSeq(Slices(x, y, n)) = SubSeq(x, 1, n * y)
        BY <4>1, Zenon
      <4>4. \A x \in Pieces, y \in Nat, n \in Nat, i \in Nat : n * y <= Len(x) =>
                   (i \in 1 .. n => Len(Slices(x, y, n)[i]) = y)
        <5>1. ASSUME NEW x \in Pieces, NEW y \in Nat, NEW n \in Nat, NEW i \in Nat
              PROVE  n * y <= Len(x) => (i \in 1 .. n => Len(Slices(x, y, n)[i]) = y)
          <6>1. ASSUME n * y <= Len(x), i \in 1 .. n PROVE Len(Slices(x, y, n)[i]) = y
            <7>1. \A j \in 1 .. n : Len(Slices(x, y, n)[j]) = y
              BY <4>1, <6>1
            <7>2. QED
              BY <6>1, <7>1, Zenon
          <6>2. QED
            BY <6>1
        <5>2. QED
          BY <5>1
      <4>5. Slices(value, size, full) \in Seq(Pieces)
        BY <2>1, <2>3, <4>2, Zenon
      <4>6. Decoding!FlattenSeq(Slices(value, size, full)) = SubSeq(value, 1, full * size)
        BY <2>1, <2>3, <4>3, Zenon
      <4>7. \A i \in 1 .. full : Len(Slices(value, size, full)[i]) = size
        <5>1. ASSUME NEW i \in 1 .. full PROVE Len(Slices(value, size, full)[i]) = size
          <6>1. i \in Nat
            BY <2>3
          <6>2. QED
            BY <2>1, <2>3, <4>4, <6>1, Zenon
        <5>2. QED
          BY <5>1, Zenon
      <4>8. QED
        BY <4>5, <4>6, <4>7
    <3> HIDE DEF slices
    <3>2. QED
      BY <3>1 DEF slices
  <2>5. Len(slices) = full
    BY <2>3 DEF Slices
  <2> HIDE DEF slices
  <2> DEFINE m == full * size
  <2>6. m \in Nat /\ m <= Len(value) /\ Len(value) - m < size
    BY <2>3
  <2>7. rest = SubSeq(value, m + 1, Len(value)) /\ Flat(slices) = SubSeq(value, 1, m)
    BY <2>4
  <2> HIDE DEF m, rest, Flat, next
  <2>8. rest \in Pieces /\ Len(rest) = Len(value) - m
    <3>1. \A i \in m + 1 .. Len(value) : value[i] \in Signs
      BY <2>1, <2>6 DEF Pieces
    <3>2. QED
      BY <2>1, <2>6, <2>7, <3>1, SubSeqProperties DEF Pieces
  <2>9. Flat(slices) \o rest = value
    <3>1. 1 \in 1 .. Len(value) + 1 /\ m \in 1 - 1 .. Len(value) /\ Len(value) \in m .. Len(value)
      BY <2>1, <2>6
    <3>2. SubSeq(value, 1, m) \o SubSeq(value, m + 1, Len(value)) = SubSeq(value, 1, Len(value))
      BY <2>1, <3>1, ConcatAdjacentSubSeq DEF Pieces
    <3>3. SubSeq(value, 1, Len(value)) = value
      BY <2>1, SubSeqFull DEF Pieces
    <3>4. QED
      BY <2>7, <3>2, <3>3
  <2>10. next.buffer = rest /\ next.chunks = chunker.chunks \o slices
    BY <2>2
  <2>11. next.chunks \in Seq(Pieces)
    BY <1>1, <2>4, <2>10, ConcatProperties
  <2>12. next \in ChunkerState
    BY <1>3, <2>2, <2>8, <2>10, <2>11
  <2>13. Flat(next.chunks) \o next.buffer = all \o data
    <3>1. Flat(next.chunks) = Flat(chunker.chunks) \o Flat(slices)
      BY <1>1, <2>4, <2>10, FlattenTogether DEF Flat
    <3>2. Flat(chunker.chunks) \o chunker.buffer = all
      BY DEF ChunksKept, Flat
    <3>3. (Flat(chunker.chunks) \o Flat(slices)) \o rest = Flat(chunker.chunks) \o value
      <4>1. Flat(chunker.chunks) \in Pieces /\ Flat(slices) \in Pieces
        BY <1>1, <1>2, <2>4
      <4>2. (Flat(chunker.chunks) \o Flat(slices)) \o rest = Flat(chunker.chunks) \o (Flat(slices) \o rest)
        <5> DEFINE x == Flat(chunker.chunks)
                   y == Flat(slices)
        <5>1. x \in Pieces /\ y \in Pieces
          BY <4>1
        <5> HIDE DEF x, y
        <5>2. (x \o y) \o rest = x \o (y \o rest)
          <6>1. \A p \in Pieces, q \in Pieces : (p \o q) \o rest = p \o (q \o rest)
            BY <2>8, ThreePieces
          <6>2. QED
            BY <5>1, <6>1, Zenon
        <5>3. QED
          BY <5>2 DEF x, y
      <4>3. QED
        BY <2>9, <4>2
    <3>4. Flat(chunker.chunks) \o value = all \o data
      <4> DEFINE x == Flat(chunker.chunks)
                 y == chunker.buffer
      <4>1. x \in Pieces /\ y \in Pieces
        BY <1>1, <1>2
      <4>2. value = y \o data /\ x \o y = all
        BY <3>2 DEF value
      <4> HIDE DEF x, y
      <4>3. (x \o y) \o data = x \o (y \o data)
        <5>1. \A p \in Pieces, q \in Pieces : (p \o q) \o data = p \o (q \o data)
          BY ThreePieces
        <5>2. QED
          BY <4>1, <5>1, Zenon
      <4>4. QED
        BY <4>2, <4>3 DEF x
    <3>5. QED
      BY <2>10, <3>1, <3>3, <3>4
  <2>14. ASSUME NEW i \in DOMAIN next.chunks PROVE Len(next.chunks[i]) = size
    <3>1. \A j \in DOMAIN chunker.chunks : Len(chunker.chunks[j]) = size
      BY <1>5 DEF ChunksKept
    <3>2. /\ Len(chunker.chunks) \in Nat /\ DOMAIN chunker.chunks = 1 .. Len(chunker.chunks)
          /\ i \in 1 .. Len(chunker.chunks) + full
          /\ next.chunks[i] = IF i <= Len(chunker.chunks) THEN chunker.chunks[i]
                              ELSE slices[i - Len(chunker.chunks)]
      BY <1>1, <2>4, <2>5, <2>10
    <3>3. CASE i <= Len(chunker.chunks)
      BY <3>1, <3>2, <3>3
    <3>4. CASE ~(i <= Len(chunker.chunks))
      <4>1. i - Len(chunker.chunks) \in 1 .. full
        BY <2>3, <3>2, <3>4
      <4>2. QED
        BY <2>4, <3>2, <3>4, <4>1
    <3>5. QED
      BY <3>3, <3>4
  <2>15. QED
    BY <1>5, <2>6, <2>8, <2>10, <2>12, <2>13, <2>14 DEF ChunksKept, Flat, next
<1>6. QED
  BY <1>4, <1>5

\* At the end, what is left is the last chunk.
LEMMA ChunksFlushed ==
    ASSUME size \in Nat, NEW chunker \in ChunkerState, NEW all \in Pieces, ChunksKept(chunker, all)
    PROVE  LET chunks == Decoding!FlushChunker(chunker).chunks IN
           Decoding!FlattenSeq(chunks) = all /\ Decoding!Sized(chunks)
<1> DEFINE chunks == Decoding!FlushChunker(chunker).chunks
           Flat(s) == Decoding!FlattenSeq(s)
<1>1. chunker.buffer \in Pieces /\ chunker.chunks \in Seq(Pieces)
  BY DEF ChunkerState
<1>2. \A s \in Seq(Pieces) : Flat(s) \in Pieces /\ \A e \in Pieces : Flat(Append(s, e)) = Flat(s) \o e
  BY FlattenEquations
<1>3. chunks = IF chunker.buffer = <<>> THEN chunker.chunks ELSE Append(chunker.chunks, chunker.buffer)
  BY DEF Decoding!FlushChunker
<1>4. Flat(chunker.chunks) \o chunker.buffer = all
  BY DEF ChunksKept, Flat
<1>5. size # 0 => /\ Len(chunker.buffer) < size
                  /\ \A i \in DOMAIN chunker.chunks : Len(chunker.chunks[i]) = size
  BY DEF ChunksKept
<1> HIDE DEF chunks, Flat
<1>6. Flat(chunks) = all
  BY <1>1, <1>2, <1>3, <1>4, NoPiece
<1>7. ASSUME size # 0, NEW i \in DOMAIN chunks
      PROVE  Len(chunks[i]) \in 1 .. size /\ (i < Len(chunks) => Len(chunks[i]) = size)
  <2>1. CASE chunker.buffer = <<>>
    BY <1>3, <1>5, <1>7, <2>1
  <2>2. CASE chunker.buffer # <<>>
    <3>1. chunks = Append(chunker.chunks, chunker.buffer)
      BY <1>3, <2>2
    <3>2. /\ Len(chunker.chunks) \in Nat /\ DOMAIN chunker.chunks = 1 .. Len(chunker.chunks)
          /\ Len(chunks) = Len(chunker.chunks) + 1 /\ i \in 1 .. Len(chunker.chunks) + 1
      BY <1>1, <1>7, <3>1
    <3>3. i <= Len(chunker.chunks) => chunks[i] = chunker.chunks[i]
      BY <1>1, <3>1, <3>2
    <3>4. i = Len(chunker.chunks) + 1 => chunks[i] = chunker.buffer
      BY <1>1, <3>1, <3>2
    <3>5. Len(chunker.buffer) \in 1 .. size
      <4>1. Len(chunker.buffer) \in Nat \ {0}
        BY <1>1, <2>2, EmptySeq DEF Pieces
      <4>2. QED
        BY <1>5, <1>7, <4>1
    <3>6. CASE i <= Len(chunker.chunks)
      BY <1>5, <1>7, <3>2, <3>3, <3>6
    <3>7. CASE i = Len(chunker.chunks) + 1
      BY <3>2, <3>4, <3>5, <3>7
    <3>8. QED
      BY <3>2, <3>6, <3>7
  <2>3. QED
    BY <2>1, <2>2
<1>8. Decoding!Sized(chunks)
  BY <1>7 DEF Decoding!Sized
<1>9. QED
  BY <1>6, <1>8 DEF chunks, Flat

-----------------------------------------------------------------------------
(* The content decoders.                                                    *)

\* A decoder of a stream with a header, which cannot fail.
Stream == [coding : {"deflate", "gzip"}, first : BOOLEAN, header : 0 .. 2, failed : {FALSE}]

\* What is behind the first n symbols, if anything is.
Behind(raw, n) == IF Len(raw) <= n THEN <<>> ELSE SubSeq(raw, n + 1, Len(raw))

\* Nothing is taken away.
LEMMA BehindNone == \A raw \in Seq(Wire) : Behind(raw, 0) = raw
<1>1. ASSUME NEW raw \in Seq(Wire) PROVE Behind(raw, 0) = raw
  <2>1. CASE raw = <<>>
    BY <2>1, EmptySeq DEF Behind
  <2>2. CASE raw # <<>>
    <3>1. Len(raw) \in Nat /\ ~(Len(raw) <= 0)
      BY <2>2, EmptySeq
    <3>2. SubSeq(raw, 1, Len(raw)) = raw
      BY SubSeqFull
    <3>3. Behind(raw, 0) = SubSeq(raw, 0 + 1, Len(raw))
      BY <3>1, Zenon DEF Behind
    <3>4. QED
      BY <3>2, <3>3
  <2>3. QED
    BY <2>1, <2>2
<1>2. QED
  BY <1>1

\* What is behind, symbol for symbol.
LEMMA BehindShape ==
    ASSUME NEW raw \in Seq(Wire), NEW n \in Nat
    PROVE  /\ Behind(raw, n) \in Seq(Wire)
           /\ Len(Behind(raw, n)) = IF Len(raw) <= n THEN 0 ELSE Len(raw) - n
           /\ \A i \in 1 .. Len(Behind(raw, n)) : Behind(raw, n)[i] = raw[n + i]
<1>1. Len(raw) \in Nat
  OBVIOUS
<1>2. CASE Len(raw) <= n
  <2>1. Behind(raw, n) = <<>>
    BY <1>2, Zenon DEF Behind
  <2>2. QED
    BY <1>2, <2>1, EmptySeq
<1>3. CASE ~(Len(raw) <= n)
  <2>1. Behind(raw, n) = SubSeq(raw, n + 1, Len(raw))
    BY <1>3, Zenon DEF Behind
  <2>2. \A i \in n + 1 .. Len(raw) : raw[i] \in Wire
    BY <1>1
  <2>3. SubSeq(raw, n + 1, Len(raw)) \in Seq(Wire)
    BY <1>1, <2>2, SubSeqProperties
  <2>4. Len(SubSeq(raw, n + 1, Len(raw))) = Len(raw) - n
    BY <1>1, <1>3
  <2>5. \A i \in 1 .. Len(raw) - n : SubSeq(raw, n + 1, Len(raw))[i] = raw[n + i]
    BY <1>1, <1>3
  <2>6. QED
    BY <1>3, <2>1, <2>3, <2>4, <2>5
<1>4. QED
  BY <1>2, <1>3

\* Two headers are as long as both.
LEMMA BehindTwice ==
    ASSUME NEW raw \in Seq(Wire), NEW m \in Nat, NEW n \in Nat
    PROVE  Behind(Behind(raw, m), n) = Behind(raw, m + n)
<1> DEFINE once == Behind(raw, m)
           twice == Behind(once, n)
           both == Behind(raw, m + n)
<1>1. m + n \in Nat /\ Len(raw) \in Nat
  OBVIOUS
<1>2. /\ once \in Seq(Wire)
      /\ Len(once) = IF Len(raw) <= m THEN 0 ELSE Len(raw) - m
      /\ \A i \in 1 .. Len(once) : once[i] = raw[m + i]
  BY BehindShape
<1>3. /\ both \in Seq(Wire)
      /\ Len(both) = IF Len(raw) <= m + n THEN 0 ELSE Len(raw) - (m + n)
      /\ \A i \in 1 .. Len(both) : both[i] = raw[(m + n) + i]
  BY <1>1, BehindShape
<1> HIDE DEF once, both
<1>4. /\ twice \in Seq(Wire)
      /\ Len(twice) = IF Len(once) <= n THEN 0 ELSE Len(once) - n
      /\ \A i \in 1 .. Len(twice) : twice[i] = once[n + i]
  BY <1>2, BehindShape
<1> HIDE DEF twice
<1>5. Len(twice) = Len(both)
  BY <1>1, <1>2, <1>3, <1>4
<1>6. ASSUME NEW i \in 1 .. Len(twice) PROVE twice[i] = both[i]
  <2>1. n + i \in 1 .. Len(once) /\ m + (n + i) = (m + n) + i
    BY <1>2, <1>4, <1>6
  <2>2. once[n + i] = raw[m + (n + i)]
    BY <1>2, <2>1
  <2>3. QED
    BY <1>3, <1>4, <1>5, <1>6, <2>1, <2>2
<1>7. twice = both
  <2>1. twice \in Seq(Wire) /\ both \in Seq(Wire)
    BY <1>3, <1>4
  <2>2. QED
    BY <1>5, <1>6, <2>1, SeqEqual
<1>8. QED
  BY <1>7 DEF twice, both, once

\* Such a decoder takes its header away.
LEMMA StreamDecoded ==
    ASSUME NEW d \in Stream, NEW data \in Seq(Wire)
    PROVE  /\ d \in Decoder
           /\ Decoding!Decompress(d, data).decoder \in Stream
           /\ Decoding!Decompress(d, data).data = Behind(data, d.header)
           /\ Len(Decoding!HeaderOf(d)) = d.header
<1> DEFINE step == Decoding!Decompress(d, data)
           taken == IF Len(data) < d.header THEN Len(data) ELSE d.header
<1>1. d \in Decoder
  BY Zenon DEF Stream, Decoder
<1>2. d.coding \in {"deflate", "gzip"} /\ d.failed = FALSE /\ d.header \in 0 .. 2 /\ d.coding # "raw"
  BY DEF Stream
<1>3. /\ step.decoder \in Decoder /\ step.decoder.coding = d.coding
      /\ step.data = SubSeq(data, taken + 1, Len(data)) /\ step.decoder.failed = d.failed
  BY <1>1, <1>2, Decompressed
<1> HIDE DEF step
<1>4. step.decoder \in Stream
  <2>1. \A e \in Decoder : e.coding \in {"deflate", "gzip"} /\ e.failed = FALSE => e \in Stream
    BY DEF Decoder, Stream
  <2>2. QED
    BY <1>2, <1>3, <2>1
<1>5. Len(data) \in Nat
  OBVIOUS
<1>6. step.data = Behind(data, d.header)
  <2>1. CASE Len(data) <= d.header
    <3>1. taken = Len(data)
      BY <1>2, <1>5, <2>1
    <3>2. SubSeq(data, Len(data) + 1, Len(data)) = <<>>
      BY <1>5, SubSeqEmpty
    <3>3. QED
      BY <1>3, <2>1, <3>1, <3>2, Zenon DEF Behind
  <2>2. CASE ~(Len(data) <= d.header)
    <3>1. taken = d.header
      BY <1>2, <1>5, <2>2
    <3>2. QED
      BY <1>3, <2>2, <3>1, Zenon DEF Behind
  <2>3. QED
    BY <2>1, <2>2
<1>7. Len(Decoding!HeaderOf(d)) = d.header
  BY <1>1, <1>2, HeaderShape
<1>8. QED
  BY <1>1, <1>4, <1>6, <1>7 DEF step

\* The decoders together take away their headers.
LEMMA StreamsDecoded ==
    ASSUME NEW raw \in Seq(Wire)
    PROVE  \A s \in Seq(Stream) :
              /\ s \in Seq(Decoder)
              /\ Decoding!DecodeAll(s, raw).decoders \in Seq(Stream)
              /\ Decoding!DecodeAll(s, raw).data = Behind(raw, Len(Decoding!HeadersOf(s)))
<1> DEFINE all(s) == Decoding!DecodeAll(s, raw)
           Good(s) == /\ s \in Seq(Decoder)
                      /\ all(s).decoders \in Seq(Stream)
                      /\ all(s).data = Behind(raw, Len(Decoding!HeadersOf(s)))
           X == {s \in Seq(Stream) : Good(s)}
<1>1. <<>> \in X
  <2>1. all(<<>>) = [decoders |-> <<>>, data |-> raw] /\ Decoding!HeadersOf(<<>>) = <<>>
    BY DecodeAllEquations, HeaderEquations
  <2>2. Behind(raw, 0) = raw /\ Len(<<>>) = 0
    BY BehindNone
  <2> HIDE DEF all
  <2>3. all(<<>>).data = Behind(raw, Len(Decoding!HeadersOf(<<>>)))
    BY <2>1, <2>2
  <2>4. all(<<>>).decoders = <<>> /\ <<>> \in Seq(Stream) /\ <<>> \in Seq(Decoder)
    BY <2>1, EmptySeq
  <2>5. QED
    BY <2>3, <2>4
<1>2. ASSUME NEW s \in Seq(Stream), NEW e \in Stream, s \in X PROVE Append(s, e) \in X
  <2> DEFINE before == all(s)
             after == all(Append(s, e))
             step == Decoding!Decompress(e, before.data)
             m == Len(Decoding!HeadersOf(s))
  <2>1. s \in Seq(Decoder) /\ before.decoders \in Seq(Stream) /\ before.data = Behind(raw, m)
    BY <1>2
  <2>2. e \in Decoder /\ e.header \in Nat
    <3>1. e \in Decoder
      BY Zenon DEF Stream, Decoder
    <3>2. e.header \in Nat
      BY DEF Stream
    <3>3. QED
      BY <3>1, <3>2
  <2>3. after = Decoding!AddDecoder(before, e)
    BY <2>1, <2>2, DecodeAllEquations
  <2>4. Decoding!HeadersOf(Append(s, e)) = Decoding!HeadersOf(s) \o Decoding!HeaderOf(e)
        /\ Decoding!HeadersOf(s) \in Seq(Wire) /\ Decoding!HeaderOf(e) \in Seq(Wire)
    BY <2>1, <2>2, HeaderEquations, HeaderShape
  <2>5. m \in Nat
    BY <2>4
  <2>6. before.data \in Seq(Wire)
    BY <2>1, <2>5, BehindShape
  <2> HIDE DEF before, after
  <2>7. after.decoders = Append(before.decoders, step.decoder) /\ after.data = step.data
    BY <2>3 DEF Decoding!AddDecoder
  <2>8. step.decoder \in Stream /\ step.data = Behind(before.data, e.header)
        /\ Len(Decoding!HeaderOf(e)) = e.header
    BY <2>6, StreamDecoded
  <2> HIDE DEF step
  <2>9. after.decoders \in Seq(Stream)
    BY <2>1, <2>7, <2>8, AppendProperties
  <2>10. Len(Decoding!HeadersOf(Append(s, e))) = m + e.header
    <3> DEFINE x == Decoding!HeadersOf(s)
               y == Decoding!HeaderOf(e)
               z == Decoding!HeadersOf(Append(s, e))
    <3>1. z = x \o y /\ x \in Seq(Wire) /\ y \in Seq(Wire) /\ Len(y) = e.header
      BY <2>4, <2>8
    <3> HIDE DEF x, y, z
    <3>2. Len(z) = Len(x) + e.header
      BY <3>1, ConcatProperties
    <3>3. QED
      BY <3>2 DEF x, z
  <2> HIDE DEF m
  <2>11. Behind(Behind(raw, m), e.header) = Behind(raw, m + e.header)
    BY <2>2, <2>5, BehindTwice
  <2>12. Append(s, e) \in Seq(Stream) /\ Append(s, e) \in Seq(Decoder)
    BY <2>1, <2>2, AppendProperties
  <2>13. after.data = Behind(raw, Len(Decoding!HeadersOf(Append(s, e))))
    BY <2>1, <2>7, <2>8, <2>10, <2>11
  <2>14. QED
    BY <2>9, <2>12, <2>13 DEF after
<1>3. Seq(Stream) \subseteq X
  <2> HIDE DEF X
  <2>1. QED
    BY <1>1, <1>2, AllSequences
<1>4. QED
  BY <1>3

\* Of a chunk that has what was left of the headers, or a part of it and no
\* more, the body comes out.
LEMMA HeadersTaken ==
    ASSUME NEW h \in Seq(Wire), NEW n \in 0 .. Len(h), NEW data \in Seq(Wire),
           data # <<>> => n = Len(h)
    PROVE  /\ (SubSeq(h, 1, n) \o data) \in Seq(Wire)
           /\ Behind(SubSeq(h, 1, n) \o data, Len(h)) = data
<1> DEFINE front == SubSeq(h, 1, n)
           raw == front \o data
<1>1. Len(h) \in Nat /\ n \in Nat /\ n <= Len(h) /\ Len(data) \in Nat
  OBVIOUS
<1>2. front \in Seq(Wire) /\ Len(front) = n
  <2>1. \A i \in 1 .. n : h[i] \in Wire
    BY <1>1
  <2>2. front \in Seq(Wire)
    BY <1>1, <2>1, SubSeqProperties
  <2>3. Len(front) = n
    BY <1>1
  <2>4. QED
    BY <2>2, <2>3
<1> HIDE DEF front
<1>3. raw \in Seq(Wire) /\ Len(raw) = n + Len(data)
  BY <1>2, ConcatProperties
<1>4. \A i \in 1 .. Len(data) : raw[n + i] = data[i]
  BY <1>1, <1>2
<1> HIDE DEF raw
<1>5. CASE data = <<>>
  <2>1. Len(raw) <= Len(h) /\ Len(data) = 0
    BY <1>1, <1>3, <1>5
  <2>2. QED
    BY <1>3, <1>5, <2>1, Zenon DEF Behind, raw, front
<1>6. CASE data # <<>>
  <2>1. n = Len(h) /\ Len(data) > 0
    BY <1>6, EmptySeq
  <2> DEFINE b == Behind(raw, n)
  <2>2. /\ b \in Seq(Wire) /\ Len(b) = IF Len(raw) <= n THEN 0 ELSE Len(raw) - n
        /\ \A i \in 1 .. Len(b) : b[i] = raw[n + i]
    BY <1>1, <1>3, BehindShape
  <2> HIDE DEF b
  <2>3. Len(b) = Len(data)
    <3>1. ~(Len(raw) <= n) /\ Len(raw) - n = Len(data)
      BY <1>1, <1>3, <2>1
    <3>2. QED
      BY <2>2, <3>1
  <2>4. b = data
    <3>1. \A i \in 1 .. Len(b) : b[i] = data[i]
      BY <1>4, <2>2, <2>3
    <3>2. QED
      BY <2>2, <2>3, <3>1, SeqEqual
  <2>5. QED
    BY <1>3, <2>1, <2>4 DEF b, raw, front
<1>7. QED
  BY <1>5, <1>6

-----------------------------------------------------------------------------
(* All stages together.                                                     *)

\* What has come of the body so far has gone through every stage, and is in
\* what the stages gave out and in what they hold back.
StagesKept ==
    /\ content \in Seq(Decoding!Symbols)
    /\ lead = Decoding!DecodeText(FALSE, content).lead
    /\ bytes \in ChunkerState /\ ChunksKept(bytes, content)
    /\ text \in ChunkerState /\ ChunksKept(text, Decoding!DecodeText(FALSE, content).text)
    /\ lines \in LineState /\ LinesKept(lines, Decoding!DecodeText(FALSE, content).text)

\* The decoders fail for no stream with a header; a raw one is told by its
\* first chunk.
RawDecoder == [coding |-> "raw", first |-> TRUE, header |-> 2, failed |-> FALSE]
RawFound == [coding |-> "raw", first |-> FALSE, header |-> 0, failed |-> FALSE]

DecodersKept ==
    \/ decoders \in Seq(Stream)
    \/ encoding = <<"raw">> /\ decoding = "fresh" /\ decoders = <<RawDecoder>>
    \/ encoding = <<"raw">> /\ decoding = "running" /\ decoders = <<RawFound>>

\* The invariant of decoding: what is behind every chunk that can still come.
CutInv ==
    /\ size \in Nat
    /\ decoding \in {"fresh", "running"} => StagesKept /\ DecodersKept
    /\ decoding \in {"short", "failed"} => encoding = <<"raw">>
    /\ decoding = "done" => Decoding!ChunkingTransparent
    /\ decoding \in {"fresh", "running", "short", "failed", "done"}

\* Bodies and texts are made of signs, and bodies can come off the wire.
LEMMA LettersAreSigns ==
    /\ \A p \in Seq(Letters) : p \in Pieces
    /\ \A p \in Seq(Decoding!Symbols) : p \in Pieces /\ p \in Seq(Wire)
<1>1. Letters \subseteq Signs /\ Decoding!Symbols \subseteq Signs /\ Decoding!Symbols \subseteq Wire
  BY DEF Letters, Signs, Decoding!Symbols, Wire
<1>2. Seq(Letters) \subseteq Seq(Signs)
  <2> HIDE DEF Letters
  <2>1. \A p \in Seq(Letters) : p \in Seq(Signs)
    BY <1>1
  <2>2. QED
    BY <2>1
<1>3. Seq(Decoding!Symbols) \subseteq Seq(Signs) /\ Seq(Decoding!Symbols) \subseteq Seq(Wire)
  <2>1. \A p \in Seq(Decoding!Symbols) : p \in Seq(Signs)
    BY <1>1
  <2>2. \A p \in Seq(Decoding!Symbols) : p \in Seq(Wire)
    BY <1>1
  <2>3. QED
    BY <2>1, <2>2
<1>4. QED
  BY <1>2, <1>3 DEF Pieces

\* The next part of the body goes through all stages.
LEMMA ContentTaken ==
    ASSUME size \in Nat, StagesKept, NEW data \in Seq(Decoding!Symbols)
    PROVE  LET step == Decoding!DecodeText(lead, data)
               all == content \o data
               whole == Decoding!DecodeText(FALSE, all)
               taken == Decoding!Chunk(bytes, data)
               written == Decoding!Chunk(text, step.text)
               split == IF step.text = <<>> THEN lines ELSE Decoding!DecodeLines(lines, step.text) IN
           /\ all \in Seq(Decoding!Symbols) /\ step.lead = whole.lead
           /\ taken \in ChunkerState /\ ChunksKept(taken, all)
           /\ written \in ChunkerState /\ ChunksKept(written, whole.text)
           /\ split \in LineState /\ LinesKept(split, whole.text)
<1> DEFINE step == Decoding!DecodeText(lead, data)
           before == Decoding!DecodeText(FALSE, content)
           all == content \o data
           whole == Decoding!DecodeText(FALSE, all)
<1>1. /\ content \in Seq(Decoding!Symbols) /\ lead = before.lead
      /\ bytes \in ChunkerState /\ ChunksKept(bytes, content)
      /\ text \in ChunkerState /\ ChunksKept(text, before.text)
      /\ lines \in LineState /\ LinesKept(lines, before.text)
  BY DEF StagesKept
<1>2. all \in Seq(Decoding!Symbols)
  BY <1>1, ConcatProperties
<1>3. before \in TextState
  BY <1>1, TextEquations
<1>4. before.lead \in BOOLEAN /\ before.text \in Seq(Letters)
  <2> HIDE DEF before
  <2>1. QED
    BY <1>3, Zenon DEF TextState
<1>5. step \in TextState
  BY <1>1, <1>4, TextEquations
<1>6. step.lead \in BOOLEAN /\ step.text \in Seq(Letters)
  <2> HIDE DEF step
  <2>1. QED
    BY <1>5, Zenon DEF TextState
<1>7. whole = [lead |-> step.lead, text |-> before.text \o step.text]
  BY <1>1, TextCut
<1>8. /\ data \in Pieces /\ content \in Pieces /\ before.text \in Pieces /\ step.text \in Pieces
  BY <1>1, <1>4, <1>6, LettersAreSigns
<1> HIDE DEF step, before, all, whole
<1>9. whole.lead = step.lead /\ whole.text = before.text \o step.text
  BY <1>7
<1>10. /\ Decoding!Chunk(bytes, data) \in ChunkerState
       /\ ChunksKept(Decoding!Chunk(bytes, data), content \o data)
  BY <1>1, <1>8, ChunksTaken
<1>11. /\ Decoding!Chunk(text, step.text) \in ChunkerState
       /\ ChunksKept(Decoding!Chunk(text, step.text), before.text \o step.text)
  BY <1>1, <1>8, ChunksTaken
<1> DEFINE split == IF step.text = <<>> THEN lines ELSE Decoding!DecodeLines(lines, step.text)
<1>12. split \in LineState /\ LinesKept(split, before.text \o step.text)
  <2>1. CASE step.text = <<>>
    <3>1. before.text \o step.text = before.text
      BY <1>4, <2>1, NoText
    <3>2. QED
      BY <1>1, <2>1, <3>1
  <2>2. CASE step.text # <<>>
    <3>1. before.text \in Strings /\ step.text \in Strings
      BY <1>4, <1>6 DEF Strings
    <3>2. /\ Decoding!DecodeLines(lines, step.text) \in LineState
          /\ LinesKept(Decoding!DecodeLines(lines, step.text), before.text \o step.text)
      BY <1>1, <2>2, <3>1, LinesDecoded
    <3>3. QED
      BY <2>2, <3>2
  <2>3. QED
    BY <2>1, <2>2
<1> HIDE DEF split
<1>13. QED
  BY <1>2, <1>9, <1>10, <1>11, <1>12 DEF split, all, whole, step, before

\* At the end of the body every stage gives out what it held back.
LEMMA ContentFlushed ==
    ASSUME size \in Nat, StagesKept
    PROVE  LET left == Decoding!FlushText(lead)
               all == IF left = <<>> THEN lines ELSE Decoding!DecodeLines(lines, left)
               whole == Decoding!DecodeText(FALSE, content)
               string == whole.text \o Decoding!FlushText(whole.lead)
               taken == Decoding!FlushChunker(bytes).chunks
               written == Decoding!FlushChunker(Decoding!Chunk(text, left)).chunks IN
           /\ Decoding!FlattenSeq(taken) = content /\ Decoding!Sized(taken)
           /\ Decoding!FlattenSeq(written) = string /\ Decoding!Sized(written)
           /\ Decoding!FlushLines(all).out = Decoding!SplitLines(string)
<1> DEFINE whole == Decoding!DecodeText(FALSE, content)
           left == Decoding!FlushText(lead)
           string == whole.text \o Decoding!FlushText(whole.lead)
           all == IF left = <<>> THEN lines ELSE Decoding!DecodeLines(lines, left)
<1>1. /\ content \in Seq(Decoding!Symbols) /\ lead = whole.lead
      /\ bytes \in ChunkerState /\ ChunksKept(bytes, content)
      /\ text \in ChunkerState /\ ChunksKept(text, whole.text)
      /\ lines \in LineState /\ LinesKept(lines, whole.text)
  BY DEF StagesKept
<1>2. whole \in TextState
  BY <1>1, TextEquations
<1> HIDE DEF whole
<1>3. whole.lead \in BOOLEAN /\ whole.text \in Seq(Letters)
  BY <1>2, Zenon DEF TextState
<1>4. left \in Seq(Letters) /\ string = whole.text \o left
  <2>1. "?" \in Letters
    BY DEF Letters
  <2>2. <<"?">> \in Seq(Letters) /\ <<>> \in Seq(Letters)
    BY <2>1, EmptySeq
  <2>3. left \in Seq(Letters)
    BY <2>2 DEF Decoding!FlushText
  <2>4. string = whole.text \o left
    BY <1>1
  <2>5. QED
    BY <2>3, <2>4
<1> HIDE DEF left, string
<1>5. content \in Pieces /\ whole.text \in Pieces /\ left \in Pieces
  BY <1>1, <1>3, <1>4, LettersAreSigns
<1>6. /\ Decoding!FlattenSeq(Decoding!FlushChunker(bytes).chunks) = content
      /\ Decoding!Sized(Decoding!FlushChunker(bytes).chunks)
  BY <1>1, <1>5, ChunksFlushed
<1> DEFINE written == Decoding!Chunk(text, left)
<1>7. written \in ChunkerState /\ ChunksKept(written, whole.text \o left)
  BY <1>1, <1>5, ChunksTaken
<1> HIDE DEF written
<1>8. /\ Decoding!FlattenSeq(Decoding!FlushChunker(written).chunks) = whole.text \o left
      /\ Decoding!Sized(Decoding!FlushChunker(written).chunks)
  <2>1. (whole.text \o left) \in Pieces
    BY <1>5, PieceBehind
  <2> DEFINE joined == whole.text \o left
  <2> HIDE DEF joined
  <2>2. joined \in Pieces /\ ChunksKept(written, joined)
    BY <1>7, <2>1 DEF joined
  <2>3. /\ Decoding!FlattenSeq(Decoding!FlushChunker(written).chunks) = joined
        /\ Decoding!Sized(Decoding!FlushChunker(written).chunks)
    BY <1>7, <2>2, ChunksFlushed
  <2>4. QED
    BY <2>3 DEF joined
<1>9. all \in LineState /\ LinesKept(all, string) /\ string \in Strings
  <2>1. string \in Strings /\ whole.text \in Strings /\ left \in Strings
    BY <1>3, <1>4, TwoTexts DEF Strings
  <2>2. CASE left = <<>>
    <3>1. string = whole.text
      BY <1>3, <1>4, <2>2, NoText
    <3>2. QED
      BY <1>1, <2>1, <2>2, <3>1
  <2>3. CASE left # <<>>
    <3>1. /\ Decoding!DecodeLines(lines, left) \in LineState
          /\ LinesKept(Decoding!DecodeLines(lines, left), whole.text \o left)
      BY <1>1, <2>1, <2>3, LinesDecoded
    <3>2. QED
      BY <1>4, <2>1, <2>3, <3>1
  <2>4. QED
    BY <2>2, <2>3
<1> HIDE DEF all
<1>10. Decoding!FlushLines(all).out = Decoding!SplitLines(string)
  BY <1>9, LinesFlushed
<1>11. QED
  BY <1>4, <1>6, <1>8, <1>10 DEF all, written, string, left, whole

\* A decoder alone.
LEMMA DecoderAlone ==
    ASSUME NEW d \in Decoder, d.coding = "raw", NEW data \in Seq(Wire)
    PROVE  /\ Decoding!HeadersOf(<<d>>) = <<>>
           /\ Decoding!DecodeAll(<<d>>, data) =
                 [decoders |-> <<Decoding!Decompress(d, data).decoder>>,
                  data |-> Decoding!Decompress(d, data).data]
<1>1. <<d>> = Append(<<>>, d) /\ <<>> \in Seq(Decoder)
  BY EmptySeq
<1>2. Decoding!HeaderOf(d) = <<>>
  BY DEF Decoding!HeaderOf
<1>3. Decoding!HeadersOf(Append(<<>>, d)) = <<>> \o <<>>
  BY <1>1, <1>2, HeaderEquations
<1>4. Decoding!DecodeAll(Append(<<>>, d), data) =
          Decoding!AddDecoder([decoders |-> <<>>, data |-> data], d)
  <2>1. /\ Decoding!DecodeAll(<<>>, data) = [decoders |-> <<>>, data |-> data]
        /\ \A s \in Seq(Decoder) : \A e \in Decoder :
              Decoding!DecodeAll(Append(s, e), data) = Decoding!AddDecoder(Decoding!DecodeAll(s, data), e)
    BY DecodeAllEquations
  <2>2. Decoding!DecodeAll(Append(<<>>, d), data) = Decoding!AddDecoder(Decoding!DecodeAll(<<>>, data), d)
    BY <1>1, <2>1, Zenon
  <2>3. QED
    BY <2>1, <2>2
<1>5. Decoding!AddDecoder([decoders |-> <<>>, data |-> data], d) =
         [decoders |-> <<Decoding!Decompress(d, data).decoder>>,
          data |-> Decoding!Decompress(d, data).data]
  <2> DEFINE step == Decoding!Decompress(d, data)
  <2> HIDE DEF step
  <2>1. Decoding!AddDecoder([decoders |-> <<>>, data |-> data], d) =
           [decoders |-> Append(<<>>, step.decoder), data |-> step.data]
    BY DEF Decoding!AddDecoder, step
  <2>2. Append(<<>>, step.decoder) = <<step.decoder>>
    OBVIOUS
  <2>3. QED
    BY <2>1, <2>2 DEF step
<1>6. <<>> \o <<>> = <<>>
  OBVIOUS
<1>7. QED
  BY <1>1, <1>3, <1>4, <1>5, <1>6

\* A raw stream is begun again without a header when its first chunk has two
\* bytes, and goes through from then on.
LEMMA RawDecoded ==
    ASSUME NEW data \in Seq(Wire)
    PROVE  /\ RawDecoder \in Decoder /\ RawFound \in Decoder
           /\ ~(Len(data) < 2) => Decoding!Decompress(RawDecoder, data) = [decoder |-> RawFound, data |-> data]
           /\ Decoding!Decompress(RawFound, data) = [decoder |-> RawFound, data |-> data]
<1>1. RawDecoder \in Decoder /\ RawFound \in Decoder
  <2>1. \A c \in {"deflate", "gzip", "raw"}, b \in BOOLEAN, h \in 0 .. 2, f \in BOOLEAN :
           [coding |-> c, first |-> b, header |-> h, failed |-> f] \in Decoder
    BY DEF Decoder
  <2>2. 0 \in 0 .. 2 /\ 2 \in 0 .. 2 /\ "raw" \in {"deflate", "gzip", "raw"}
    OBVIOUS
  <2>3. QED
    BY <2>1, <2>2, Zenon DEF RawDecoder, RawFound
<1>2. Len(data) \in Nat /\ SubSeq(data, 1, Len(data)) = data
  BY SubSeqFull
<1>3. ASSUME ~(Len(data) < 2)
      PROVE  Decoding!Decompress(RawDecoder, data) = [decoder |-> RawFound, data |-> data]
  <2> DEFINE taken == IF Len(data) < RawDecoder.header THEN Len(data) ELSE RawDecoder.header
             complete == RawDecoder.header > 0 /\ taken = RawDecoder.header
             bad == RawDecoder.coding = "raw"
             failed == RawDecoder.failed \/ (complete /\ bad /\ ~RawDecoder.first)
  <2>1. /\ RawDecoder.header = 2 /\ RawDecoder.coding = "raw" /\ RawDecoder.failed = FALSE
        /\ RawDecoder.first = TRUE
    BY DEF RawDecoder
  <2>2. Decoding!Decompress(RawDecoder, data) =
           [decoder |-> [coding |-> RawDecoder.coding, first |-> FALSE,
                         header |-> IF complete /\ bad THEN 0 ELSE RawDecoder.header - taken,
                         failed |-> failed],
            data |-> IF complete /\ bad THEN data ELSE SubSeq(data, taken + 1, Len(data))]
    BY Zenon DEF Decoding!Decompress
  <2>3. taken = 2
    BY <1>3, <2>1
  <2>4. complete /\ bad /\ failed = FALSE
    BY <2>1, <2>3
  <2> HIDE DEF taken, complete, bad, failed
  <2>5. QED
    BY <2>1, <2>2, <2>4, Zenon DEF RawFound
<1>4. Decoding!Decompress(RawFound, data) = [decoder |-> RawFound, data |-> data]
  <2> DEFINE taken == IF Len(data) < RawFound.header THEN Len(data) ELSE RawFound.header
             complete == RawFound.header > 0 /\ taken = RawFound.header
             bad == RawFound.coding = "raw"
             failed == RawFound.failed \/ (complete /\ bad /\ ~RawFound.first)
             rest == RawFound.header - taken
  <2>1. /\ RawFound.header = 0 /\ RawFound.coding = "raw" /\ RawFound.failed = FALSE
    BY DEF RawFound
  <2>2. Decoding!Decompress(RawFound, data) =
           [decoder |-> [coding |-> RawFound.coding, first |-> FALSE,
                         header |-> IF complete /\ bad THEN 0 ELSE rest,
                         failed |-> failed],
            data |-> IF complete /\ bad THEN data ELSE SubSeq(data, taken + 1, Len(data))]
    BY Zenon DEF Decoding!Decompress
  <2>3. taken = 0
    BY <1>2, <2>1
  <2>4. ~complete /\ failed = FALSE /\ rest = 0 /\ taken + 1 = 1
    <3>1. ~(RawFound.header > 0) /\ rest = 0 /\ taken + 1 = 1
      <4> HIDE DEF taken
      <4>1. QED
        BY <2>1, <2>3
    <3>2. ~complete
      BY <3>1, Zenon
    <3>3. failed = FALSE
      <4> HIDE DEF complete
      <4>1. QED
        BY <2>1, <3>2, Zenon
    <3>4. QED
      BY <3>1, <3>2, <3>3, Zenon
  <2> HIDE DEF taken, complete, bad, failed, rest
  <2>5. SubSeq(data, taken + 1, Len(data)) = data
    BY <1>2, <2>4
  <2>6. QED
    BY <2>1, <2>2, <2>4, <2>5, Zenon DEF RawFound
<1>5. QED
  BY <1>1, <1>3, <1>4

\* Nothing has come yet.
LEMMA CutStart ==
    ASSUME Decoding!Init
    PROVE  CutInv
<1>1. /\ encoding \in Seq({"deflate", "gzip"}) \/ encoding = <<"raw">>
      /\ size \in Nat
  BY ValuesAssumption DEF Decoding!BodyDecodingAssumption, Decoding!Init
<1>2. /\ decoders = Decoding!NewDecoders(encoding) /\ decoding = "fresh"
      /\ bytes = Decoding!NewChunker /\ text = Decoding!NewChunker /\ lead = FALSE
      /\ lines = Decoding!NewLines /\ content = <<>>
  BY DEF Decoding!Init
<1>3. DecodersKept
  <2>1. ASSUME encoding \in Seq({"deflate", "gzip"}) PROVE decoders \in Seq(Stream)
    <3> DEFINE fresh(c) == [coding |-> c, first |-> TRUE, header |-> 2, failed |-> FALSE]
               children == [i \in DOMAIN encoding |-> fresh(encoding[i])]
    <3>1. \A c \in {"deflate", "gzip"} : fresh(c) \in Stream
      BY DEF Stream
    <3>2. \A i \in DOMAIN encoding : fresh(encoding[i]) \in Stream
      <4> HIDE DEF fresh
      <4>1. QED
        BY <2>1, <3>1
    <3> HIDE DEF fresh
    <3>3. children \in Seq(Stream)
      BY <2>1, <3>2
    <3>4. decoders = Decoding!Reverse(children)
      BY <1>2 DEF Decoding!NewDecoders, fresh
    <3> HIDE DEF children
    <3>5. Decoding!Reverse(children) \in Seq(Stream)
      BY <3>3 DEF Decoding!Reverse
    <3>6. QED
      BY <3>4, <3>5
  <2>2. ASSUME encoding = <<"raw">> PROVE decoders = <<RawDecoder>>
    <3> DEFINE fresh(c) == [coding |-> c, first |-> TRUE, header |-> 2, failed |-> FALSE]
               children == [i \in DOMAIN encoding |-> fresh(encoding[i])]
    <3>1. decoders = Decoding!Reverse(children)
      BY <1>2 DEF Decoding!NewDecoders
    <3>2. children = <<RawDecoder>>
      <4> DEFINE one == fresh("raw")
      <4>1. one = RawDecoder
        BY DEF RawDecoder
      <4>2. DOMAIN encoding = 1 .. 1 /\ encoding[1] = "raw"
        BY <2>2
      <4> HIDE DEF fresh, one
      <4>3. children = [i \in 1 .. 1 |-> fresh("raw")]
        BY <4>2
      <4>4. children = <<fresh("raw")>>
        BY <4>3
      <4>5. QED
        BY <4>1, <4>4 DEF one
    <3> HIDE DEF children
    <3>3. Decoding!Reverse(<<RawDecoder>>) = <<RawDecoder>>
      <4> DEFINE one == RawDecoder
      <4> HIDE DEF one
      <4>1. Decoding!Reverse(<<one>>) = <<one>>
        BY DEF Decoding!Reverse
      <4>2. QED
        BY <4>1 DEF one
    <3>4. QED
      BY <3>1, <3>2, <3>3
  <2>3. QED
    BY <1>1, <1>2, <2>1, <2>2 DEF DecodersKept
<1>4. /\ bytes \in ChunkerState /\ ChunksKept(bytes, <<>>)
      /\ text \in ChunkerState /\ ChunksKept(text, <<>>)
  <2> DEFINE start == [buffer |-> <<>>, chunks |-> <<>>]
  <2>1. bytes = start /\ text = start
    BY <1>2 DEF Decoding!NewChunker
  <2>2. <<>> \in Pieces /\ <<>> \in Seq(Pieces)
    BY EmptySeq, NoPiece
  <2>3. start \in ChunkerState
    BY <2>2 DEF ChunkerState
  <2>4. Decoding!FlattenSeq(<<>>) \o <<>> = <<>> /\ Len(<<>>) = 0 /\ DOMAIN <<>> = {}
    BY FlattenEquations
  <2>5. ChunksKept(start, <<>>)
    BY <1>1, <2>4 DEF ChunksKept
  <2>6. QED
    BY <2>1, <2>3, <2>5
<1>5. lines \in LineState /\ LinesKept(lines, <<>>)
  <2> DEFINE start == [buffer |-> <<>>, cr |-> FALSE, out |-> <<>>]
  <2>1. lines = start
    BY <1>2 DEF Decoding!NewLines
  <2>2. <<>> \in Strings /\ <<>> \in Seq(Strings)
    BY EmptySeq DEF Strings
  <2>3. start \in LineState
    BY <2>2, LineStates
  <2>4. Decoding!Split(<<>>) = [lines |-> <<>>, line |-> <<>>, cr |-> FALSE]
    BY SplitEquations
  <2>5. LinesKept(start, <<>>)
    <3>1. /\ <<>> = (IF start.cr THEN Append(<<>>, "r") ELSE <<>>)
          /\ Decoding!Split(<<>>).cr => start.cr
          /\ start.out = Decoding!Split(<<>>).lines /\ start.buffer = Decoding!Split(<<>>).line
      BY <2>4
    <3> HIDE DEF start
    <3>2. QED
      BY <2>2, <3>1 DEF LinesKept
  <2>6. QED
    BY <2>1, <2>3, <2>5
<1>6. Decoding!DecodeText(FALSE, <<>>) = [lead |-> FALSE, text |-> <<>>]
  BY TextEquations
<1>7. StagesKept
  <2> DEFINE whole == Decoding!DecodeText(FALSE, content)
  <2>1. whole = [lead |-> FALSE, text |-> <<>>] /\ content \in Seq(Decoding!Symbols)
    BY <1>2, <1>6, EmptySeq
  <2> HIDE DEF whole
  <2>2. lead = whole.lead /\ whole.text = <<>> /\ content = <<>>
    BY <1>2, <2>1
  <2>3. QED
    BY <1>4, <1>5, <2>1, <2>2, Zenon DEF StagesKept, whole
<1>8. QED
  BY <1>1, <1>2, <1>3, <1>7 DEF CutInv

\* The part of the body that is in a chunk of the wire comes out of the
\* decoders, unless the chunk is the first of a raw stream and too short.
LEMMA ChunkReceived ==
    ASSUME DecodersKept, decoding \in {"fresh", "running"},
           NEW n \in 0 .. Len(Decoding!Headers), NEW data \in Seq(Decoding!Symbols),
           data # <<>> => n = Len(Decoding!Headers)
    PROVE  LET raw == SubSeq(Decoding!Headers, 1, n) \o data
               step == Decoding!DecodeAll(decoders, raw) IN
           \/ step.data = data /\ step.decoders \in Seq(Stream)
           \/ encoding = <<"raw">> /\ step.data = data /\ step.decoders = <<RawFound>>
           \/ encoding = <<"raw">> /\ decoding = "fresh" /\ Len(raw) < 2
<1> DEFINE head == Decoding!HeadersOf(decoders)
           raw == SubSeq(head, 1, n) \o data
           step == Decoding!DecodeAll(decoders, raw)
<1>1. data \in Seq(Wire)
  BY LettersAreSigns
<1>2. n \in 0 .. Len(head) /\ (data # <<>> => n = Len(head))
  BY DEF Decoding!Headers
<1>3. CASE decoders \in Seq(Stream)
  <2>1. decoders \in Seq(Decoder)
    BY <1>1, <1>3, StreamsDecoded
  <2>2. head \in Seq(Wire)
    BY <2>1, HeaderEquations
  <2> HIDE DEF head
  <2>3. raw \in Seq(Wire) /\ Behind(raw, Len(head)) = data
    BY <1>1, <1>2, <2>2, HeadersTaken
  <2> HIDE DEF raw
  <2>4. step.decoders \in Seq(Stream) /\ step.data = Behind(raw, Len(head))
    BY <1>3, <2>3, StreamsDecoded DEF head
  <2>5. step.data = data /\ step.decoders \in Seq(Stream)
    BY <2>3, <2>4
  <2>6. QED
    BY <2>5, Zenon DEF raw, head, Decoding!Headers
<1>4. ASSUME NEW d \in Decoder, d.coding = "raw", decoders = <<d>>
      PROVE  raw = data /\ step = [decoders |-> <<Decoding!Decompress(d, data).decoder>>,
                                   data |-> Decoding!Decompress(d, data).data]
  <2>1. /\ Decoding!HeadersOf(<<d>>) = <<>>
        /\ Decoding!DecodeAll(<<d>>, data) = [decoders |-> <<Decoding!Decompress(d, data).decoder>>,
                                              data |-> Decoding!Decompress(d, data).data]
    BY <1>1, <1>4, DecoderAlone
  <2>2. head = <<>>
    BY <1>4, <2>1
  <2> HIDE DEF head
  <2>3. n = 0
    BY <1>2, <2>2
  <2>4. SubSeq(head, 1, n) = <<>>
    BY <2>2, <2>3
  <2>5. raw = data
    <3>1. raw = <<>> \o data
      BY <2>4
    <3>2. <<>> \o data = data
      BY <1>1, ConcatEmptySeq
    <3>3. QED
      BY <3>1, <3>2
  <2>6. QED
    BY <1>4, <2>1, <2>5
<1>5. CASE encoding = <<"raw">> /\ decoding = "fresh" /\ decoders = <<RawDecoder>>
  <2>1. RawDecoder.coding = "raw"
    BY DEF RawDecoder
  <2>2. raw = data /\ step = [decoders |-> <<Decoding!Decompress(RawDecoder, data).decoder>>,
                              data |-> Decoding!Decompress(RawDecoder, data).data]
    BY <1>1, <1>4, <1>5, <2>1, RawDecoded
  <2> HIDE DEF raw, step
  <2>3. CASE Len(data) < 2
    BY <1>5, <2>2, <2>3, Zenon DEF raw, head, Decoding!Headers
  <2>4. CASE ~(Len(data) < 2)
    <3>1. Decoding!Decompress(RawDecoder, data) = [decoder |-> RawFound, data |-> data]
      BY <1>1, <2>4, RawDecoded
    <3>2. step.data = data /\ step.decoders = <<RawFound>>
      BY <2>2, <3>1
    <3>3. QED
      BY <1>5, <3>2, Zenon DEF step, raw, head, Decoding!Headers
  <2>5. QED
    BY <2>3, <2>4
<1>6. CASE encoding = <<"raw">> /\ decoding = "running" /\ decoders = <<RawFound>>
  <2>1. RawFound.coding = "raw"
    BY DEF RawFound
  <2>2. step = [decoders |-> <<Decoding!Decompress(RawFound, data).decoder>>,
                data |-> Decoding!Decompress(RawFound, data).data]
    BY <1>1, <1>4, <1>6, <2>1, RawDecoded
  <2> HIDE DEF raw, step
  <2>3. Decoding!Decompress(RawFound, data) = [decoder |-> RawFound, data |-> data]
    BY <1>1, RawDecoded
  <2>4. step.data = data /\ step.decoders = <<RawFound>>
    BY <2>2, <2>3
  <2>5. QED
    BY <1>6, <2>4, Zenon DEF step, raw, head, Decoding!Headers
<1>7. QED
  BY <1>3, <1>5, <1>6 DEF DecodersKept

\* A chunk of the wire.
LEMMA CutReceive ==
    ASSUME CutInv, Decoding!Receive
    PROVE  CutInv'
<1>1. PICK n \in 0 .. MaxChunk, data \in Decoding!SeqOf(Decoding!Symbols, MaxChunk) :
         LET raw == SubSeq(Decoding!Headers, 1, n) \o data
             step == Decoding!DecodeAll(decoders, raw)
             failed == \E i \in DOMAIN step.decoders : step.decoders[i].failed IN
         /\ decoding \in {"fresh", "running", "short"}
         /\ n <= Len(Decoding!Headers) /\ (data # <<>> => n = Len(Decoding!Headers))
         /\ Len(raw) \in 1 .. MaxChunk
         /\ Len(content) + Len(data) <= MaxLength
         /\ decoders' = step.decoders
         /\ decoding' = CASE failed -> "failed"
                          [] decoding = "fresh" /\ encoding = <<"raw">> /\ Len(raw) < 2 -> "short"
                          [] OTHER -> IF decoding = "short" THEN "short" ELSE "running"
         /\ IF failed THEN UNCHANGED <<bytes, lead, text, lines, content>>
            ELSE Decoding!Decoded(step.data)
         /\ UNCHANGED <<encoding, size>>
  BY Zenon DEF Decoding!Receive
<1> DEFINE raw == SubSeq(Decoding!Headers, 1, n) \o data
           step == Decoding!DecodeAll(decoders, raw)
           failed == \E i \in DOMAIN step.decoders : step.decoders[i].failed
           short == decoding = "fresh" /\ encoding = <<"raw">> /\ Len(raw) < 2
<1>2. /\ decoding \in {"fresh", "running", "short"}
      /\ n <= Len(Decoding!Headers) /\ (data # <<>> => n = Len(Decoding!Headers))
      /\ decoders' = step.decoders
      /\ encoding' = encoding /\ size' = size
  BY <1>1, Zenon
<1>3. decoding' = CASE failed -> "failed" [] short -> "short"
                    [] OTHER -> IF decoding = "short" THEN "short" ELSE "running"
  BY <1>1, Zenon
<1>4. ~failed => Decoding!Decoded(step.data)
  BY <1>1, Zenon
<1>5. data \in Seq(Decoding!Symbols)
  BY DEF Decoding!SeqOf
<1> HIDE DEF failed, short
<1>6. /\ decoding' \in {"failed", "short", "running"}
      /\ decoding' = "failed" => failed
      /\ decoding' = "short" => short \/ decoding = "short"
      /\ decoding' = "running" => ~failed /\ ~short /\ decoding # "short"
  BY <1>3
<1>7. size \in Nat /\ (decoding = "short" => encoding = <<"raw">>)
      /\ (decoding \in {"fresh", "running"} => StagesKept /\ DecodersKept)
  BY DEF CutInv
<1>8. ASSUME decoding \in {"fresh", "running"}
      PROVE  \/ step.data = data /\ step.decoders \in Seq(Stream)
             \/ encoding = <<"raw">> /\ step.data = data /\ step.decoders = <<RawFound>>
             \/ short
  <2>1. n \in 0 .. Len(Decoding!Headers)
    BY <1>2
  <2>2. QED
    BY <1>2, <1>5, <1>7, <1>8, <2>1, ChunkReceived DEF short
<1> HIDE DEF raw, step
<1>9. ASSUME decoding' \in {"short", "failed"} PROVE encoding' = <<"raw">>
  <2>1. CASE decoding = "short" \/ short
    BY <1>2, <1>7, <2>1, Zenon DEF short
  <2>2. CASE ~(decoding = "short" \/ short)
    <3>1. failed /\ decoding \in {"fresh", "running"}
      BY <1>2, <1>6, <1>9, <2>2
    <3>2. step.decoders \notin Seq(Stream)
      <4>1. ASSUME step.decoders \in Seq(Stream) PROVE FALSE
        <5>1. PICK i \in DOMAIN step.decoders : step.decoders[i].failed
          BY <3>1 DEF failed
        <5>2. step.decoders[i] \in Stream
          BY <4>1, <5>1
        <5>3. step.decoders[i].failed = FALSE
          BY <5>2 DEF Stream
        <5>4. QED
          BY <5>1, <5>3
      <4>2. QED
        BY <4>1
    <3>3. QED
      BY <1>2, <1>8, <2>2, <3>1, <3>2, Zenon
  <2>3. QED
    BY <2>1, <2>2
<1>10. ASSUME decoding' = "running" PROVE StagesKept' /\ DecodersKept'
  <2>1. decoding \in {"fresh", "running"} /\ ~failed /\ ~short /\ StagesKept
    BY <1>2, <1>6, <1>7, <1>10
  <2>2. step.data = data /\ (step.decoders \in Seq(Stream) \/ (encoding = <<"raw">> /\ step.decoders = <<RawFound>>))
    BY <1>8, <2>1, Zenon
  <2>3. DecodersKept'
    <3>1. decoders' \in Seq(Stream) \/ (encoding' = <<"raw">> /\ decoding' = "running" /\ decoders' = <<RawFound>>)
      BY <1>2, <1>10, <2>2, Zenon
    <3>2. QED
      BY <3>1, Zenon DEF DecodersKept, RawFound
  <2>4. Decoding!Decoded(data)
    BY <1>4, <2>1, <2>2
  <2> DEFINE letters == Decoding!DecodeText(lead, data)
             all == content \o data
             whole == Decoding!DecodeText(FALSE, all)
             taken == Decoding!Chunk(bytes, data)
             written == Decoding!Chunk(text, letters.text)
             split == IF letters.text = <<>> THEN lines ELSE Decoding!DecodeLines(lines, letters.text)
  <2>5. bytes' = taken /\ lead' = letters.lead /\ text' = written /\ lines' = split /\ content' = all
    BY <2>4, Zenon DEF Decoding!Decoded
  <2>6. /\ all \in Seq(Decoding!Symbols) /\ letters.lead = whole.lead
        /\ taken \in ChunkerState /\ ChunksKept(taken, all)
        /\ written \in ChunkerState /\ ChunksKept(written, whole.text)
        /\ split \in LineState /\ LinesKept(split, whole.text)
    BY <1>5, <1>7, <2>1, ContentTaken
  <2> HIDE DEF letters, all, taken, written, split
  <2>7. StagesKept'
    <3>1. content' \in Seq(Decoding!Symbols) /\ lead' = Decoding!DecodeText(FALSE, content').lead
      BY <2>5, <2>6
    <3>2. ChunksKept(bytes, content)'
      BY <1>2, <2>5, <2>6 DEF ChunksKept
    <3>3. ChunksKept(text, Decoding!DecodeText(FALSE, content).text)'
      BY <1>2, <2>5, <2>6 DEF ChunksKept
    <3>4. LinesKept(lines, Decoding!DecodeText(FALSE, content).text)'
      BY <2>5, <2>6 DEF LinesKept
    <3>5. bytes' \in ChunkerState /\ text' \in ChunkerState /\ lines' \in LineState
      BY <2>5, <2>6
    <3>6. QED
      BY <3>1, <3>2, <3>3, <3>4, <3>5 DEF StagesKept
  <2>8. QED
    BY <2>3, <2>7
<1>11. QED
  BY <1>2, <1>6, <1>7, <1>9, <1>10 DEF CutInv

\* The end of the body.
LEMMA CutFlush ==
    ASSUME CutInv, Decoding!Flush
    PROVE  CutInv'
<1> DEFINE left == Decoding!FlushText(lead)
           all == IF left = <<>> THEN lines ELSE Decoding!DecodeLines(lines, left)
           whole == Decoding!DecodeText(FALSE, content)
           string == whole.text \o Decoding!FlushText(whole.lead)
           taken == Decoding!FlushChunker(bytes)
           written == Decoding!FlushChunker(Decoding!Chunk(text, left))
<1>1. /\ decoding \in {"fresh", "running"} /\ decoding' = "done"
      /\ bytes' = taken /\ text' = written /\ lines' = Decoding!FlushLines(all)
      /\ size' = size /\ content' = content
  BY Zenon DEF Decoding!Flush
<1>2. size \in Nat /\ StagesKept
  BY <1>1 DEF CutInv
<1>3. /\ Decoding!FlattenSeq(taken.chunks) = content /\ Decoding!Sized(taken.chunks)
      /\ Decoding!FlattenSeq(written.chunks) = string /\ Decoding!Sized(written.chunks)
      /\ Decoding!FlushLines(all).out = Decoding!SplitLines(string)
  BY <1>2, ContentFlushed
<1> HIDE DEF all, taken, written
<1>4. Decoding!FlattenSeq(bytes'.chunks) = content' /\ Decoding!FlattenSeq(text'.chunks) = string
      /\ lines'.out = Decoding!SplitLines(string)
  BY <1>1, <1>3
<1>5. Decoding!Sized(bytes.chunks)' /\ Decoding!Sized(text.chunks)'
  BY <1>1, <1>3 DEF Decoding!Sized
<1>6. string = Decoding!DecodeText(FALSE, content').text
                  \o Decoding!FlushText(Decoding!DecodeText(FALSE, content').lead)
  BY <1>1
<1> HIDE DEF string
<1>7. Decoding!ChunkingTransparent'
  <2>1. decoding' # "failed"
    BY <1>1
  <2>2. QED
    BY <1>4, <1>5, <1>6, <2>1, Zenon DEF Decoding!ChunkingTransparent
<1>8. QED
  BY <1>1, <1>2, <1>7 DEF CutInv

\* The stages stay as they are while nothing moves.
LEMMA CutStays ==
    ASSUME CutInv, UNCHANGED <<encoding, size, decoders, bytes, lead, text, lines, content, decoding>>
    PROVE  CutInv'
<1>1. /\ encoding' = encoding /\ size' = size /\ decoders' = decoders /\ bytes' = bytes /\ lead' = lead
      /\ text' = text /\ lines' = lines /\ content' = content /\ decoding' = decoding
  OBVIOUS
<1>2. StagesKept => StagesKept'
  <2>1. ChunksKept(bytes, content) => ChunksKept(bytes, content)'
    BY <1>1 DEF ChunksKept
  <2>2. ChunksKept(text, Decoding!DecodeText(FALSE, content).text)
           => ChunksKept(text, Decoding!DecodeText(FALSE, content).text)'
    BY <1>1 DEF ChunksKept
  <2>3. LinesKept(lines, Decoding!DecodeText(FALSE, content).text)
           => LinesKept(lines, Decoding!DecodeText(FALSE, content).text)'
    BY <1>1 DEF LinesKept
  <2>4. QED
    BY <1>1, <2>1, <2>2, <2>3 DEF StagesKept
<1>3. DecodersKept => DecodersKept'
  BY <1>1, Zenon DEF DecodersKept, RawFound, RawDecoder
<1>4. Decoding!ChunkingTransparent => Decoding!ChunkingTransparent'
  BY <1>1, Zenon DEF Decoding!ChunkingTransparent, Decoding!Sized
<1>5. QED
  BY <1>1, <1>2, <1>3, <1>4 DEF CutInv

\* The invariant is stronger than the property.
LEMMA CutFollows ==
    ASSUME CutInv
    PROVE  Decoding!ChunkingTransparent
<1>1. decoding = "done" => Decoding!ChunkingTransparent
  BY DEF CutInv
<1>2. decoding = "failed" => encoding = <<"raw">>
  BY DEF CutInv
<1>3. QED
  BY <1>1, <1>2, Zenon DEF Decoding!ChunkingTransparent

\* Only the part that decodes is spoken of.
DecodingInv == part = "decoding" => CutInv

\* Whatever the body, the codings, the chunk size and the chunks it comes in:
\* iter_bytes, iter_text and iter_lines give what the body decoded at once
\* would give, cut to the size that was asked for.
THEOREM ChunkingDoesNotShow == Spec => []ChunkingTransparent
<1>1. Init => DecodingInv
  BY CutStart DEF Init, DecodingInv
<1>2. DecodingInv /\ [Next]_<<part, dvars, cvars, uvars, rvars, evars, ovars>> => DecodingInv'
  <2> SUFFICES ASSUME DecodingInv, [Next]_<<part, dvars, cvars, uvars, rvars, evars, ovars>>,
                      part' = "decoding"
               PROVE  CutInv'
    BY DEF DecodingInv
  <2>1. part = "decoding" /\ CutInv
    BY DEF DecodingInv, Next
  <2>2. CASE Decoding!Next
    BY <2>1, <2>2, CutReceive, CutFlush DEF Decoding!Next
  <2>3. CASE UNCHANGED dvars
    <3>1. UNCHANGED <<encoding, size, decoders, bytes, lead, text, lines, content, decoding>>
      BY <2>3 DEF dvars
    <3>2. QED
      BY <2>1, <3>1, CutStays
  <2>4. QED
    BY <2>1, <2>2, <2>3 DEF Next
<1>3. DecodingInv => ChunkingTransparent
  BY CutFollows DEF DecodingInv, ChunkingTransparent
<1>4. QED
  BY <1>1, <1>2, <1>3, PTL DEF Spec

-----------------------------------------------------------------------------
(* What a client sends under a name.                                        *)

\* The values of headers, joined or not, and the lines.
HeaderTexts == Pieces

Lines == [name : HeaderNames, value : HeaderTexts]

\* What is added for a line.
LEMMA ListGoesOn ==
    ASSUME NEW name, NEW list \in Seq(HeaderTexts), NEW e \in Lines
    PROVE  list \o (IF e.name = name THEN <<e.value>> ELSE <<>>) \in Seq(HeaderTexts)
<1>1. <<e.value>> \in Seq(HeaderTexts) /\ <<>> \in Seq(HeaderTexts)
  BY EmptySeq DEF Lines
<1>2. QED
  BY <1>1

\* What is kept of a line.
LEMMA WithoutGoesOn ==
    ASSUME NEW names, NEW list \in Seq(Lines), NEW e \in Lines
    PROVE  list \o (IF e.name \in names THEN <<>> ELSE <<e>>) \in Seq(Lines)
<1>1. <<e>> \in Seq(Lines) /\ <<>> \in Seq(Lines)
  BY EmptySeq
<1>2. QED
  BY <1>1

\* The values under one name, line by line.
LEMMA ListEquations ==
    ASSUME NEW name
    PROVE  /\ Config!GetList(<<>>, name) = <<>>
           /\ \A s \in Seq(Lines) :
                 /\ Config!GetList(s, name) \in Seq(HeaderTexts)
                 /\ \A e \in Lines :
                       Config!GetList(Append(s, e), name) =
                           Config!GetList(s, name) \o (IF e.name = name THEN <<e.value>> ELSE <<>>)
<1> DEFINE A == Lines
           start == <<>>
           step == [p \in Seq(HeaderTexts) \X A |-> p[1] \o (IF p[2].name = name THEN <<p[2].value>> ELSE <<>>)]
           Eq(f, s) == f = [i \in 0 .. Len(s) |-> IF i = 0 THEN start
                                                  ELSE f[i - 1] \o (IF s[i].name = name THEN <<s[i].value>> ELSE <<>>)]
           run(s) == CHOOSE f : Eq(f, s)
           Run(s) == Runs(Seq(HeaderTexts), step, start, s)
<1>1. start \in Seq(HeaderTexts)
  BY EmptySeq
<1>2. step \in [Seq(HeaderTexts) \X A -> Seq(HeaderTexts)]
       /\ \A x \in Seq(HeaderTexts), y \in A : step[<<x, y>>] = x \o (IF y.name = name THEN <<y.value>> ELSE <<>>)
  <2>1. ASSUME NEW p \in Seq(HeaderTexts) \X A
        PROVE  p[1] \o (IF p[2].name = name THEN <<p[2].value>> ELSE <<>>) \in Seq(HeaderTexts)
    <3>1. p[1] \in Seq(HeaderTexts) /\ p[2] \in Lines
      OBVIOUS
    <3>2. QED
      BY <3>1, ListGoesOn
  <2>2. step \in [Seq(HeaderTexts) \X A -> Seq(HeaderTexts)]
    BY <2>1
  <2>3. QED
    BY <2>2
<1>3. ASSUME NEW s \in Seq(A) PROVE run(s) \in Run(s)
  <2> HIDE DEF step, start, A
  <2>1. Len(s) \in Nat /\ \A i \in 1 .. Len(s) : s[i] \in A /\ i - 1 \in 0 .. Len(s)
    OBVIOUS
  <2>2. \A i \in 0 .. Len(s) : i # 0 => i \in 1 .. Len(s)
    BY <2>1
  <2>3. PICK g : g \in Run(s)
    BY <1>1, <1>2, RunExists
  <2>4. Eq(g, s)
    BY <1>2, <2>1, <2>2, <2>3 DEF Runs
  <2>5. Eq(run(s), s)
    <3> HIDE DEF Eq
    <3>1. QED
      BY <2>4
  <2> DEFINE f == run(s)
  <2> HIDE DEF run
  <2> DEFINE more(i) == (IF s[i].name = name THEN <<s[i].value>> ELSE <<>>)
  <2>6. f = [i \in 0 .. Len(s) |-> IF i = 0 THEN start ELSE f[i - 1] \o more(i)]
    BY <2>5
  <2>7. \A i \in 1 .. Len(s) : f[i - 1] \in Seq(HeaderTexts) => step[<<f[i - 1], s[i]>>] = f[i - 1] \o more(i)
    BY <1>2, <2>1
  <2> HIDE DEF f, more
  <2>8. /\ f = [i \in 0 .. Len(s) |-> f[i]] /\ f[0] = start
        /\ \A i \in 1 .. Len(s) : f[i] = f[i - 1] \o more(i)
    <3>1. f = [i \in 0 .. Len(s) |-> f[i]]
      BY <2>6, Zenon
    <3>2. \A i \in 0 .. Len(s) : f[i] = IF i = 0 THEN start ELSE f[i - 1] \o more(i)
      BY <2>6, Zenon
    <3>3. 0 \in 0 .. Len(s) /\ \A i \in 1 .. Len(s) : i \in 0 .. Len(s) /\ i # 0
      BY <2>1
    <3>4. QED
      BY <3>1, <3>2, <3>3, Zenon
  <2>9. f \in Run(s)
    BY <1>1, <1>2, <2>7, <2>8, RunIsRun
  <2>10. QED
    BY <2>9 DEF f
<1>4. \A s : Config!GetList(s, name) = run(s)[Len(s)]
  BY DEF Config!GetList
<1> HIDE DEF run, start, step
<1>5. Config!GetList(<<>>, name) = start
  BY <1>3, <1>4, EmptySeq DEF Runs
<1>6. ASSUME NEW s \in Seq(A)
      PROVE  /\ Config!GetList(s, name) \in Seq(HeaderTexts)
             /\ \A e \in A : Config!GetList(Append(s, e), name) =
                                 Config!GetList(s, name) \o (IF e.name = name THEN <<e.value>> ELSE <<>>)
  <2>1. Config!GetList(s, name) \in Seq(HeaderTexts)
    BY <1>3, <1>4 DEF Runs
  <2>2. ASSUME NEW e \in A
        PROVE  Config!GetList(Append(s, e), name) = step[<<Config!GetList(s, name), e>>]
    <3>1. Append(s, e) \in Seq(A)
      BY AppendProperties
    <3>2. run(s) \in Run(s) /\ run(Append(s, e)) \in Run(Append(s, e))
      BY <1>3, <3>1
    <3>3. run(Append(s, e))[Len(Append(s, e))] = step[<<run(s)[Len(s)], e>>]
      <4> HIDE DEF A
      <4>1. QED
        BY <3>2, RunGoesOn
    <3>4. QED
      BY <1>4, <3>3
  <2>3. QED
    BY <1>2, <2>1, <2>2
<1>7. QED
  BY <1>5, <1>6 DEF start

\* Taking names away, line by line.
LEMMA WithoutEquations ==
    ASSUME NEW names
    PROVE  /\ Config!Without(<<>>, names) = <<>>
           /\ \A s \in Seq(Lines) :
                 /\ Config!Without(s, names) \in Seq(Lines)
                 /\ \A e \in Lines :
                       Config!Without(Append(s, e), names) =
                           Config!Without(s, names) \o (IF e.name \in names THEN <<>> ELSE <<e>>)
<1> DEFINE A == Lines
           start == <<>>
           step == [p \in Seq(Lines) \X A |-> p[1] \o (IF p[2].name \in names THEN <<>> ELSE <<p[2]>>)]
           Eq(f, s) == f = [i \in 0 .. Len(s) |-> IF i = 0 THEN start
                                                  ELSE f[i - 1] \o (IF s[i].name \in names THEN <<>> ELSE <<s[i]>>)]
           run(s) == CHOOSE f : Eq(f, s)
           Run(s) == Runs(Seq(Lines), step, start, s)
<1>1. start \in Seq(Lines)
  BY EmptySeq
<1>2. step \in [Seq(Lines) \X A -> Seq(Lines)]
       /\ \A x \in Seq(Lines), y \in A : step[<<x, y>>] = x \o (IF y.name \in names THEN <<>> ELSE <<y>>)
  BY WithoutGoesOn
<1>3. ASSUME NEW s \in Seq(A) PROVE run(s) \in Run(s)
  <2> HIDE DEF step, start, A
  <2>1. Len(s) \in Nat /\ \A i \in 1 .. Len(s) : s[i] \in A /\ i - 1 \in 0 .. Len(s)
    OBVIOUS
  <2>2. \A i \in 0 .. Len(s) : i # 0 => i \in 1 .. Len(s)
    BY <2>1
  <2>3. PICK g : g \in Run(s)
    BY <1>1, <1>2, RunExists
  <2>4. Eq(g, s)
    BY <1>2, <2>1, <2>2, <2>3 DEF Runs
  <2>5. Eq(run(s), s)
    <3> HIDE DEF Eq
    <3>1. QED
      BY <2>4
  <2> DEFINE f == run(s)
  <2> HIDE DEF run
  <2> DEFINE more(i) == (IF s[i].name \in names THEN <<>> ELSE <<s[i]>>)
  <2>6. f = [i \in 0 .. Len(s) |-> IF i = 0 THEN start ELSE f[i - 1] \o more(i)]
    BY <2>5
  <2>7. \A i \in 1 .. Len(s) : f[i - 1] \in Seq(Lines) => step[<<f[i - 1], s[i]>>] = f[i - 1] \o more(i)
    BY <1>2, <2>1
  <2> HIDE DEF f, more
  <2>8. /\ f = [i \in 0 .. Len(s) |-> f[i]] /\ f[0] = start
        /\ \A i \in 1 .. Len(s) : f[i] = f[i - 1] \o more(i)
    <3>1. f = [i \in 0 .. Len(s) |-> f[i]]
      BY <2>6, Zenon
    <3>2. \A i \in 0 .. Len(s) : f[i] = IF i = 0 THEN start ELSE f[i - 1] \o more(i)
      BY <2>6, Zenon
    <3>3. 0 \in 0 .. Len(s) /\ \A i \in 1 .. Len(s) : i \in 0 .. Len(s) /\ i # 0
      BY <2>1
    <3>4. QED
      BY <3>1, <3>2, <3>3, Zenon
  <2>9. f \in Run(s)
    BY <1>1, <1>2, <2>7, <2>8, RunIsRun
  <2>10. QED
    BY <2>9 DEF f
<1>4. \A s : Config!Without(s, names) = run(s)[Len(s)]
  BY DEF Config!Without
<1> HIDE DEF run, start, step
<1>5. Config!Without(<<>>, names) = start
  BY <1>3, <1>4, EmptySeq DEF Runs
<1>6. ASSUME NEW s \in Seq(A)
      PROVE  /\ Config!Without(s, names) \in Seq(Lines)
             /\ \A e \in A : Config!Without(Append(s, e), names) =
                                 Config!Without(s, names) \o (IF e.name \in names THEN <<>> ELSE <<e>>)
  <2>1. Config!Without(s, names) \in Seq(Lines)
    BY <1>3, <1>4 DEF Runs
  <2>2. ASSUME NEW e \in A
        PROVE  Config!Without(Append(s, e), names) = step[<<Config!Without(s, names), e>>]
    <3>1. Append(s, e) \in Seq(A)
      BY AppendProperties
    <3>2. run(s) \in Run(s) /\ run(Append(s, e)) \in Run(Append(s, e))
      BY <1>3, <3>1
    <3>3. run(Append(s, e))[Len(Append(s, e))] = step[<<run(s)[Len(s)], e>>]
      <4> HIDE DEF A
      <4>1. QED
        BY <3>2, RunGoesOn
    <3>4. QED
      BY <1>4, <3>3
  <2>3. QED
    BY <1>2, <2>1, <2>2
<1>7. QED
  BY <1>5, <1>6 DEF start

\* Lists of values, put together.
LEMMA NoTexts == <<>> \in Seq(HeaderTexts) /\ \A p \in Seq(HeaderTexts) : p \o <<>> = p /\ <<>> \o p = p
BY EmptySeq, ConcatEmptySeq

\* Lists of values can be put together from either end.
LEMMA ThreeLists ==
    \A p \in Seq(HeaderTexts), q \in Seq(HeaderTexts), r \in Seq(HeaderTexts) : (p \o q) \o r = p \o (q \o r)
OBVIOUS

\* A line is for its own name.
LEMMA OneMore ==
    ASSUME NEW name, NEW s \in Seq(Lines), NEW e \in Lines
    PROVE  Config!GetList(Append(s, e), name) =
               IF e.name = name THEN Append(Config!GetList(s, name), e.value) ELSE Config!GetList(s, name)
<1>1. Config!GetList(s, name) \in Seq(HeaderTexts) /\ e.value \in HeaderTexts
  BY ListEquations DEF Lines
<1>2. Config!GetList(Append(s, e), name) =
          Config!GetList(s, name) \o (IF e.name = name THEN <<e.value>> ELSE <<>>)
  BY ListEquations
<1> DEFINE list == Config!GetList(s, name)
           v == e.value
<1> HIDE DEF list, v
<1>3. list \o <<>> = list /\ list \o <<v>> = Append(list, v)
  BY <1>1, NoTexts DEF list, v
<1>4. QED
  BY <1>2, <1>3 DEF list, v

\* The names of a list of lines, and of one more.
LEMMA OneName ==
    ASSUME NEW s \in Seq(Lines), NEW e \in Lines
    PROVE  Config!NamesOf(Append(s, e)) = Config!NamesOf(s) \union {e.name}
<1> DEFINE u == Append(s, e)
<1>1. /\ Len(s) \in Nat /\ DOMAIN s = 1 .. Len(s) /\ DOMAIN u = 1 .. Len(s) + 1
      /\ u[Len(s) + 1] = e /\ \A i \in 1 .. Len(s) : u[i] = s[i]
  BY AppendProperties
<1> HIDE DEF u
<1>2. DOMAIN u = DOMAIN s \union {Len(s) + 1}
  BY <1>1
<1>3. \A i \in DOMAIN s : u[i].name = s[i].name
  BY <1>1
<1>4. QED
  BY <1>1, <1>2, <1>3 DEF u, Config!NamesOf

\* There is a value for the names of a list, and no other.
LEMMA NamesListed ==
    ASSUME NEW name
    PROVE  \A s \in Seq(Lines) : Config!GetList(s, name) = <<>> <=> name \notin Config!NamesOf(s)
<1> DEFINE X == {s \in Seq(Lines) : Config!GetList(s, name) = <<>> <=> name \notin Config!NamesOf(s)}
<1>1. <<>> \in X
  <2>1. Config!GetList(<<>>, name) = <<>> /\ <<>> \in Seq(Lines)
    BY ListEquations, EmptySeq
  <2>2. Config!NamesOf(<<>>) = {}
    BY DEF Config!NamesOf
  <2>3. QED
    BY <2>1, <2>2
<1>2. ASSUME NEW s \in Seq(Lines), NEW e \in Lines, s \in X PROVE Append(s, e) \in X
  <2>1. Append(s, e) \in Seq(Lines)
    OBVIOUS
  <2>2. Config!NamesOf(Append(s, e)) = Config!NamesOf(s) \union {e.name}
    BY OneName
  <2>3. CASE e.name = name
    <3>1. Config!GetList(Append(s, e), name) = Append(Config!GetList(s, name), e.value)
      BY <2>3, OneMore
    <3>2. Config!GetList(s, name) \in Seq(HeaderTexts) /\ e.value \in HeaderTexts
      BY ListEquations DEF Lines
    <3>3. Config!GetList(Append(s, e), name) # <<>>
      BY <3>1, <3>2
    <3>4. QED
      BY <2>1, <2>2, <2>3, <3>3
  <2>4. CASE e.name # name
    <3>1. Config!GetList(Append(s, e), name) = Config!GetList(s, name)
      BY <2>4, OneMore
    <3>2. QED
      BY <1>2, <2>1, <2>2, <2>4, <3>1
  <2>5. QED
    BY <2>3, <2>4
<1>3. Seq(Lines) \subseteq X
  <2> HIDE DEF X
  <2>1. QED
    BY <1>1, <1>2, AllSequences
<1>4. QED
  BY <1>3

\* A line on its own.
LEMMA LineAlone ==
    ASSUME NEW name, NEW e \in Lines
    PROVE  Config!GetList(<<e>>, name) = IF e.name = name THEN <<e.value>> ELSE <<>>
<1>1. <<>> \in Seq(Lines) /\ Append(<<>>, e) = <<e>> /\ Append(<<>>, e.value) = <<e.value>>
  BY EmptySeq
<1>2. Config!GetList(<<>>, name) = <<>>
  BY ListEquations
<1>3. QED
  BY <1>1, <1>2, OneMore, Zenon

\* Two lists, one behind the other.
LEMMA ListsTogether ==
    ASSUME NEW name, NEW p \in Seq(Lines)
    PROVE  \A q \in Seq(Lines) :
              Config!GetList(p \o q, name) = Config!GetList(p, name) \o Config!GetList(q, name)
<1> DEFINE List(s) == Config!GetList(s, name)
           X == {q \in Seq(Lines) : List(p \o q) = List(p) \o List(q)}
<1>1. List(<<>>) = <<>> /\ \A s \in Seq(Lines) : List(s) \in Seq(HeaderTexts)
  BY ListEquations
<1>2. \A s \in Seq(Lines), e \in Lines :
          List(Append(s, e)) = List(s) \o (IF e.name = name THEN <<e.value>> ELSE <<>>)
  BY ListEquations
<1>3. <<>> \in X
  <2>1. <<>> \in Seq(Lines) /\ p \o <<>> = p
    BY EmptySeq, ConcatEmptySeq
  <2>2. List(p) \o List(<<>>) = List(p)
    BY <1>1, NoTexts
  <2>3. QED
    BY <2>1, <2>2
<1>4. ASSUME NEW q \in Seq(Lines), NEW e \in Lines, q \in X PROVE Append(q, e) \in X
  <2> DEFINE more == IF e.name = name THEN <<e.value>> ELSE <<>>
  <2>1. p \o q \in Seq(Lines) /\ Append(q, e) \in Seq(Lines) /\ p \o Append(q, e) = Append(p \o q, e)
    OBVIOUS
  <2>2. more \in Seq(HeaderTexts)
    BY EmptySeq DEF Lines
  <2>3. List(Append(p \o q, e)) = List(p \o q) \o more /\ List(Append(q, e)) = List(q) \o more
    BY <1>2, <2>1
  <2>4. List(p \o q) = List(p) \o List(q)
    BY <1>4
  <2> HIDE DEF List, more
  <2>5. (List(p) \o List(q)) \o more = List(p) \o (List(q) \o more)
    BY <1>1, <2>2, ThreeLists
  <2>6. QED
    BY <2>1, <2>3, <2>4, <2>5
<1>5. Seq(Lines) \subseteq X
  <2> HIDE DEF X
  <2>1. QED
    BY <1>3, <1>4, AllSequences
<1>6. QED
  BY <1>5

\* What is left without some names.
LEMMA ListWithout ==
    ASSUME NEW names, NEW name
    PROVE  \A s \in Seq(Lines) :
              /\ Config!Without(s, names) \in Seq(Lines)
              /\ Config!GetList(Config!Without(s, names), name) =
                     IF name \in names THEN <<>> ELSE Config!GetList(s, name)
<1> DEFINE Kept(s) == Config!Without(s, names)
           X == {s \in Seq(Lines) : Config!GetList(Kept(s), name) =
                                        IF name \in names THEN <<>> ELSE Config!GetList(s, name)}
<1>1. Kept(<<>>) = <<>> /\ \A s \in Seq(Lines) : Kept(s) \in Seq(Lines)
  BY WithoutEquations
<1>2. ASSUME NEW s \in Seq(Lines), NEW e \in Lines
      PROVE  Kept(Append(s, e)) = IF e.name \in names THEN Kept(s) ELSE Append(Kept(s), e)
  <2>1. Kept(Append(s, e)) = Kept(s) \o (IF e.name \in names THEN <<>> ELSE <<e>>)
    BY WithoutEquations
  <2>2. Kept(s) \o <<>> = Kept(s) /\ Kept(s) \o <<e>> = Append(Kept(s), e)
    <3> HIDE DEF Kept
    <3>1. QED
      BY <1>1, ConcatEmptySeq
  <2>3. QED
    BY <2>1, <2>2
<1>3. <<>> \in X
  <2>1. Config!GetList(<<>>, name) = <<>> /\ <<>> \in Seq(Lines)
    BY ListEquations, EmptySeq
  <2>2. QED
    BY <1>1, <2>1
<1>4. ASSUME NEW s \in Seq(Lines), NEW e \in Lines, s \in X PROVE Append(s, e) \in X
  <2>1. Append(s, e) \in Seq(Lines) /\ Kept(s) \in Seq(Lines)
    BY <1>1
  <2>2. Kept(Append(s, e)) = IF e.name \in names THEN Kept(s) ELSE Append(Kept(s), e)
    BY <1>2
  <2>3. Config!GetList(Kept(s), name) = IF name \in names THEN <<>> ELSE Config!GetList(s, name)
    BY <1>4
  <2> HIDE DEF Kept
  <2>4. Config!GetList(Append(s, e), name) =
            IF e.name = name THEN Append(Config!GetList(s, name), e.value) ELSE Config!GetList(s, name)
    BY OneMore
  <2>5. Config!GetList(Append(Kept(s), e), name) =
            IF e.name = name THEN Append(Config!GetList(Kept(s), name), e.value)
                             ELSE Config!GetList(Kept(s), name)
    BY <2>1, OneMore
  <2>6. Config!GetList(Kept(Append(s, e)), name) =
            IF name \in names THEN <<>> ELSE Config!GetList(Append(s, e), name)
    <3>1. CASE e.name \in names
      BY <2>2, <2>3, <2>4, <3>1
    <3>2. CASE e.name \notin names
      BY <2>2, <2>3, <2>4, <2>5, <3>2
    <3>3. QED
      BY <3>1, <3>2
  <2>7. QED
    BY <2>1, <2>6
<1>5. Seq(Lines) \subseteq X
  <2> HIDE DEF X
  <2>1. QED
    BY <1>3, <1>4, AllSequences
<1>6. QED
  BY <1>1, <1>5

\* Headers.update: the new ones are there, and what they do not name is kept.
LEMMA ListUpdated ==
    ASSUME NEW name, NEW old \in Seq(Lines), NEW new \in Seq(Lines)
    PROVE  /\ Config!UpdateHeaders(old, new) \in Seq(Lines)
           /\ Config!GetList(Config!UpdateHeaders(old, new), name) =
                  IF name \in Config!NamesOf(new) THEN Config!GetList(new, name)
                                                  ELSE Config!GetList(old, name)
<1> DEFINE kept == Config!Without(old, Config!NamesOf(new))
<1>1. /\ kept \in Seq(Lines)
      /\ Config!GetList(kept, name) =
             IF name \in Config!NamesOf(new) THEN <<>> ELSE Config!GetList(old, name)
  BY ListWithout
<1>2. Config!UpdateHeaders(old, new) = kept \o new
  BY DEF Config!UpdateHeaders
<1> HIDE DEF kept
<1>3. Config!GetList(kept \o new, name) = Config!GetList(kept, name) \o Config!GetList(new, name)
  BY <1>1, ListsTogether
<1>4. Config!GetList(new, name) \in Seq(HeaderTexts) /\ Config!GetList(old, name) \in Seq(HeaderTexts)
  BY ListEquations
<1>5. name \notin Config!NamesOf(new) => Config!GetList(new, name) = <<>>
  BY NamesListed
<1>6. QED
  BY <1>1, <1>2, <1>3, <1>4, <1>5, NoTexts

\* One value is joined with nothing.
LEMMA JoinedAlone ==
    ASSUME NEW v
    PROVE  Config!FlattenSeq(<<v>>) = v
<1> DEFINE Eq(f) == f = [i \in 1 .. 1 |-> IF i = 1 THEN <<v>>[i] ELSE f[i - 1] \o <<v>>[i]]
           flat == CHOOSE f : Eq(f)
<1>1. Eq([i \in 1 .. 1 |-> v])
  OBVIOUS
<1>2. Eq(flat)
  <2> HIDE DEF Eq
  <2>1. QED
    BY <1>1
<1>3. Len(<<v>>) = 1
  OBVIOUS
<1>4. Config!FlattenSeq(<<v>>) = flat[1]
  BY <1>3 DEF Config!FlattenSeq
<1> HIDE DEF flat
<1>5. QED
  BY <1>2, <1>4

\* What is joined is a value.
LEMMA JoinedText ==
    \A list \in Seq(Lines), name \in HeaderNames : Config!Joined(list, name) \in HeaderTexts
<1>1. ASSUME NEW list \in Seq(Lines), NEW name PROVE Config!Joined(list, name) \in HeaderTexts
  <2> DEFINE texts == Config!GetList(list, name)
  <2>1. texts \in Seq(Pieces)
    BY ListEquations DEF HeaderTexts
  <2>2. Config!Joined(list, name) = Decoding!FlattenSeq(texts)
    BY DEF Config!Joined, Config!FlattenSeq, Decoding!FlattenSeq
  <2> HIDE DEF texts
  <2>3. QED
    BY <2>1, <2>2, FlattenEquations DEF HeaderTexts
<1>2. QED
  BY <1>1

\* The lists of a caller are lists.
LEMMA CallersLists == Config!Headers \subseteq Seq(Lines)
<1> DEFINE Given == [name : HeaderNames, value : Seq(HeaderValues)]
<1>1. Given \subseteq Lines
  <2>1. HeaderValues \subseteq Signs
    BY DEF Signs
  <2>2. Seq(HeaderValues) \subseteq HeaderTexts
    BY <2>1 DEF HeaderTexts, Pieces
  <2>3. QED
    BY <2>2 DEF Lines
<1>2. Config!Headers = Seq(Given)
  BY DEF Config!Headers
<1> HIDE DEF Given
<1>3. QED
  BY <1>1, <1>2

\* Headers.__setitem__: one value under the name, the others as before.
LEMMA ListSet ==
    ASSUME NEW list \in Seq(Lines), NEW own \in HeaderNames, NEW v \in HeaderTexts, NEW name
    PROVE  /\ Config!SetHeader(list, own, v) \in Seq(Lines)
           /\ Config!GetList(Config!SetHeader(list, own, v), name) =
                  IF name = own THEN <<v>> ELSE Config!GetList(list, name)
<1> DEFINE e == Config!Header(own, v)
<1>1. e \in Lines /\ e.name = own /\ e.value = v
  BY DEF Lines, Config!Header
<1>2. CASE own \notin Config!NamesOf(list)
  <2>1. Config!SetHeader(list, own, v) = Append(list, e)
    BY <1>2 DEF Config!SetHeader
  <2> HIDE DEF e
  <2>2. Config!GetList(Append(list, e), name) =
            IF own = name THEN Append(Config!GetList(list, name), v) ELSE Config!GetList(list, name)
    BY <1>1, OneMore
  <2>3. own = name => Config!GetList(list, name) = <<>>
    BY <1>2, NamesListed
  <2>4. Append(<<>>, v) = <<v>> /\ Append(list, e) \in Seq(Lines)
    BY <1>1
  <2>5. QED
    BY <2>1, <2>2, <2>3, <2>4
<1>3. CASE own \in Config!NamesOf(list)
  <2> DEFINE Is(i) == /\ list[i].name = own
                      /\ \A j \in 1 .. i - 1 : list[j].name # own
             first == CHOOSE i \in DOMAIN list : Is(i)
             before == SubSeq(list, 1, first - 1)
             after == SubSeq(list, first + 1, Len(list))
             kept == Config!Without(after, {own})
  <2>1. \E i \in DOMAIN list : Is(i)
    <3> DEFINE T == {i \in DOMAIN list : list[i].name = own}
    <3>1. T \subseteq Nat /\ T # {}
      BY <1>3 DEF Config!NamesOf
    <3>2. PICK n \in T : \A m \in T : n <= m
      <4> HIDE DEF T
      <4>1. QED
        BY <3>1, LeastNumber
    <3>3. n \in DOMAIN list /\ list[n].name = own
      OBVIOUS
    <3>4. ASSUME NEW j \in 1 .. n - 1 PROVE list[j].name # own
      <4>1. j \in DOMAIN list /\ ~(n <= j)
        BY <3>3
      <4>2. QED
        BY <3>2, <4>1
    <3>5. QED
      BY <3>3, <3>4
  <2>2. first \in DOMAIN list /\ Is(first)
    <3> HIDE DEF Is
    <3>1. QED
      BY <2>1
  <2>3. Config!SetHeader(list, own, v) = before \o <<e>> \o kept
    BY <1>3 DEF Config!SetHeader
  <2> DEFINE there == list[first]
  <2> HIDE DEF first
  <2>4. /\ before \in Seq(Lines) /\ after \in Seq(Lines) /\ there \in Lines /\ <<there>> \in Seq(Lines)
        /\ first \in 1 .. Len(list) /\ Len(list) \in Nat
    BY <2>2
  <2>5. list = before \o (<<there>> \o after)
    <3>1. /\ Len(before) = first - 1 /\ Len(after) = Len(list) - first
          /\ \A i \in 1 .. first - 1 : before[i] = list[i]
          /\ \A i \in 1 .. Len(list) - first : after[i] = list[first + i]
      BY <2>4
    <3> DEFINE all == before \o (<<there>> \o after)
    <3> HIDE DEF before, after, there
    <3>2. all \in Seq(Lines) /\ Len(all) = Len(list)
      <4> DEFINE rest == <<there>> \o after
      <4>1. rest \in Seq(Lines) /\ Len(rest) = 1 + Len(after)
        BY <2>4
      <4> HIDE DEF rest
      <4>2. before \o rest \in Seq(Lines) /\ Len(before \o rest) = Len(before) + Len(rest)
        BY <2>4, <4>1, ConcatProperties
      <4>3. Len(before \o rest) = Len(list)
        BY <2>4, <3>1, <4>1, <4>2
      <4>4. QED
        BY <4>2, <4>3 DEF rest
    <3>3. ASSUME NEW i \in 1 .. Len(list) PROVE all[i] = list[i]
      <4>1. CASE i < first
        BY <2>4, <3>1, <4>1
      <4>2. CASE i = first
        <5>1. all[i] = there
          BY <2>4, <3>1, <4>2
        <5>2. QED
          BY <4>2, <5>1 DEF there
      <4>3. CASE i > first
        <5>1. i - first \in 1 .. Len(list) - first /\ first + (i - first) = i
          BY <2>4, <4>3
        <5>2. all[i] = after[i - first]
          BY <2>4, <3>1, <4>3
        <5>3. QED
          BY <3>1, <5>1, <5>2
      <4> HIDE DEF all
      <4>4. i \in Int /\ first \in Int
        BY <2>4
      <4>5. QED
        BY <4>1, <4>2, <4>3, <4>4
    <3> HIDE DEF all
    <3>4. list = all
      BY <3>2, <3>3, SeqEqual
    <3>5. QED
      BY <3>4 DEF all
  <2>6. own \notin Config!NamesOf(before)
    <3>1. DOMAIN before = 1 .. first - 1 /\ \A i \in 1 .. first - 1 : before[i] = list[i]
      BY <2>4
    <3> HIDE DEF before
    <3>2. QED
      BY <2>2, <3>1 DEF Config!NamesOf
  <2>7. there.name = own
    BY <2>2
  <2> HIDE DEF e, before, after, there, Is
  <2>8. /\ kept \in Seq(Lines)
        /\ Config!GetList(kept, name) = IF name = own THEN <<>> ELSE Config!GetList(after, name)
    BY <2>4, ListWithout
  <2> DEFINE List(s) == Config!GetList(s, name)
  <2>9. List(list) = List(before) \o (List(<<there>>) \o List(after))
    <3>1. <<there>> \o after \in Seq(Lines)
      BY <2>4
    <3>2. List(before \o (<<there>> \o after)) = List(before) \o List(<<there>> \o after)
      BY <2>4, <3>1, ListsTogether
    <3>3. List(<<there>> \o after) = List(<<there>>) \o List(after)
      BY <2>4, ListsTogether
    <3>4. QED
      BY <2>5, <3>2, <3>3
  <2>10. /\ before \o <<e>> \in Seq(Lines) /\ before \o <<e>> \o kept \in Seq(Lines)
         /\ <<e>> \in Seq(Lines)
    <3> HIDE DEF kept
    <3>1. QED
      BY <1>1, <2>4, <2>8
  <2>11. List(before \o <<e>> \o kept) = (List(before) \o List(<<e>>)) \o List(kept)
    <3>1. List(before \o <<e>>) = List(before) \o List(<<e>>)
      BY <2>4, <2>10, ListsTogether
    <3>2. List((before \o <<e>>) \o kept) = List(before \o <<e>>) \o List(kept)
      <4> HIDE DEF kept
      <4>1. QED
        BY <2>8, <2>10, ListsTogether
    <3>3. QED
      BY <3>1, <3>2
  <2>12. /\ List(before) \in Seq(HeaderTexts) /\ List(after) \in Seq(HeaderTexts)
         /\ List(<<there>>) = (IF own = name THEN <<there.value>> ELSE <<>>)
         /\ List(<<e>>) = (IF own = name THEN <<v>> ELSE <<>>)
         /\ (own = name => List(before) = <<>>)
    BY <1>1, <2>4, <2>6, <2>7, ListEquations, LineAlone, NamesListed
  <2>13. <<v>> \in Seq(HeaderTexts)
    OBVIOUS
  <2> HIDE DEF List, kept
  <2>14. List(before \o <<e>> \o kept) = IF name = own THEN <<v>> ELSE List(list)
    <3>1. CASE name = own
      <4>1. List(before) = <<>> /\ List(<<e>>) = <<v>> /\ List(kept) = <<>>
        BY <2>8, <2>12, <3>1 DEF List
      <4>2. (<<>> \o <<v>>) \o <<>> = <<v>>
        BY <2>13, NoTexts
      <4>3. QED
        BY <2>11, <3>1, <4>1, <4>2
    <3>2. CASE name # own
      <4>1. List(<<there>>) = <<>> /\ List(<<e>>) = <<>> /\ List(kept) = List(after)
        BY <2>8, <2>12, <3>2 DEF List
      <4>2. List(before) \o <<>> = List(before) /\ <<>> \o List(after) = List(after)
        BY <2>12, NoTexts
      <4>3. QED
        BY <2>9, <2>11, <3>2, <4>1, <4>2
    <3>3. QED
      BY <3>1, <3>2
  <2>15. QED
    BY <2>3, <2>10, <2>14 DEF List
<1>4. QED
  BY <1>2, <1>3

\* Setting one header to what it is elsewhere.
LEMMA HeaderIsSet ==
    ASSUME NEW source \in Seq(Lines), NEW list \in Seq(Lines), NEW e \in Lines
    PROVE  Config!SetHeader(list, e.name, Config!Joined(source, e.name)) \in Seq(Lines)
<1>1. e.name \in HeaderNames
  BY DEF Lines
<1>2. QED
  BY <1>1, JoinedText, ListSet

\* Setting headers one after the other.
LEMMA SetAllEquations ==
    ASSUME NEW first \in Seq(Lines), NEW source \in Seq(Lines)
    PROVE  /\ Config!SetAll(first, <<>>, source) = first
           /\ \A s \in Seq(Lines) :
                 /\ Config!SetAll(first, s, source) \in Seq(Lines)
                 /\ \A e \in Lines :
                       Config!SetAll(first, Append(s, e), source) =
                           Config!SetHeader(Config!SetAll(first, s, source), e.name, Config!Joined(source, e.name))
<1> DEFINE A == Lines
           start == first
           step == [p \in Seq(Lines) \X A |-> Config!SetHeader(p[1], p[2].name, Config!Joined(source, p[2].name))]
           Eq(f, s) == f = [i \in 0 .. Len(s) |-> IF i = 0 THEN start
                                                  ELSE Config!SetHeader(f[i - 1], s[i].name, Config!Joined(source, s[i].name))]
           run(s) == CHOOSE f : Eq(f, s)
           Run(s) == Runs(Seq(Lines), step, start, s)
<1>1. start \in Seq(Lines)
  OBVIOUS
<1>2. step \in [Seq(Lines) \X A -> Seq(Lines)]
       /\ \A x \in Seq(Lines), y \in A : step[<<x, y>>] = Config!SetHeader(x, y.name, Config!Joined(source, y.name))
  BY HeaderIsSet
<1>3. ASSUME NEW s \in Seq(A) PROVE run(s) \in Run(s)
  <2> HIDE DEF step, start, A
  <2>1. Len(s) \in Nat /\ \A i \in 1 .. Len(s) : s[i] \in A /\ i - 1 \in 0 .. Len(s)
    OBVIOUS
  <2>2. \A i \in 0 .. Len(s) : i # 0 => i \in 1 .. Len(s)
    BY <2>1
  <2>3. PICK g : g \in Run(s)
    BY <1>1, <1>2, RunExists
  <2>4. Eq(g, s)
    BY <1>2, <2>1, <2>2, <2>3 DEF Runs
  <2>5. Eq(run(s), s)
    <3> HIDE DEF Eq
    <3>1. QED
      BY <2>4
  <2> DEFINE f == run(s)
  <2> HIDE DEF run
  <2>6. f = [i \in 0 .. Len(s) |-> IF i = 0 THEN first
                                           ELSE Config!SetHeader(f[i - 1], s[i].name, Config!Joined(source, s[i].name))]
    BY <2>5 DEF start
  <2>7. \A i \in 1 .. Len(s) : f[i - 1] \in Seq(Lines) =>
            step[<<f[i - 1], s[i]>>] = Config!SetHeader(f[i - 1], s[i].name, Config!Joined(source, s[i].name))
    BY <1>2, <2>1
  <2> HIDE DEF f
  <2>8. /\ f = [i \in 0 .. Len(s) |-> f[i]] /\ f[0] = first
        /\ \A i \in 1 .. Len(s) :
              f[i] = Config!SetHeader(f[i - 1], s[i].name, Config!Joined(source, s[i].name))
    BY <2>1, <2>6
  <2> HIDE DEF step
  <2>9. \A i \in 1 .. Len(s) : f[i - 1] \in Seq(Lines) => f[i] = step[<<f[i - 1], s[i]>>]
    BY <2>7, <2>8
  <2>10. f \in Run(s)
    <3> HIDE DEF A, start
    <3>1. f[0] = start
      BY <2>8 DEF start
    <3>2. QED
      BY <1>1, <1>2, <2>8, <2>9, <3>1, RunIsRun
  <2>11. QED
    BY <2>10 DEF f
<1>4. \A s : Config!SetAll(first, s, source) = run(s)[Len(s)]
  BY DEF Config!SetAll
<1> HIDE DEF run, start, step
<1>5. Config!SetAll(first, <<>>, source) = start
  BY <1>3, <1>4, EmptySeq DEF Runs
<1>6. ASSUME NEW s \in Seq(A)
      PROVE  /\ Config!SetAll(first, s, source) \in Seq(Lines)
             /\ \A e \in A : Config!SetAll(first, Append(s, e), source) =
                                 Config!SetHeader(Config!SetAll(first, s, source), e.name, Config!Joined(source, e.name))
  <2>1. Config!SetAll(first, s, source) \in Seq(Lines)
    BY <1>3, <1>4 DEF Runs
  <2>2. ASSUME NEW e \in A
        PROVE  Config!SetAll(first, Append(s, e), source) = step[<<Config!SetAll(first, s, source), e>>]
    <3>1. Append(s, e) \in Seq(A)
      BY AppendProperties
    <3>2. run(s) \in Run(s) /\ run(Append(s, e)) \in Run(Append(s, e))
      BY <1>3, <3>1
    <3>3. run(Append(s, e))[Len(Append(s, e))] = step[<<run(s)[Len(s)], e>>]
      <4> HIDE DEF A
      <4>1. QED
        BY <3>2, RunGoesOn
    <3>4. QED
      BY <1>4, <3>3
  <2>3. QED
    BY <1>2, <2>1, <2>2
<1>7. QED
  BY <1>5, <1>6 DEF start

\* Headers set one after the other.
LEMMA ListSetAll ==
    ASSUME NEW first \in Seq(Lines), NEW source \in Seq(Lines), NEW name
    PROVE  \A s \in Seq(Lines) :
              /\ Config!SetAll(first, s, source) \in Seq(Lines)
              /\ Config!GetList(Config!SetAll(first, s, source), name) =
                     IF name \in Config!NamesOf(s) THEN <<Config!Joined(source, name)>>
                                                   ELSE Config!GetList(first, name)
<1> DEFINE Then(s) == Config!SetAll(first, s, source)
           X == {s \in Seq(Lines) : Config!GetList(Then(s), name) =
                    IF name \in Config!NamesOf(s) THEN <<Config!Joined(source, name)>>
                                                  ELSE Config!GetList(first, name)}
<1>1. Then(<<>>) = first /\ \A s \in Seq(Lines) : Then(s) \in Seq(Lines)
  BY SetAllEquations
<1>2. <<>> \in X
  <2>1. Config!NamesOf(<<>>) = {} /\ <<>> \in Seq(Lines)
    BY EmptySeq DEF Config!NamesOf
  <2>2. QED
    BY <1>1, <2>1
<1>3. ASSUME NEW s \in Seq(Lines), NEW e \in Lines, s \in X PROVE Append(s, e) \in X
  <2>1. Append(s, e) \in Seq(Lines) /\ Then(s) \in Seq(Lines) /\ e.name \in HeaderNames
    <3>1. e.name \in HeaderNames
      BY DEF Lines
    <3> HIDE DEF Then
    <3>2. QED
      BY <1>1, <3>1
  <2>2. Then(Append(s, e)) = Config!SetHeader(Then(s), e.name, Config!Joined(source, e.name))
    BY SetAllEquations
  <2>3. Config!GetList(Then(s), name) =
            IF name \in Config!NamesOf(s) THEN <<Config!Joined(source, name)>>
                                          ELSE Config!GetList(first, name)
    BY <1>3
  <2> HIDE DEF Then
  <2>4. Config!GetList(Then(Append(s, e)), name) =
            IF name = e.name THEN <<Config!Joined(source, e.name)>> ELSE Config!GetList(Then(s), name)
    BY <2>1, <2>2, JoinedText, ListSet
  <2>5. Config!NamesOf(Append(s, e)) = Config!NamesOf(s) \union {e.name}
    BY OneName
  <2>6. QED
    BY <2>1, <2>3, <2>4, <2>5
<1>4. Seq(Lines) \subseteq X
  <2> HIDE DEF X
  <2>1. QED
    BY <1>2, <1>3, AllSequences
<1>5. QED
  BY <1>1, <1>4

-----------------------------------------------------------------------------
(* What the caller did to each name.                                        *)

\* What a caller, a profile and the library give are lists.
LEMMA GivenLists ==
    /\ DefaultHeaders \in Seq(Lines)
    /\ \A p \in DOMAIN ProfileHeaders : ProfileHeaders[p] \in Seq(Lines)
    /\ \A list \in UserHeaders : list \in Seq(Lines)
    /\ NoProfile \notin DOMAIN ProfileHeaders
BY ValuesAssumption, CallersLists DEF ValuesAssumption, Config!ClientConfigAssumption

\* The defaults of a client: those of its profile, else those of the library.
LEMMA DefaultsListed ==
    ASSUME NEW p \in Config!Profiles, NEW name
    PROVE  /\ Config!ClientDefaults(p) \in Seq(Lines)
           /\ Config!GetList(Config!ClientDefaults(p), name) =
                  IF p # NoProfile /\ name \in Config!NamesOf(ProfileHeaders[p])
                  THEN Config!GetList(ProfileHeaders[p], name) ELSE Config!GetList(DefaultHeaders, name)
<1>1. CASE p = NoProfile
  BY <1>1, GivenLists DEF Config!ClientDefaults
<1>2. CASE p # NoProfile
  <2>1. p \in DOMAIN ProfileHeaders
    BY <1>2 DEF Config!Profiles
  <2>2. Config!ClientDefaults(p) = Config!UpdateHeaders(DefaultHeaders, ProfileHeaders[p])
    BY <1>2 DEF Config!ClientDefaults
  <2>3. QED
    BY <1>2, <2>1, <2>2, GivenLists, ListUpdated
<1>3. QED
  BY <1>1, <1>2

\* What a caller wants under a name is what a list holds under it, or it is as
\* by default.
Held(own, list, start, names, name) ==
    /\ own.by \in {"nobody", "caller", "deleted"}
    /\ own.by = "caller" => name \in Config!NamesOf(list) /\ own.value = Config!Joined(list, name)
    /\ own.by = "deleted" => name \notin Config!NamesOf(list)
    /\ own.by = "nobody" => /\ name \notin names
                            /\ Config!GetList(list, name) = Config!GetList(start, name)

\* The invariant of the settings, name by name.
LEMMA CallersHeld ==
    Config!CallersKept <=> \A name \in HeaderNames : Held(wanted[name], headers, defaults, explicit, name)
BY DEF Config!CallersKept, Held

\* After an update the caller's own are there, the others as they were.
LEMMA HeldUpdated ==
    ASSUME NEW list \in Seq(Lines), NEW start, NEW names, NEW old, NEW new \in Seq(Lines), NEW name \in HeaderNames,
           name \notin Config!NamesOf(new) => Held(old[name], list, start, names, name)
    PROVE  Held(Config!Wanted(new, old)[name], Config!UpdateHeaders(list, new), start, names, name)
<1> DEFINE both == Config!UpdateHeaders(list, new)
           own == Config!Wanted(new, old)[name]
<1>1. /\ both \in Seq(Lines)
      /\ Config!GetList(both, name) = IF name \in Config!NamesOf(new) THEN Config!GetList(new, name)
                                                                     ELSE Config!GetList(list, name)
  BY ListUpdated
<1>2. own = IF name \in Config!NamesOf(new) THEN [by |-> "caller", value |-> Config!Joined(new, name)]
                                            ELSE old[name]
  BY DEF Config!Wanted
<1> HIDE DEF both, own
<1>3. /\ name \in Config!NamesOf(both) <=> Config!GetList(both, name) # <<>>
      /\ name \in Config!NamesOf(new) <=> Config!GetList(new, name) # <<>>
      /\ name \in Config!NamesOf(list) <=> Config!GetList(list, name) # <<>>
  BY <1>1, NamesListed
<1>4. CASE name \in Config!NamesOf(new)
  <2>1. own.by = "caller" /\ own.value = Config!Joined(new, name)
    BY <1>2, <1>4
  <2>2. Config!Joined(both, name) = Config!Joined(new, name) /\ name \in Config!NamesOf(both)
    BY <1>1, <1>3, <1>4 DEF Config!Joined
  <2>3. QED
    BY <2>1, <2>2 DEF Held, both, own
<1>5. CASE name \notin Config!NamesOf(new)
  <2>1. own = old[name] /\ Held(old[name], list, start, names, name)
    BY <1>2, <1>5
  <2>2. Config!GetList(both, name) = Config!GetList(list, name)
    BY <1>1, <1>5
  <2>3. Config!Joined(both, name) = Config!Joined(list, name)
    BY <2>2 DEF Config!Joined
  <2>4. name \in Config!NamesOf(both) <=> name \in Config!NamesOf(list)
    BY <1>3, <2>2
  <2>5. Held(own, both, start, names, name)
    BY <2>1, <2>2, <2>3, <2>4 DEF Held
  <2>6. QED
    BY <2>5 DEF both, own
<1>6. QED
  BY <1>4, <1>5

\* The headers that a client is given, over its defaults.
LEMMA HeldAnew ==
    ASSUME NEW start \in Seq(Lines), NEW new \in Seq(Lines), NEW name \in HeaderNames
    PROVE  Held(Config!Wanted(new, [n \in HeaderNames |-> Config!Untouched])[name],
                Config!UpdateHeaders(start, new), start, Config!NamesOf(new), name)
<1> DEFINE old == [n \in HeaderNames |-> Config!Untouched]
<1>1. old[name].by = "nobody"
  BY DEF Config!Untouched
<1>2. name \notin Config!NamesOf(new) => Held(old[name], start, start, Config!NamesOf(new), name)
  BY <1>1 DEF Held
<1> HIDE DEF old
<1>3. Held(Config!Wanted(new, old)[name], Config!UpdateHeaders(start, new), start, Config!NamesOf(new), name)
  BY <1>2, HeldUpdated
<1>4. QED
  BY <1>3 DEF old

\* headers[name] = value, with a line of the caller.
LEMMA HeldSet ==
    ASSUME NEW list \in Seq(Lines), NEW start, NEW names, NEW old, NEW e \in Lines, NEW name \in HeaderNames,
           Held(old[name], list, start, names, name)
    PROVE  Held(Config!Wanted(<<e>>, old)[name], Config!SetHeader(list, e.name, e.value), start, names, name)
<1> DEFINE set == Config!SetHeader(list, e.name, e.value)
           own == Config!Wanted(<<e>>, old)[name]
<1>1. e.name \in HeaderNames /\ e.value \in HeaderTexts
  BY DEF Lines
<1>2. /\ set \in Seq(Lines)
      /\ Config!GetList(set, name) = IF name = e.name THEN <<e.value>> ELSE Config!GetList(list, name)
  BY <1>1, ListSet
<1>3. Config!NamesOf(<<e>>) = {e.name}
  BY DEF Config!NamesOf
<1>4. own = IF name = e.name THEN [by |-> "caller", value |-> Config!Joined(<<e>>, name)] ELSE old[name]
  BY <1>3 DEF Config!Wanted
<1> HIDE DEF set, own
<1>5. /\ name \in Config!NamesOf(set) <=> Config!GetList(set, name) # <<>>
      /\ name \in Config!NamesOf(list) <=> Config!GetList(list, name) # <<>>
  BY <1>2, NamesListed
<1>6. CASE name = e.name
  <2>1. own.by = "caller" /\ own.value = Config!Joined(<<e>>, name)
    BY <1>4, <1>6
  <2>2. Config!GetList(<<e>>, name) = <<e.value>> /\ Config!GetList(set, name) = <<e.value>>
    BY <1>2, <1>6, LineAlone
  <2>3. Config!Joined(set, name) = Config!Joined(<<e>>, name) /\ name \in Config!NamesOf(set)
    BY <1>5, <2>2 DEF Config!Joined
  <2>4. QED
    BY <2>1, <2>3 DEF Held, set, own
<1>7. CASE name # e.name
  <2>1. own = old[name] /\ Config!GetList(set, name) = Config!GetList(list, name)
    BY <1>2, <1>4, <1>7
  <2>2. Config!Joined(set, name) = Config!Joined(list, name)
    BY <2>1 DEF Config!Joined
  <2>3. name \in Config!NamesOf(set) <=> name \in Config!NamesOf(list)
    BY <1>5, <2>1
  <2>4. Held(own, set, start, names, name)
    BY <2>1, <2>2, <2>3 DEF Held
  <2>5. QED
    BY <2>4 DEF set, own
<1>8. QED
  BY <1>6, <1>7

\* del headers[gone]
LEMMA HeldDeleted ==
    ASSUME NEW list \in Seq(Lines), NEW start, NEW names, NEW old, DOMAIN old = HeaderNames,
           NEW gone, NEW name \in HeaderNames, Held(old[name], list, start, names, name)
    PROVE  Held([old EXCEPT ![gone] = [by |-> "deleted", value |-> <<>>]][name],
                Config!Without(list, {gone}), start, names, name)
<1> DEFINE left == Config!Without(list, {gone})
           own == [old EXCEPT ![gone] = [by |-> "deleted", value |-> <<>>]][name]
<1>1. /\ left \in Seq(Lines)
      /\ Config!GetList(left, name) = IF name \in {gone} THEN <<>> ELSE Config!GetList(list, name)
  BY ListWithout
<1>2. own = IF name = gone THEN [by |-> "deleted", value |-> <<>>] ELSE old[name]
  OBVIOUS
<1> HIDE DEF left, own
<1>3. /\ name \in Config!NamesOf(left) <=> Config!GetList(left, name) # <<>>
      /\ name \in Config!NamesOf(list) <=> Config!GetList(list, name) # <<>>
  BY <1>1, NamesListed
<1>4. CASE name = gone
  <2>1. own.by = "deleted" /\ name \notin Config!NamesOf(left)
    BY <1>1, <1>2, <1>3, <1>4
  <2>2. QED
    BY <2>1 DEF Held, left, own
<1>5. CASE name # gone
  <2>1. own = old[name] /\ Config!GetList(left, name) = Config!GetList(list, name)
    BY <1>1, <1>2, <1>5
  <2>2. Config!Joined(left, name) = Config!Joined(list, name)
    BY <2>1 DEF Config!Joined
  <2>3. name \in Config!NamesOf(left) <=> name \in Config!NamesOf(list)
    BY <1>3, <2>1
  <2>4. Held(own, left, start, names, name)
    BY <2>1, <2>2, <2>3 DEF Held
  <2>5. QED
    BY <2>4 DEF left, own
<1>6. QED
  BY <1>4, <1>5

\* What the client holds is what its caller made of it, in lines.
SettingsInv == Config!ConfigInv /\ headers \in Seq(Lines)

\* A client that has been made.
LEMMA SettingsStart == Config!Init => SettingsInv
<1> SUFFICES ASSUME Config!Init PROVE SettingsInv
  OBVIOUS
<1>1. PICK list \in UserHeaders :
         /\ profile \in Config!Profiles
         /\ defaults = Config!ClientDefaults(profile)
         /\ explicit = Config!NamesOf(list)
         /\ headers = Config!UpdateHeaders(defaults, list)
         /\ wanted = Config!Wanted(list, [n \in HeaderNames |-> Config!Untouched])
         /\ params \in UserParams
         /\ request = Config!Nothing
  BY DEF Config!Init
<1>2. list \in Seq(Lines) /\ defaults \in Seq(Lines)
  BY <1>1, GivenLists, DefaultsListed
<1>3. headers \in Seq(Lines)
  BY <1>1, <1>2, ListUpdated
<1>4. \A name \in HeaderNames : Held(wanted[name], headers, defaults, explicit, name)
  BY <1>1, <1>2, HeldAnew
<1>5. DOMAIN wanted = HeaderNames
  BY <1>1 DEF Config!Wanted
<1>6. ~request.built
  BY <1>1 DEF Config!Nothing
<1>7. QED
  BY <1>1, <1>3, <1>4, <1>5, <1>6, CallersHeld DEF SettingsInv, Config!ConfigInv, Config!BuiltFromClient

\* The same of the next state.
LEMMA CallersHeldNext ==
    (\A name \in HeaderNames : Held(wanted'[name], headers', defaults', explicit', name))
        => Config!CallersKept'
BY DEF Config!CallersKept, Held

\* client.headers = given
LEMMA SettingsSet ==
    ASSUME SettingsInv, Config!SetHeaders
    PROVE  SettingsInv'
<1>1. PICK list \in UserHeaders :
         /\ defaults' = Config!ClientDefaults(profile)
         /\ explicit' = Config!NamesOf(list)
         /\ headers' = Config!UpdateHeaders(defaults', list)
         /\ wanted' = Config!Wanted(list, [n \in HeaderNames |-> Config!Untouched])
  BY DEF Config!SetHeaders
<1>2. request = Config!Nothing /\ request' = request /\ profile' = profile /\ profile \in Config!Profiles
  BY DEF Config!SetHeaders, SettingsInv, Config!ConfigInv
<1>3. list \in Seq(Lines) /\ defaults' \in Seq(Lines)
  BY <1>1, <1>2, GivenLists, DefaultsListed
<1>4. headers' \in Seq(Lines)
  BY <1>1, <1>3, ListUpdated
<1>5. \A name \in HeaderNames : Held(wanted'[name], headers', defaults', explicit', name)
  BY <1>1, <1>3, HeldAnew
<1>6. DOMAIN wanted' = HeaderNames
  BY <1>1 DEF Config!Wanted
<1>7. ~request'.built
  BY <1>2 DEF Config!Nothing
<1>8. defaults' = Config!ClientDefaults(profile')
  BY <1>1, <1>2
<1>9. Config!CallersKept'
  BY <1>5, CallersHeldNext
<1>10. QED
  BY <1>2, <1>4, <1>6, <1>7, <1>8, <1>9 DEF SettingsInv, Config!ConfigInv, Config!BuiltFromClient

\* The headers of the client are changed in place.
LEMMA SettingsEdit ==
    ASSUME SettingsInv, Config!EditHeaders
    PROVE  SettingsInv'
<1>1. /\ request = Config!Nothing
      /\ profile' = profile /\ defaults' = defaults /\ explicit' = explicit /\ request' = request
  BY DEF Config!EditHeaders
<1>2. /\ headers \in Seq(Lines) /\ profile \in Config!Profiles /\ defaults = Config!ClientDefaults(profile)
      /\ DOMAIN wanted = HeaderNames
      /\ \A name \in HeaderNames : Held(wanted[name], headers, defaults, explicit, name)
  BY CallersHeld DEF SettingsInv, Config!ConfigInv
<1> DEFINE Kept == /\ headers' \in Seq(Lines) /\ DOMAIN wanted' = HeaderNames
                   /\ \A name \in HeaderNames : Held(wanted'[name], headers', defaults, explicit, name)
<1>3. ASSUME NEW list \in UserHeaders, headers' = Config!UpdateHeaders(headers, list),
             wanted' = Config!Wanted(list, wanted)
      PROVE  Kept
  <2>1. list \in Seq(Lines)
    BY GivenLists
  <2>2. headers' \in Seq(Lines)
    BY <1>2, <1>3, <2>1, ListUpdated
  <2>3. DOMAIN wanted' = HeaderNames
    BY <1>3 DEF Config!Wanted
  <2>4. ASSUME NEW name \in HeaderNames PROVE Held(wanted'[name], headers', defaults, explicit, name)
    BY <1>2, <1>3, <2>1, HeldUpdated
  <2>5. QED
    BY <2>2, <2>3, <2>4
<1>4. ASSUME NEW list \in UserHeaders, NEW i \in DOMAIN list,
             headers' = Config!SetHeader(headers, list[i].name, list[i].value),
             wanted' = Config!Wanted(<<list[i]>>, wanted)
      PROVE  Kept
  <2> DEFINE e == list[i]
  <2>1. e \in Lines
    BY GivenLists
  <2>2. e.name \in HeaderNames /\ e.value \in HeaderTexts
    BY <2>1 DEF Lines
  <2> HIDE DEF e
  <2>3. headers' = Config!SetHeader(headers, e.name, e.value) /\ wanted' = Config!Wanted(<<e>>, wanted)
    BY <1>4 DEF e
  <2>4. headers' \in Seq(Lines)
    BY <1>2, <2>2, <2>3, ListSet
  <2>5. DOMAIN wanted' = HeaderNames
    BY <2>3 DEF Config!Wanted
  <2>6. ASSUME NEW name \in HeaderNames PROVE Held(wanted'[name], headers', defaults, explicit, name)
    BY <1>2, <2>1, <2>3, HeldSet
  <2>7. QED
    BY <2>4, <2>5, <2>6
<1>5. ASSUME NEW gone \in Config!NamesOf(headers), headers' = Config!Without(headers, {gone}),
             wanted' = [wanted EXCEPT ![gone] = [by |-> "deleted", value |-> <<>>]]
      PROVE  Kept
  <2>1. headers' \in Seq(Lines)
    BY <1>2, <1>5, ListWithout
  <2>2. DOMAIN wanted' = HeaderNames
    BY <1>2, <1>5
  <2>3. ASSUME NEW name \in HeaderNames PROVE Held(wanted'[name], headers', defaults, explicit, name)
    BY <1>2, <1>5, HeldDeleted
  <2>4. QED
    BY <2>1, <2>2, <2>3
<1>6. Kept
  <2> HIDE DEF Kept
  <2>1. QED
    BY <1>3, <1>4, <1>5 DEF Config!EditHeaders
<1>7. ~request'.built
  BY <1>1 DEF Config!Nothing
<1>8. Config!CallersKept'
  BY <1>1, <1>6, CallersHeldNext
<1>9. QED
  BY <1>1, <1>2, <1>6, <1>7, <1>8 DEF SettingsInv, Config!ConfigInv, Config!BuiltFromClient

\* What is kept does not depend on the parameters and the request.
LEMMA SettingsKept ==
    ASSUME SettingsInv, UNCHANGED <<profile, defaults, explicit, headers, wanted>>
    PROVE  /\ headers' \in Seq(Lines) /\ profile' \in Config!Profiles
           /\ defaults' = Config!ClientDefaults(profile') /\ DOMAIN wanted' = HeaderNames
           /\ Config!CallersKept'
<1>1. /\ headers \in Seq(Lines) /\ profile \in Config!Profiles /\ defaults = Config!ClientDefaults(profile)
      /\ DOMAIN wanted = HeaderNames
      /\ \A name \in HeaderNames : Held(wanted[name], headers, defaults, explicit, name)
  BY CallersHeld DEF SettingsInv, Config!ConfigInv
<1>2. \A name \in HeaderNames : Held(wanted'[name], headers', defaults', explicit', name)
  BY <1>1
<1>3. Config!CallersKept'
  BY <1>2, CallersHeldNext
<1>4. QED
  BY <1>1, <1>3

\* client.params = given
LEMMA SettingsParams ==
    ASSUME SettingsInv, Config!SetParams
    PROVE  SettingsInv'
<1>1. request = Config!Nothing /\ request' = request /\ UNCHANGED <<profile, defaults, explicit, headers, wanted>>
  BY DEF Config!SetParams
<1>2. ~request'.built
  BY <1>1 DEF Config!Nothing
<1>3. QED
  BY <1>1, <1>2, SettingsKept DEF SettingsInv, Config!ConfigInv, Config!BuiltFromClient

\* What a request is built from does not change any more.
LEMMA BuiltStays ==
    ASSUME UNCHANGED <<profile, defaults, explicit, headers, params>>,
           NEW emulated, NEW list, NEW own
    PROVE  /\ Config!RequestHeaders(emulated, list)' = Config!RequestHeaders(emulated, list)
           /\ Config!RequestParams(own)' = Config!RequestParams(own)
BY DEF Config!RequestHeaders, Config!RequestParams, Config!InheritedHeaders

\* A request is built.
LEMMA SettingsBuild ==
    ASSUME SettingsInv, Config!Build
    PROVE  SettingsInv'
<1>1. UNCHANGED <<profile, defaults, explicit, headers, wanted>> /\ params' = params
  BY DEF Config!Build, Config!config
<1>2. PICK emulated \in Config!Profiles, list \in UserHeaders, own \in UserParams \union {Config!NoParams} :
         request' = [built |-> TRUE, emulated |-> emulated, given |-> list, own |-> own,
                     headers |-> Config!RequestHeaders(emulated, list),
                     params |-> Config!RequestParams(own)]
  BY DEF Config!Build
<1>3. /\ Config!RequestHeaders(emulated, list)' = Config!RequestHeaders(emulated, list)
      /\ Config!RequestParams(own)' = Config!RequestParams(own)
  BY <1>1, BuiltStays
<1>4. Config!BuiltFromClient'
  BY <1>2, <1>3 DEF Config!BuiltFromClient
<1>5. QED
  BY <1>1, <1>4, SettingsKept DEF SettingsInv, Config!ConfigInv

\* The settings stay as they are while nothing moves.
LEMMA SettingsStay ==
    ASSUME SettingsInv, UNCHANGED <<profile, defaults, explicit, headers, wanted, params, request>>
    PROVE  SettingsInv'
<1>1. Config!BuiltFromClient'
  <2> SUFFICES ASSUME request.built PROVE Config!BuiltFromClient'
    BY DEF Config!BuiltFromClient
  <2>1. PICK emulated \in Config!Profiles, list \in UserHeaders, own \in UserParams \union {Config!NoParams} :
           request = [built |-> TRUE, emulated |-> emulated, given |-> list, own |-> own,
                      headers |-> Config!RequestHeaders(emulated, list),
                      params |-> Config!RequestParams(own)]
    BY DEF SettingsInv, Config!ConfigInv, Config!BuiltFromClient
  <2>2. /\ Config!RequestHeaders(emulated, list)' = Config!RequestHeaders(emulated, list)
        /\ Config!RequestParams(own)' = Config!RequestParams(own)
    BY BuiltStays
  <2>3. QED
    BY <2>1, <2>2 DEF Config!BuiltFromClient
<1>2. QED
  BY <1>1, SettingsKept DEF SettingsInv, Config!ConfigInv

-----------------------------------------------------------------------------
(* The headers and parameters of a request.                                 *)

\* What a request has under a name, by where it comes from.
LEMMA RequestListed ==
    ASSUME SettingsInv, NEW emulated \in Config!Profiles, NEW list \in UserHeaders, NEW name \in HeaderNames
    PROVE  Config!GetList(Config!RequestHeaders(emulated, list), name) =
               IF name \in Config!NamesOf(list) THEN Config!GetList(list, name)
               ELSE IF emulated = NoProfile THEN Config!GetList(headers, name)
               ELSE IF /\ name \in Config!NamesOf(headers)
                       /\ \/ name \in explicit
                          \/ Config!GetList(headers, name) # Config!GetList(defaults, name)
                    THEN <<Config!Joined(headers, name)>>
               ELSE IF name \in Config!NamesOf(ProfileHeaders[emulated])
                    THEN Config!GetList(ProfileHeaders[emulated], name)
               ELSE IF profile # NoProfile /\ name \in Config!NamesOf(ProfileHeaders[profile]) THEN <<>>
               ELSE Config!GetList(defaults, name)
<1>1. /\ list \in Seq(Lines) /\ headers \in Seq(Lines) /\ profile \in Config!Profiles
      /\ defaults = Config!ClientDefaults(profile)
  BY GivenLists DEF SettingsInv, Config!ConfigInv
<1>2. defaults \in Seq(Lines)
  BY <1>1, DefaultsListed
<1>3. CASE emulated = NoProfile
  <2>1. Config!RequestHeaders(emulated, list) = Config!UpdateHeaders(headers, list)
    BY <1>3 DEF Config!RequestHeaders
  <2>2. QED
    BY <1>1, <1>3, <2>1, ListUpdated
<1>4. CASE emulated # NoProfile
  <2> DEFINE same == {n \in Config!NamesOf(headers) \ explicit :
                         Config!GetList(headers, n) = Config!GetList(defaults, n)}
             inherited == Config!InheritedHeaders
             start == Config!UpdateHeaders(inherited, ProfileHeaders[emulated])
             changed == Config!Without(headers, same)
             set == Config!SetAll(start, changed, headers)
  <2>1. Config!RequestHeaders(emulated, list) = Config!UpdateHeaders(set, list)
    BY <1>4 DEF Config!RequestHeaders
  <2>2. ProfileHeaders[emulated] \in Seq(Lines)
    BY <1>4, GivenLists DEF Config!Profiles
  <2>3. /\ inherited \in Seq(Lines)
        /\ Config!GetList(inherited, name) =
               IF profile # NoProfile /\ name \in Config!NamesOf(ProfileHeaders[profile]) THEN <<>>
               ELSE Config!GetList(defaults, name)
    <3>1. CASE profile = NoProfile
      BY <1>2, <3>1 DEF Config!InheritedHeaders
    <3>2. CASE profile # NoProfile
      <4>1. inherited = Config!Without(defaults, Config!NamesOf(ProfileHeaders[profile]))
        BY <3>2 DEF Config!InheritedHeaders
      <4>2. QED
        BY <1>2, <3>2, <4>1, ListWithout
    <3>3. QED
      BY <3>1, <3>2
  <2> HIDE DEF inherited
  <2>4. /\ start \in Seq(Lines)
        /\ Config!GetList(start, name) =
               IF name \in Config!NamesOf(ProfileHeaders[emulated])
               THEN Config!GetList(ProfileHeaders[emulated], name) ELSE Config!GetList(inherited, name)
    BY <2>2, <2>3, ListUpdated
  <2>5. name \in same <=> /\ name \in Config!NamesOf(headers) /\ name \notin explicit
                          /\ Config!GetList(headers, name) = Config!GetList(defaults, name)
    OBVIOUS
  <2> HIDE DEF start, same
  <2>6. /\ changed \in Seq(Lines)
        /\ Config!GetList(changed, name) = IF name \in same THEN <<>> ELSE Config!GetList(headers, name)
    BY <1>1, ListWithout
  <2> HIDE DEF changed
  <2>7. /\ name \in Config!NamesOf(changed) <=> Config!GetList(changed, name) # <<>>
        /\ name \in Config!NamesOf(headers) <=> Config!GetList(headers, name) # <<>>
    BY <1>1, <2>6, NamesListed
  <2>8. name \in Config!NamesOf(changed) <=>
            /\ name \in Config!NamesOf(headers)
            /\ name \in explicit \/ Config!GetList(headers, name) # Config!GetList(defaults, name)
    BY <2>5, <2>6, <2>7
  <2>9. /\ set \in Seq(Lines)
        /\ Config!GetList(set, name) = IF name \in Config!NamesOf(changed) THEN <<Config!Joined(headers, name)>>
                                                                           ELSE Config!GetList(start, name)
    <3>1. \A s \in Seq(Lines) :
              /\ Config!SetAll(start, s, headers) \in Seq(Lines)
              /\ Config!GetList(Config!SetAll(start, s, headers), name) =
                     IF name \in Config!NamesOf(s) THEN <<Config!Joined(headers, name)>>
                                                   ELSE Config!GetList(start, name)
      BY <1>1, <2>4, ListSetAll, ZenonT(30)
    <3>2. QED
      BY <2>6, <3>1
  <2> HIDE DEF set
  <2>10. Config!GetList(Config!UpdateHeaders(set, list), name) =
             IF name \in Config!NamesOf(list) THEN Config!GetList(list, name) ELSE Config!GetList(set, name)
    BY <1>1, <2>9, ListUpdated
  <2>11. QED
    BY <1>4, <2>1, <2>3, <2>4, <2>8, <2>9, <2>10
<1>5. QED
  BY <1>3, <1>4

\* Joined values are told by the list they are joined from.
LEMMA JoinedLists ==
    \A p, q, name : Config!GetList(p, name) = Config!GetList(q, name) => Config!Joined(p, name) = Config!Joined(q, name)
BY DEF Config!Joined

\* A list of one value is joined to that value.
LEMMA JoinedOne ==
    \A p, v, name : Config!GetList(p, name) = <<v>> => Config!Joined(p, name) = v
BY JoinedAlone DEF Config!Joined

\* Nothing is joined to nothing.
LEMMA JoinedNone ==
    \A p, name : Config!GetList(p, name) = <<>> => Config!Joined(p, name) = <<>>
<1>1. Config!FlattenSeq(<<>>) = <<>>
  BY DEF Config!FlattenSeq
<1>2. QED
  BY <1>1 DEF Config!Joined

\* Each header of a request is from where it should be.
LEMMA HeadersFollow ==
    ASSUME SettingsInv, request.built, NEW name \in HeaderNames
    PROVE  Config!HeaderSourced(name)
<1>1. PICK emulated \in Config!Profiles, list \in UserHeaders, own \in UserParams \union {Config!NoParams} :
         request = [built |-> TRUE, emulated |-> emulated, given |-> list, own |-> own,
                    headers |-> Config!RequestHeaders(emulated, list),
                    params |-> Config!RequestParams(own)]
  BY DEF SettingsInv, Config!ConfigInv, Config!BuiltFromClient
<1> DEFINE all == Config!RequestHeaders(emulated, list)
           arrived == Config!Joined(all, name)
           has(p) == p # NoProfile /\ name \in Config!NamesOf(ProfileHeaders[p])
<1>2. request.headers = all /\ request.given = list /\ request.emulated = emulated
  BY <1>1
<1>3. /\ headers \in Seq(Lines) /\ profile \in Config!Profiles
      /\ defaults = Config!ClientDefaults(profile)
      /\ Held(wanted[name], headers, defaults, explicit, name)
  BY CallersHeld DEF SettingsInv, Config!ConfigInv
<1>4. Config!GetList(all, name) =
          IF name \in Config!NamesOf(list) THEN Config!GetList(list, name)
          ELSE IF emulated = NoProfile THEN Config!GetList(headers, name)
          ELSE IF /\ name \in Config!NamesOf(headers)
                  /\ \/ name \in explicit
                     \/ Config!GetList(headers, name) # Config!GetList(defaults, name)
               THEN <<Config!Joined(headers, name)>>
          ELSE IF name \in Config!NamesOf(ProfileHeaders[emulated])
               THEN Config!GetList(ProfileHeaders[emulated], name)
          ELSE IF profile # NoProfile /\ name \in Config!NamesOf(ProfileHeaders[profile]) THEN <<>>
          ELSE Config!GetList(defaults, name)
  BY RequestListed
<1>5. Config!GetList(defaults, name) =
          IF has(profile) THEN Config!GetList(ProfileHeaders[profile], name)
                          ELSE Config!GetList(DefaultHeaders, name)
  BY <1>3, DefaultsListed
<1>6. Config!HeaderSourced(name) <=>
          CASE name \in Config!NamesOf(list) -> arrived = Config!Joined(list, name)
            [] name \notin Config!NamesOf(list) /\ wanted[name].by = "caller" ->
                  \/ arrived = wanted[name].value
                  \/ emulated # NoProfile /\ wanted[name].value = Config!Joined(defaults, name)
            [] name \notin Config!NamesOf(list) /\ wanted[name].by = "deleted" ->
                  emulated # NoProfile \/ arrived = <<>>
            [] OTHER ->
                  IF has(emulated) THEN arrived = Config!Joined(ProfileHeaders[emulated], name)
                  ELSE IF has(profile)
                       THEN arrived = (IF emulated = NoProfile THEN Config!Joined(ProfileHeaders[profile], name)
                                                            ELSE <<>>)
                       ELSE arrived = Config!Joined(DefaultHeaders, name)
  BY <1>2 DEF Config!HeaderSourced
<1> HIDE DEF all
<1>7. name \in Config!NamesOf(headers) <=> Config!GetList(headers, name) # <<>>
  BY <1>3, NamesListed
<1>8. CASE name \in Config!NamesOf(list)
  <2>1. arrived = Config!Joined(list, name)
    BY <1>4, <1>8, JoinedLists
  <2> HIDE DEF arrived
  <2>2. QED
    BY <1>6, <1>8, <2>1
<1>9. CASE name \notin Config!NamesOf(list) /\ wanted[name].by = "caller"
  <2>1. name \in Config!NamesOf(headers) /\ wanted[name].value = Config!Joined(headers, name)
    BY <1>3, <1>9 DEF Held
  <2>2. CASE emulated = NoProfile
    <3>1. arrived = Config!Joined(headers, name)
      BY <1>4, <1>9, <2>2, JoinedLists
    <3> HIDE DEF arrived
    <3>2. QED
      BY <1>6, <1>9, <2>1, <3>1
  <2>3. CASE emulated # NoProfile /\ Config!GetList(headers, name) = Config!GetList(defaults, name)
    <3>1. Config!Joined(headers, name) = Config!Joined(defaults, name)
      BY <2>3, JoinedLists
    <3> HIDE DEF arrived
    <3>2. QED
      BY <1>6, <1>9, <2>1, <2>3, <3>1
  <2>4. CASE emulated # NoProfile /\ Config!GetList(headers, name) # Config!GetList(defaults, name)
    <3>1. Config!GetList(all, name) = <<Config!Joined(headers, name)>>
      BY <1>4, <1>9, <2>1, <2>4
    <3>2. arrived = Config!Joined(headers, name)
      BY <3>1, JoinedOne
    <3> HIDE DEF arrived
    <3>3. QED
      BY <1>6, <1>9, <2>1, <3>2
  <2>5. QED
    BY <2>2, <2>3, <2>4
<1>10. CASE name \notin Config!NamesOf(list) /\ wanted[name].by = "deleted"
  <2>1. name \notin Config!NamesOf(headers)
    BY <1>3, <1>10 DEF Held
  <2>2. emulated = NoProfile => arrived = <<>>
    BY <1>4, <1>7, <1>10, <2>1, JoinedNone
  <2> HIDE DEF arrived
  <2>3. QED
    BY <1>6, <1>10, <2>2
<1>11. CASE name \notin Config!NamesOf(list) /\ wanted[name].by = "nobody"
  <2>1. name \notin explicit /\ Config!GetList(headers, name) = Config!GetList(defaults, name)
    BY <1>3, <1>11 DEF Held
  <2>2. Config!GetList(all, name) =
            IF emulated = NoProfile THEN Config!GetList(defaults, name)
            ELSE IF has(emulated) THEN Config!GetList(ProfileHeaders[emulated], name)
            ELSE IF has(profile) THEN <<>> ELSE Config!GetList(defaults, name)
    BY <1>4, <1>11, <2>1
  <2>3. CASE has(emulated)
    <3>1. arrived = Config!Joined(ProfileHeaders[emulated], name)
      BY <2>2, <2>3, JoinedLists
    <3> HIDE DEF arrived
    <3>2. QED
      BY <1>6, <1>11, <2>3, <3>1
  <2>4. CASE ~has(emulated) /\ has(profile)
    <3>1. arrived = (IF emulated = NoProfile THEN Config!Joined(ProfileHeaders[profile], name) ELSE <<>>)
      BY <1>5, <2>2, <2>4, JoinedLists, JoinedNone
    <3> HIDE DEF arrived
    <3>2. QED
      BY <1>6, <1>11, <2>4, <3>1
  <2>5. CASE ~has(emulated) /\ ~has(profile)
    <3>1. Config!GetList(all, name) = Config!GetList(DefaultHeaders, name)
      BY <1>5, <2>2, <2>5
    <3>2. arrived = Config!Joined(DefaultHeaders, name)
      BY <3>1, JoinedLists
    <3> HIDE DEF arrived
    <3>3. QED
      BY <1>6, <1>11, <2>5, <3>2
  <2>6. QED
    BY <2>3, <2>4, <2>5
<1>12. wanted[name].by \in {"nobody", "caller", "deleted"}
  BY <1>3 DEF Held
<1>13. QED
  BY <1>8, <1>9, <1>10, <1>11, <1>12

\* Each parameter of a request too.
LEMMA ParamsFollow ==
    ASSUME SettingsInv, request.built,
           NEW name \in DOMAIN request.own.dict \union DOMAIN params.dict
    PROVE  Config!ParamSourced(name)
<1>1. PICK emulated \in Config!Profiles, list \in UserHeaders, own \in UserParams \union {Config!NoParams} :
         request = [built |-> TRUE, emulated |-> emulated, given |-> list, own |-> own,
                    headers |-> Config!RequestHeaders(emulated, list),
                    params |-> Config!RequestParams(own)]
  BY DEF SettingsInv, Config!ConfigInv, Config!BuiltFromClient
<1>2. request.own = own /\ request.params = Config!RequestParams(own)
  BY <1>1
<1>3. DOMAIN own.dict # {} \/ DOMAIN params.dict # {}
  BY <1>2
<1>4. request.params.dict = Config!MergeDicts(params.dict, own.dict)
  BY <1>2, <1>3 DEF Config!RequestParams, Config!Params
<1>5. request.params.dict[name] = IF name \in DOMAIN own.dict THEN own.dict[name] ELSE params.dict[name]
  BY <1>2, <1>4 DEF Config!MergeDicts
<1>6. QED
  BY <1>2, <1>5 DEF Config!ParamSourced

\* Only the part with the settings is spoken of.
SourcesInv == part = "config" => SettingsInv

\* Whatever the client was given and was changed to, and whatever the profiles:
\* each header and parameter of a request is from where the code's rules say.
THEOREM SettingsComeFromTheirSource == Spec => []SettingsSourced
<1>1. Init => SourcesInv
  BY SettingsStart DEF Init, SourcesInv
<1>2. SourcesInv /\ [Next]_<<part, dvars, cvars, uvars, rvars, evars, ovars>> => SourcesInv'
  <2> SUFFICES ASSUME SourcesInv, [Next]_<<part, dvars, cvars, uvars, rvars, evars, ovars>>,
                      part' = "config"
               PROVE  SettingsInv'
    BY DEF SourcesInv
  <2>1. part = "config" /\ SettingsInv
    BY DEF SourcesInv, Next
  <2>2. CASE Config!Next
    BY <2>1, <2>2, SettingsSet, SettingsEdit, SettingsParams, SettingsBuild DEF Config!Next
  <2>3. CASE UNCHANGED cvars
    <3>1. UNCHANGED <<profile, defaults, explicit, headers, wanted, params, request>>
      BY <2>3 DEF cvars
    <3>2. QED
      BY <2>1, <3>1, SettingsStay
  <2>4. QED
    BY <2>1, <2>2, <2>3 DEF Next
<1>3. SourcesInv => SettingsSourced
  BY HeadersFollow, ParamsFollow DEF SourcesInv, SettingsSourced, Config!SettingsSourced
<1>4. QED
  BY <1>1, <1>2, <1>3, PTL DEF Spec

-----------------------------------------------------------------------------
(* Options, and their mappings.                                             *)

\* The mappings that are applied or put into another.
OptionDicts ==
    ClientMappings \union RequestMappings \union {Emulations[name].parts : name \in DOMAIN Emulations}

\* The keys that Python derives, but for its timeouts.
DerivedKeys ==
    {"tls_cert_verification", "tls_verify_hostname", "pool_idle_timeout", "tls_cert_store",
     "tls_identity", "pool_max_idle_per_host", "pool_max_size", "http1_only", "http2_only",
     "local_address", "uds", "proxy"}

\* All options there are,
OptionSet ==
    {Options!Option(key, value) : key \in DerivedKeys \union {"connect_timeout", "read_timeout"},
                                  value \in {"python", "True"}}
    \union UNION {{mapping[i] : i \in DOMAIN mapping} : mapping \in OptionDicts}

\* and all proxies.
ProxySet ==
    {o.value : o \in OptionSet} \union UNION {Options!Range(ProxyLists[name]) : name \in DOMAIN ProxyLists}

DistinctKeys(mapping) == \A i, j \in DOMAIN mapping : mapping[i].key = mapping[j].key => i = j

\* Options are pairs, and what they name is there.
LEMMA OptionsTyped ==
    /\ \A o \in OptionSet :
          /\ o = Options!Option(o.key, o.value)
          /\ o.key = "emulation" => o.value \in DOMAIN Emulations \union {"bad"}
          /\ o.key = "proxies" => o.value \in DOMAIN ProxyLists \union {"bad"}
          /\ o.value \in ProxySet
    /\ \A m \in OptionDicts : m \in Seq(OptionSet) /\ DistinctKeys(m)
    /\ \A name \in DOMAIN ProxyLists : ProxyLists[name] \in Seq(ProxySet)
<1>1. \A m \in OptionDicts : Options!IsDict(m)
  BY ValuesAssumption DEF OptionDicts, Options!NativeOptionsAssumption
<1>2. ASSUME NEW m \in OptionDicts
      PROVE  /\ m \in Seq(OptionSet) /\ DistinctKeys(m)
             /\ \A i \in DOMAIN m :
                   /\ m[i] = Options!Option(m[i].key, m[i].value)
                   /\ m[i].key = "emulation" => m[i].value \in DOMAIN Emulations \union {"bad"}
                   /\ m[i].key = "proxies" => m[i].value \in DOMAIN ProxyLists \union {"bad"}
  <2> DEFINE S == {Options!Option(m[i].key, m[i].value) : i \in DOMAIN m}
  <2>1. m \in Seq(S) /\ DistinctKeys(m)
    BY <1>1, <1>2 DEF Options!IsDict, DistinctKeys
  <2>2. DOMAIN m = 1 .. Len(m) /\ Len(m) \in Nat /\ m = [i \in 1 .. Len(m) |-> m[i]]
        /\ \A i \in DOMAIN m : m[i] \in S
    BY <2>1
  <2>3. ASSUME NEW i \in DOMAIN m PROVE m[i] = Options!Option(m[i].key, m[i].value)
    <3>1. PICK k \in DOMAIN m : m[i] = Options!Option(m[k].key, m[k].value)
      BY <2>2
    <3>2. QED
      BY <3>1 DEF Options!Option
  <2>4. \A i \in DOMAIN m : m[i] \in OptionSet
    BY <1>2 DEF OptionSet
  <2>5. m \in Seq(OptionSet)
    BY <2>2, <2>4
  <2>6. QED
    BY <1>1, <1>2, <2>1, <2>3, <2>5 DEF Options!IsDict
<1>3. ASSUME NEW o \in OptionSet
      PROVE  /\ o = Options!Option(o.key, o.value)
             /\ o.key = "emulation" => o.value \in DOMAIN Emulations \union {"bad"}
             /\ o.key = "proxies" => o.value \in DOMAIN ProxyLists \union {"bad"}
  <2>1. CASE o \in {Options!Option(key, value) : key \in DerivedKeys \union {"connect_timeout", "read_timeout"},
                                  value \in {"python", "True"}}
    <3>1. PICK key \in DerivedKeys \union {"connect_timeout", "read_timeout"}, value \in {"python", "True"} :
             o = Options!Option(key, value)
      BY <2>1
    <3>2. o.key = key /\ o.value = value /\ key \notin {"emulation", "proxies"}
      BY <3>1 DEF Options!Option, DerivedKeys
    <3>3. QED
      BY <3>1, <3>2
  <2>2. CASE \E m \in OptionDicts : \E i \in DOMAIN m : o = m[i]
    BY <1>2, <2>2
  <2>3. QED
    BY <1>3, <2>1, <2>2 DEF OptionSet
<1>4. ASSUME NEW name \in DOMAIN ProxyLists PROVE ProxyLists[name] \in Seq(ProxySet)
  <2>1. ProxyLists[name] \in Seq(Options!Range(ProxyLists[name]))
    BY ValuesAssumption, <1>4 DEF Options!NativeOptionsAssumption, Options!Range
  <2>2. Options!Range(ProxyLists[name]) \subseteq ProxySet
    BY <1>4, Zenon DEF ProxySet
  <2> DEFINE T == Options!Range(ProxyLists[name])
  <2> HIDE DEF T
  <2>3. ProxyLists[name] \in Seq(T) /\ T \subseteq ProxySet
    BY <2>1, <2>2 DEF T
  <2>4. QED
    BY <2>3
<1>5. \A o \in OptionSet : o.value \in ProxySet
  BY DEF ProxySet
<1>6. QED
  BY <1>2, <1>3, <1>4, <1>5

\* dict.update, key by key.
LEMMA UpdateEquations ==
    ASSUME NEW start
    PROVE  /\ Options!Update(start, <<>>) = start
           /\ \A s \in Seq(OptionSet), e \in OptionSet :
                 Options!Update(start, Append(s, e))
                    = Options!Put(Options!Update(start, s), e)
<1> DEFINE Eq(f, s) ==
              f = [i \in 0 .. Len(s) |->
                     IF i = 0 THEN start ELSE Options!Put(f[i - 1], s[i])]
           run(s) == CHOOSE f : Eq(f, s)
           X == {s \in Seq(OptionSet) : \E f : Eq(f, s)}
<1>1. <<>> \in X
  <2>1. Eq([i \in 0 .. 0 |-> start], <<>>)
    OBVIOUS
  <2> HIDE DEF Eq
  <2>2. QED
    BY <2>1, EmptySeq
<1>2. ASSUME NEW s \in Seq(OptionSet), NEW e \in OptionSet
      PROVE  /\ Append(s, e) \in Seq(OptionSet) /\ Len(Append(s, e)) = Len(s) + 1 /\ Len(s) \in Nat
             /\ Append(s, e)[Len(s) + 1] = e /\ \A i \in 1 .. Len(s) : Append(s, e)[i] = s[i]
  BY AppendProperties
<1>3. ASSUME NEW s \in Seq(OptionSet), NEW e \in OptionSet, s \in X PROVE Append(s, e) \in X
  <2> DEFINE u == Append(s, e)
             n == Len(s)
  <2>1. PICK f : Eq(f, s)
    <3> HIDE DEF Eq
    <3>1. QED
      BY <1>3
  <2>2. u \in Seq(OptionSet) /\ Len(u) = n + 1 /\ n \in Nat /\ u[n + 1] = e /\ \A i \in 1 .. n : u[i] = s[i]
    BY <1>2
  <2> HIDE DEF u, n
  <2>3. f[0] = start /\ \A i \in 1 .. n : f[i] = Options!Put(f[i - 1], s[i])
    BY <2>1, <2>2 DEF n
  <2> DEFINE g == [i \in 0 .. n + 1 |-> IF i = n + 1 THEN Options!Put(f[n], e) ELSE f[i]]
  <2>4. ASSUME NEW i \in 0 .. n + 1
        PROVE  g[i] = IF i = 0 THEN start ELSE Options!Put(g[i - 1], u[i])
    <3>1. CASE i = 0
      BY <2>2, <2>3, <3>1
    <3>2. CASE i = n + 1
      <4>1. g[i] = Options!Put(f[n], e) /\ i - 1 = n /\ n \in 0 .. n + 1 /\ n # n + 1 /\ i # 0
        BY <2>2, <3>2
      <4>2. g[i - 1] = f[n]
        BY <4>1
      <4>3. QED
        BY <2>2, <3>2, <4>1, <4>2
    <3>3. CASE i # 0 /\ i # n + 1
      <4>1. i \in 1 .. n /\ i - 1 \in 0 .. n + 1 /\ i - 1 # n + 1
        BY <2>2, <3>3
      <4>2. g[i] = f[i] /\ g[i - 1] = f[i - 1] /\ u[i] = s[i]
        BY <2>2, <3>3, <4>1
      <4> HIDE DEF g
      <4>3. QED
        BY <2>3, <3>3, <4>1, <4>2
    <3>4. QED
      BY <3>1, <3>2, <3>3
  <2>5. g = [i \in 0 .. n + 1 |-> g[i]]
    OBVIOUS
  <2> HIDE DEF g
  <2>6. g = [i \in 0 .. n + 1 |-> IF i = 0 THEN start ELSE Options!Put(g[i - 1], u[i])]
    BY <2>4, <2>5
  <2>7. Eq(g, u)
    BY <2>2, <2>6
  <2> HIDE DEF Eq
  <2>8. QED
    BY <2>2, <2>7 DEF u
<1>4. Seq(OptionSet) \subseteq X
  <2> HIDE DEF X
  <2>1. QED
    BY <1>1, <1>3, AllSequences
<1>5. ASSUME NEW s \in Seq(OptionSet) PROVE Eq(run(s), s)
  <2> HIDE DEF Eq
  <2>1. QED
    BY <1>4
<1>6. ASSUME NEW s \in Seq(OptionSet)
      PROVE  /\ run(s)[0] = start
             /\ \A i \in 1 .. Len(s) : run(s)[i] = Options!Put(run(s)[i - 1], s[i])
  <2> DEFINE f == run(s)
  <2>1. Eq(f, s)
    BY <1>5
  <2> HIDE DEF f
  <2>2. Len(s) \in Nat
    OBVIOUS
  <2>3. f[0] = start /\ \A i \in 1 .. Len(s) : f[i] = Options!Put(f[i - 1], s[i])
    BY <2>1, <2>2
  <2>4. QED
    BY <2>3 DEF f
<1>7. \A s : Options!Update(start, s) = run(s)[Len(s)]
  BY DEF Options!Update
<1> HIDE DEF run
<1>8. Options!Update(start, <<>>) = start
  BY <1>6, <1>7, EmptySeq
<1>9. ASSUME NEW s \in Seq(OptionSet), NEW e \in OptionSet
      PROVE  Options!Update(start, Append(s, e))
             = Options!Put(Options!Update(start, s), e)
  <2> DEFINE u == Append(s, e)
             n == Len(s)
             f == run(s)
             g == run(u)
             Y == {m \in Nat : m <= n => f[m] = g[m]}
  <2>1. u \in Seq(OptionSet) /\ Len(u) = n + 1 /\ n \in Nat /\ u[n + 1] = e /\ \A i \in 1 .. n : u[i] = s[i]
    BY <1>2
  <2>2. f[0] = start /\ \A i \in 1 .. n : f[i] = Options!Put(f[i - 1], s[i])
    BY <1>6
  <2>3. g[0] = start /\ \A i \in 1 .. n + 1 : g[i] = Options!Put(g[i - 1], u[i])
    BY <1>6, <2>1
  <2>4. Options!Update(start, Append(s, e)) = g[n + 1] /\ Options!Update(start, s) = f[n]
    BY <1>7, <2>1
  <2> HIDE DEF u, n, f, g
  <2>5. 0 \in Y
    BY <2>2, <2>3
  <2>6. ASSUME NEW m \in Nat, m \in Y PROVE m + 1 \in Y
    <3>1. ASSUME m + 1 <= n PROVE f[m + 1] = g[m + 1]
      <4>1. /\ m + 1 \in 1 .. n /\ m + 1 \in 1 .. n + 1 /\ (m + 1) - 1 = m
            /\ f[m] = g[m] /\ u[m + 1] = s[m + 1]
        BY <2>1, <2>6, <3>1
      <4>2. QED
        BY <2>2, <2>3, <4>1
    <3>2. QED
      BY <3>1
  <2>7. Nat \subseteq Y
    <3> HIDE DEF Y
    <3>1. QED
      BY <2>5, <2>6, AllNumbers
  <2>8. f[n] = g[n] /\ n + 1 \in 1 .. n + 1 /\ (n + 1) - 1 = n
    BY <2>1, <2>7
  <2>9. QED
    BY <2>1, <2>3, <2>4, <2>8
<1>10. QED
  BY <1>8, <1>9

\* The parts of an emulation.
LEMMA PartsEquations ==
    ASSUME NEW start
    PROVE  /\ Options!ReplaceParts(start, <<>>) = start
           /\ \A s \in Seq(OptionSet), e \in OptionSet :
                 Options!ReplaceParts(start, Append(s, e))
                    = Options!ReplacePart(Options!ReplaceParts(start, s), e)
<1> DEFINE Eq(f, s) ==
              f = [i \in 0 .. Len(s) |->
                     IF i = 0 THEN start ELSE Options!ReplacePart(f[i - 1], s[i])]
           run(s) == CHOOSE f : Eq(f, s)
           X == {s \in Seq(OptionSet) : \E f : Eq(f, s)}
<1>1. <<>> \in X
  <2>1. Eq([i \in 0 .. 0 |-> start], <<>>)
    OBVIOUS
  <2> HIDE DEF Eq
  <2>2. QED
    BY <2>1, EmptySeq
<1>2. ASSUME NEW s \in Seq(OptionSet), NEW e \in OptionSet
      PROVE  /\ Append(s, e) \in Seq(OptionSet) /\ Len(Append(s, e)) = Len(s) + 1 /\ Len(s) \in Nat
             /\ Append(s, e)[Len(s) + 1] = e /\ \A i \in 1 .. Len(s) : Append(s, e)[i] = s[i]
  BY AppendProperties
<1>3. ASSUME NEW s \in Seq(OptionSet), NEW e \in OptionSet, s \in X PROVE Append(s, e) \in X
  <2> DEFINE u == Append(s, e)
             n == Len(s)
  <2>1. PICK f : Eq(f, s)
    <3> HIDE DEF Eq
    <3>1. QED
      BY <1>3
  <2>2. u \in Seq(OptionSet) /\ Len(u) = n + 1 /\ n \in Nat /\ u[n + 1] = e /\ \A i \in 1 .. n : u[i] = s[i]
    BY <1>2
  <2> HIDE DEF u, n
  <2>3. f[0] = start /\ \A i \in 1 .. n : f[i] = Options!ReplacePart(f[i - 1], s[i])
    BY <2>1, <2>2 DEF n
  <2> DEFINE g == [i \in 0 .. n + 1 |-> IF i = n + 1 THEN Options!ReplacePart(f[n], e) ELSE f[i]]
  <2>4. ASSUME NEW i \in 0 .. n + 1
        PROVE  g[i] = IF i = 0 THEN start ELSE Options!ReplacePart(g[i - 1], u[i])
    <3>1. CASE i = 0
      BY <2>2, <2>3, <3>1
    <3>2. CASE i = n + 1
      <4>1. g[i] = Options!ReplacePart(f[n], e) /\ i - 1 = n /\ n \in 0 .. n + 1 /\ n # n + 1 /\ i # 0
        BY <2>2, <3>2
      <4>2. g[i - 1] = f[n]
        BY <4>1
      <4>3. QED
        BY <2>2, <3>2, <4>1, <4>2
    <3>3. CASE i # 0 /\ i # n + 1
      <4>1. i \in 1 .. n /\ i - 1 \in 0 .. n + 1 /\ i - 1 # n + 1
        BY <2>2, <3>3
      <4>2. g[i] = f[i] /\ g[i - 1] = f[i - 1] /\ u[i] = s[i]
        BY <2>2, <3>3, <4>1
      <4> HIDE DEF g
      <4>3. QED
        BY <2>3, <3>3, <4>1, <4>2
    <3>4. QED
      BY <3>1, <3>2, <3>3
  <2>5. g = [i \in 0 .. n + 1 |-> g[i]]
    OBVIOUS
  <2> HIDE DEF g
  <2>6. g = [i \in 0 .. n + 1 |-> IF i = 0 THEN start ELSE Options!ReplacePart(g[i - 1], u[i])]
    BY <2>4, <2>5
  <2>7. Eq(g, u)
    BY <2>2, <2>6
  <2> HIDE DEF Eq
  <2>8. QED
    BY <2>2, <2>7 DEF u
<1>4. Seq(OptionSet) \subseteq X
  <2> HIDE DEF X
  <2>1. QED
    BY <1>1, <1>3, AllSequences
<1>5. ASSUME NEW s \in Seq(OptionSet) PROVE Eq(run(s), s)
  <2> HIDE DEF Eq
  <2>1. QED
    BY <1>4
<1>6. ASSUME NEW s \in Seq(OptionSet)
      PROVE  /\ run(s)[0] = start
             /\ \A i \in 1 .. Len(s) : run(s)[i] = Options!ReplacePart(run(s)[i - 1], s[i])
  <2> DEFINE f == run(s)
  <2>1. Eq(f, s)
    BY <1>5
  <2> HIDE DEF f
  <2>2. Len(s) \in Nat
    OBVIOUS
  <2>3. f[0] = start /\ \A i \in 1 .. Len(s) : f[i] = Options!ReplacePart(f[i - 1], s[i])
    BY <2>1, <2>2
  <2>4. QED
    BY <2>3 DEF f
<1>7. \A s : Options!ReplaceParts(start, s) = run(s)[Len(s)]
  BY DEF Options!ReplaceParts
<1> HIDE DEF run
<1>8. Options!ReplaceParts(start, <<>>) = start
  BY <1>6, <1>7, EmptySeq
<1>9. ASSUME NEW s \in Seq(OptionSet), NEW e \in OptionSet
      PROVE  Options!ReplaceParts(start, Append(s, e))
             = Options!ReplacePart(Options!ReplaceParts(start, s), e)
  <2> DEFINE u == Append(s, e)
             n == Len(s)
             f == run(s)
             g == run(u)
             Y == {m \in Nat : m <= n => f[m] = g[m]}
  <2>1. u \in Seq(OptionSet) /\ Len(u) = n + 1 /\ n \in Nat /\ u[n + 1] = e /\ \A i \in 1 .. n : u[i] = s[i]
    BY <1>2
  <2>2. f[0] = start /\ \A i \in 1 .. n : f[i] = Options!ReplacePart(f[i - 1], s[i])
    BY <1>6
  <2>3. g[0] = start /\ \A i \in 1 .. n + 1 : g[i] = Options!ReplacePart(g[i - 1], u[i])
    BY <1>6, <2>1
  <2>4. Options!ReplaceParts(start, Append(s, e)) = g[n + 1] /\ Options!ReplaceParts(start, s) = f[n]
    BY <1>7, <2>1
  <2> HIDE DEF u, n, f, g
  <2>5. 0 \in Y
    BY <2>2, <2>3
  <2>6. ASSUME NEW m \in Nat, m \in Y PROVE m + 1 \in Y
    <3>1. ASSUME m + 1 <= n PROVE f[m + 1] = g[m + 1]
      <4>1. /\ m + 1 \in 1 .. n /\ m + 1 \in 1 .. n + 1 /\ (m + 1) - 1 = m
            /\ f[m] = g[m] /\ u[m + 1] = s[m + 1]
        BY <2>1, <2>6, <3>1
      <4>2. QED
        BY <2>2, <2>3, <4>1
    <3>2. QED
      BY <3>1
  <2>7. Nat \subseteq Y
    <3> HIDE DEF Y
    <3>1. QED
      BY <2>5, <2>6, AllNumbers
  <2>8. f[n] = g[n] /\ n + 1 \in 1 .. n + 1 /\ (n + 1) - 1 = n
    BY <2>1, <2>7
  <2>9. QED
    BY <2>1, <2>3, <2>4, <2>8
<1>10. QED
  BY <1>8, <1>9

\* The options of a mapping.
LEMMA ApplyEquations ==
    ASSUME NEW start, NEW keys, NEW inPlace \in BOOLEAN
    PROVE  /\ Options!Apply(start, <<>>, keys, inPlace) = start
           /\ \A s \in Seq(OptionSet), e \in OptionSet :
                 Options!Apply(start, Append(s, e), keys, inPlace)
                    = Options!ApplyNext(Options!Apply(start, s, keys, inPlace), e, keys, inPlace)
<1> DEFINE Eq(f, s) ==
              f = [i \in 0 .. Len(s) |->
                     IF i = 0 THEN start ELSE Options!ApplyNext(f[i - 1], s[i], keys, inPlace)]
           run(s) == CHOOSE f : Eq(f, s)
           X == {s \in Seq(OptionSet) : \E f : Eq(f, s)}
<1>1. <<>> \in X
  <2>1. Eq([i \in 0 .. 0 |-> start], <<>>)
    OBVIOUS
  <2> HIDE DEF Eq
  <2>2. QED
    BY <2>1, EmptySeq
<1>2. ASSUME NEW s \in Seq(OptionSet), NEW e \in OptionSet
      PROVE  /\ Append(s, e) \in Seq(OptionSet) /\ Len(Append(s, e)) = Len(s) + 1 /\ Len(s) \in Nat
             /\ Append(s, e)[Len(s) + 1] = e /\ \A i \in 1 .. Len(s) : Append(s, e)[i] = s[i]
  BY AppendProperties
<1>3. ASSUME NEW s \in Seq(OptionSet), NEW e \in OptionSet, s \in X PROVE Append(s, e) \in X
  <2> DEFINE u == Append(s, e)
             n == Len(s)
  <2>1. PICK f : Eq(f, s)
    <3> HIDE DEF Eq
    <3>1. QED
      BY <1>3
  <2>2. u \in Seq(OptionSet) /\ Len(u) = n + 1 /\ n \in Nat /\ u[n + 1] = e /\ \A i \in 1 .. n : u[i] = s[i]
    BY <1>2
  <2> HIDE DEF u, n
  <2>3. f[0] = start /\ \A i \in 1 .. n : f[i] = Options!ApplyNext(f[i - 1], s[i], keys, inPlace)
    BY <2>1, <2>2 DEF n
  <2> DEFINE g == [i \in 0 .. n + 1 |-> IF i = n + 1 THEN Options!ApplyNext(f[n], e, keys, inPlace) ELSE f[i]]
  <2>4. ASSUME NEW i \in 0 .. n + 1
        PROVE  g[i] = IF i = 0 THEN start ELSE Options!ApplyNext(g[i - 1], u[i], keys, inPlace)
    <3>1. CASE i = 0
      BY <2>2, <2>3, <3>1
    <3>2. CASE i = n + 1
      <4>1. g[i] = Options!ApplyNext(f[n], e, keys, inPlace) /\ i - 1 = n /\ n \in 0 .. n + 1 /\ n # n + 1 /\ i # 0
        BY <2>2, <3>2
      <4>2. g[i - 1] = f[n]
        BY <4>1
      <4>3. QED
        BY <2>2, <3>2, <4>1, <4>2
    <3>3. CASE i # 0 /\ i # n + 1
      <4>1. i \in 1 .. n /\ i - 1 \in 0 .. n + 1 /\ i - 1 # n + 1
        BY <2>2, <3>3
      <4>2. g[i] = f[i] /\ g[i - 1] = f[i - 1] /\ u[i] = s[i]
        BY <2>2, <3>3, <4>1
      <4> HIDE DEF g
      <4>3. QED
        BY <2>3, <3>3, <4>1, <4>2
    <3>4. QED
      BY <3>1, <3>2, <3>3
  <2>5. g = [i \in 0 .. n + 1 |-> g[i]]
    OBVIOUS
  <2> HIDE DEF g
  <2>6. g = [i \in 0 .. n + 1 |-> IF i = 0 THEN start ELSE Options!ApplyNext(g[i - 1], u[i], keys, inPlace)]
    BY <2>4, <2>5
  <2>7. Eq(g, u)
    BY <2>2, <2>6
  <2> HIDE DEF Eq
  <2>8. QED
    BY <2>2, <2>7 DEF u
<1>4. Seq(OptionSet) \subseteq X
  <2> HIDE DEF X
  <2>1. QED
    BY <1>1, <1>3, AllSequences
<1>5. ASSUME NEW s \in Seq(OptionSet) PROVE Eq(run(s), s)
  <2> HIDE DEF Eq
  <2>1. QED
    BY <1>4
<1>6. ASSUME NEW s \in Seq(OptionSet)
      PROVE  /\ run(s)[0] = start
             /\ \A i \in 1 .. Len(s) : run(s)[i] = Options!ApplyNext(run(s)[i - 1], s[i], keys, inPlace)
  <2> DEFINE f == run(s)
  <2>1. Eq(f, s)
    BY <1>5
  <2> HIDE DEF f
  <2>2. Len(s) \in Nat
    OBVIOUS
  <2>3. f[0] = start /\ \A i \in 1 .. Len(s) : f[i] = Options!ApplyNext(f[i - 1], s[i], keys, inPlace)
    BY <2>1, <2>2
  <2>4. QED
    BY <2>3 DEF f
<1>7. \A s : Options!Apply(start, s, keys, inPlace) = run(s)[Len(s)]
  BY DEF Options!Apply
<1> HIDE DEF run
<1>8. Options!Apply(start, <<>>, keys, inPlace) = start
  BY <1>6, <1>7, EmptySeq
<1>9. ASSUME NEW s \in Seq(OptionSet), NEW e \in OptionSet
      PROVE  Options!Apply(start, Append(s, e), keys, inPlace)
             = Options!ApplyNext(Options!Apply(start, s, keys, inPlace), e, keys, inPlace)
  <2> DEFINE u == Append(s, e)
             n == Len(s)
             f == run(s)
             g == run(u)
             Y == {m \in Nat : m <= n => f[m] = g[m]}
  <2>1. u \in Seq(OptionSet) /\ Len(u) = n + 1 /\ n \in Nat /\ u[n + 1] = e /\ \A i \in 1 .. n : u[i] = s[i]
    BY <1>2
  <2>2. f[0] = start /\ \A i \in 1 .. n : f[i] = Options!ApplyNext(f[i - 1], s[i], keys, inPlace)
    BY <1>6
  <2>3. g[0] = start /\ \A i \in 1 .. n + 1 : g[i] = Options!ApplyNext(g[i - 1], u[i], keys, inPlace)
    BY <1>6, <2>1
  <2>4. Options!Apply(start, Append(s, e), keys, inPlace) = g[n + 1] /\ Options!Apply(start, s, keys, inPlace) = f[n]
    BY <1>7, <2>1
  <2> HIDE DEF u, n, f, g
  <2>5. 0 \in Y
    BY <2>2, <2>3
  <2>6. ASSUME NEW m \in Nat, m \in Y PROVE m + 1 \in Y
    <3>1. ASSUME m + 1 <= n PROVE f[m + 1] = g[m + 1]
      <4>1. /\ m + 1 \in 1 .. n /\ m + 1 \in 1 .. n + 1 /\ (m + 1) - 1 = m
            /\ f[m] = g[m] /\ u[m + 1] = s[m + 1]
        BY <2>1, <2>6, <3>1
      <4>2. QED
        BY <2>2, <2>3, <4>1
    <3>2. QED
      BY <3>1
  <2>7. Nat \subseteq Y
    <3> HIDE DEF Y
    <3>1. QED
      BY <2>5, <2>6, AllNumbers
  <2>8. f[n] = g[n] /\ n + 1 \in 1 .. n + 1 /\ (n + 1) - 1 = n
    BY <2>1, <2>7
  <2>9. QED
    BY <2>1, <2>3, <2>4, <2>8
<1>10. QED
  BY <1>8, <1>9

-----------------------------------------------------------------------------
(* What one option makes of a result, and what a mapping makes of it.       *)

\* A result, whether of options or of none.
ResultTyped(r) == r.ok \in BOOLEAN /\ r.proxies \in Seq(ProxySet)

\* Applied with these keys and this treatment of an emulation, an option is valid;
ValidIn(o, keys, inPlace) ==
    /\ o.key \in keys
    /\ o.key # "emulation" =>
          /\ o.value # "bad"
          /\ o.key \in Options!Protocols => ~Options!NestedRejected(o.key, Mappings[o.value])
    /\ o.key = "emulation" /\ inPlace => Options!Emulation(o.value).ok

\* it gives this setting.
GivesIn(o, s, inPlace) ==
    \/ Options!Writes(o, s)
    \/ inPlace /\ o.key = "emulation" /\ s \in DOMAIN Options!Emulation(o.value).settings

\* It forgets the proxies so far.
Forgets(o) == o.key = "no_proxy" /\ o.value = "True"

\* What is written over settings.
LEMMA WithDoes ==
    ASSUME NEW settings, NEW new
    PROVE  /\ DOMAIN Options!With(settings, new) = DOMAIN settings \union DOMAIN new
           /\ \A s \in DOMAIN settings \union DOMAIN new :
                 Options!With(settings, new)[s] = IF s \in DOMAIN new THEN new[s] ELSE settings[s]
BY DEF Options!With

\* What one option makes of a result.
OneApplied(q, r, o, keys, inPlace) ==
    /\ ResultTyped(q)
    /\ q.ok <=> r.ok /\ ValidIn(o, keys, inPlace)
    /\ q.ok => /\ \A s : s \in DOMAIN q.settings <=> s \in DOMAIN r.settings \/ GivesIn(o, s, inPlace)
               /\ \A s \in DOMAIN q.settings :
                     q.settings[s] = IF GivesIn(o, s, inPlace) THEN Options!Given(o, s)
                                     ELSE r.settings[s]
               /\ ~Forgets(o) => /\ Options!Range(r.proxies) \subseteq Options!Range(q.proxies)
                                 /\ Options!Rules(o) \subseteq Options!Range(q.proxies)

\* This is what it makes of it.
LEMMA OptionApplied ==
    ASSUME NEW r, ResultTyped(r), NEW o \in OptionSet, NEW keys, NEW inPlace \in BOOLEAN
    PROVE  OneApplied(Options!ApplyNext(r, o, keys, inPlace), r, o, keys, inPlace)
<1> DEFINE q == Options!ApplyNext(r, o, keys, inPlace)
           new == Options!Only(Options!Setting(o.key), Options!Written(o))
           em == Options!Emulation(o.value)
           Proved == OneApplied(q, r, o, keys, inPlace)
<1> USE DEF OneApplied
<1>0. SUFFICES Proved
  OBVIOUS
<1>1. ASSUME q = Options!Failed, ~(r.ok /\ ValidIn(o, keys, inPlace)) PROVE Proved
  <2>1. ~q.ok /\ q.ok \in BOOLEAN /\ q.proxies = <<>>
    BY <1>1 DEF Options!Failed
  <2>2. ResultTyped(q)
    BY <2>1, EmptySeq DEF ResultTyped
  <2> HIDE DEF q
  <2>3. QED
    BY <1>1, <2>1, <2>2
<1>2. ASSUME q = r, ValidIn(o, keys, inPlace), \A s : ~GivesIn(o, s, inPlace), Options!Rules(o) = {}
      PROVE  Proved
  <2> HIDE DEF q
  <2>1. QED
    BY <1>2
<1>3. ASSUME q.ok = r.ok, q.proxies = r.proxies, Options!Rules(o) = {}, ValidIn(o, keys, inPlace),
             NEW w, q.settings = Options!With(r.settings, w), \A s : GivesIn(o, s, inPlace) <=> s \in DOMAIN w,
             \A s \in DOMAIN w : w[s] = Options!Given(o, s)
      PROVE  Proved
  <2> HIDE DEF q
  <2>1. ResultTyped(q)
    BY <1>3 DEF ResultTyped
  <2>2. /\ DOMAIN q.settings = DOMAIN r.settings \union DOMAIN w
        /\ \A s \in DOMAIN r.settings \union DOMAIN w :
              q.settings[s] = IF s \in DOMAIN w THEN w[s] ELSE r.settings[s]
    <3> DEFINE v == Options!With(r.settings, w)
    <3>1. /\ DOMAIN v = DOMAIN r.settings \union DOMAIN w
          /\ \A s \in DOMAIN r.settings \union DOMAIN w :
                v[s] = IF s \in DOMAIN w THEN w[s] ELSE r.settings[s]
      BY WithDoes, Zenon
    <3>2. q.settings = v
      BY <1>3
    <3> HIDE DEF v
    <3>3. QED
      BY <3>1, <3>2
  <2>3. QED
    BY <1>3, <2>1, <2>2
<1>4. CASE ~r.ok \/ o.key \notin keys
  <2>1. q = Options!Failed
    BY <1>4 DEF Options!ApplyNext
  <2>2. QED
    BY <1>1, <1>4, <2>1 DEF ValidIn
<1>5. CASE r.ok /\ o.key \in keys /\ o.key = "emulation"
  <2>1. CASE ~inPlace
    <3>1. q = r
      BY <1>5, <2>1 DEF Options!ApplyNext
    <3>2. ValidIn(o, keys, inPlace) /\ \A s : ~GivesIn(o, s, inPlace)
      BY <1>5, <2>1 DEF ValidIn, GivesIn, Options!Writes
    <3>3. Options!Rules(o) = {}
      BY <1>5 DEF Options!Rules
    <3>4. QED
      BY <1>2, <3>1, <3>2, <3>3
  <2>2. CASE inPlace /\ ~em.ok
    <3>1. q = Options!Failed /\ ~ValidIn(o, keys, inPlace)
      BY <1>5, <2>2 DEF Options!ApplyNext, Options!ApplyEmulation, ValidIn
    <3>2. QED
      BY <1>1, <3>1
  <2>3. CASE inPlace /\ em.ok
    <3>1. q = [ok |-> r.ok, settings |-> Options!With(r.settings, em.settings), proxies |-> r.proxies]
      BY <1>5, <2>3 DEF Options!ApplyNext, Options!ApplyEmulation
    <3>2. q.ok = r.ok /\ q.proxies = r.proxies /\ q.settings = Options!With(r.settings, em.settings)
      BY <3>1
    <3>3. Options!Rules(o) = {}
      BY <1>5 DEF Options!Rules
    <3>4. ValidIn(o, keys, inPlace)
      BY <1>5, <2>3 DEF ValidIn
    <3>5. \A s : GivesIn(o, s, inPlace) <=> s \in DOMAIN em.settings
      BY <1>5, <2>3 DEF GivesIn, Options!Writes
    <3>6. \A s \in DOMAIN em.settings : em.settings[s] = Options!Given(o, s)
      BY <1>5 DEF Options!Given
    <3> HIDE DEF em, q, Proved
    <3>7. QED
      BY <1>3, <3>2, <3>3, <3>4, <3>5, <3>6
  <2>4. QED
    BY <2>1, <2>2, <2>3
<1>6. CASE r.ok /\ o.key \in keys /\ o.key # "emulation"
  <2>1. q = Options!ApplyOption(r, o)
    BY <1>6 DEF Options!ApplyNext
  <2>2. ASSUME o.value # "bad", o.key \notin Options!ProxyKeys,
               o.key \in {"http1_only", "http2_only"} => o.value = "True"
        PROVE  Proved
    <3>1. q = Options!Write(r, o)
      BY <2>1, <2>2 DEF Options!ApplyOption
    <3>2. CASE o.key \in Options!Protocols /\ Options!NestedRejected(o.key, Mappings[o.value])
      <4>1. q = Options!Failed /\ ~ValidIn(o, keys, inPlace)
        BY <1>6, <3>1, <3>2 DEF Options!Write, ValidIn
      <4>2. QED
        BY <1>1, <4>1
    <3>3. CASE ~(o.key \in Options!Protocols /\ Options!NestedRejected(o.key, Mappings[o.value]))
      <4>1. q = [ok |-> r.ok, settings |-> Options!With(r.settings, new), proxies |-> r.proxies]
        BY <2>2, <3>1, <3>3 DEF Options!Write
      <4>2. q.ok = r.ok /\ q.proxies = r.proxies /\ q.settings = Options!With(r.settings, new)
        BY <4>1
      <4>3. Options!Rules(o) = {}
        BY <2>2 DEF Options!Rules, Options!ProxyKeys
      <4>4. ValidIn(o, keys, inPlace)
        BY <1>6, <2>2, <3>3 DEF ValidIn
      <4>5. \A s : Options!Writes(o, s) <=> Options!Setting(o.key) = s
        BY <1>6, <2>2 DEF Options!Writes
      <4>6. DOMAIN new = {Options!Setting(o.key)} /\ new[Options!Setting(o.key)] = Options!Written(o)
        BY DEF Options!Only
      <4>7. \A s : GivesIn(o, s, inPlace) <=> s \in DOMAIN new
        BY <1>6, <4>5, <4>6 DEF GivesIn
      <4>8. \A s \in DOMAIN new : new[s] = Options!Given(o, s)
        BY <1>6, <4>6 DEF Options!Given
      <4> HIDE DEF new, q, Proved
      <4>9. QED
        BY <1>3, <4>2, <4>3, <4>4, <4>7, <4>8
    <3>4. QED
      BY <3>2, <3>3
  <2>3. CASE o.value = "bad"
    <3>1. q = Options!Failed /\ ~ValidIn(o, keys, inPlace)
      BY <1>6, <2>1, <2>3 DEF Options!ApplyOption, ValidIn
    <3>2. QED
      BY <1>1, <3>1
  <2>4. CASE o.value # "bad" /\ o.key \in {"http1_only", "http2_only"} /\ o.value # "True"
    <3>1. q = r
      BY <2>1, <2>4 DEF Options!ApplyOption, Options!ProxyKeys
    <3>2. ValidIn(o, keys, inPlace) /\ \A s : ~GivesIn(o, s, inPlace)
      BY <1>6, <2>4 DEF ValidIn, GivesIn, Options!Writes, Options!Protocols
    <3>3. Options!Rules(o) = {}
      BY <2>4 DEF Options!Rules
    <3>4. QED
      BY <1>2, <3>1, <3>2, <3>3
  <2>5. CASE o.value # "bad" /\ o.key \in Options!ProxyKeys
    <3> DEFINE rules == Options!ProxyRules(r.proxies, o)
    <3>1. q = [ok |-> r.ok, settings |-> r.settings, proxies |-> rules]
      BY <2>1, <2>5 DEF Options!ApplyOption, Options!ProxyKeys
    <3>2. q.ok = r.ok /\ q.settings = r.settings /\ q.proxies = rules
      BY <3>1
    <3>3. ValidIn(o, keys, inPlace) /\ \A s : ~GivesIn(o, s, inPlace)
      BY <1>6, <2>5 DEF ValidIn, GivesIn, Options!Writes, Options!Protocols, Options!ProxyKeys
    <3>4. ASSUME NEW added \in Seq(ProxySet), rules = r.proxies \o added,
                 Options!Rules(o) \subseteq Options!Range(added)
          PROVE  /\ rules \in Seq(ProxySet)
                 /\ Options!Range(r.proxies) \subseteq Options!Range(rules)
                 /\ Options!Rules(o) \subseteq Options!Range(rules)
      <4>1. rules \in Seq(ProxySet) /\ r.proxies \in Seq(ProxySet)
        BY <3>4 DEF ResultTyped
      <4>2. /\ DOMAIN r.proxies = 1 .. Len(r.proxies) /\ DOMAIN added = 1 .. Len(added)
            /\ DOMAIN rules = 1 .. Len(r.proxies) + Len(added)
            /\ Len(r.proxies) \in Nat /\ Len(added) \in Nat
            /\ \A i \in 1 .. Len(r.proxies) : rules[i] = r.proxies[i]
            /\ \A i \in 1 .. Len(added) : rules[Len(r.proxies) + i] = added[i]
        BY <3>4, <4>1, ConcatProperties
      <4> HIDE DEF rules
      <4>3. Options!Range(r.proxies) \subseteq Options!Range(rules)
        <5>1. \A i \in DOMAIN r.proxies : i \in DOMAIN rules /\ rules[i] = r.proxies[i]
          BY <4>2
        <5>2. QED
          BY <5>1, Zenon DEF Options!Range
      <4>4. Options!Range(added) \subseteq Options!Range(rules)
        <5>1. \A i \in DOMAIN added : Len(r.proxies) + i \in DOMAIN rules /\ rules[Len(r.proxies) + i] = added[i]
          BY <4>2
        <5>2. QED
          BY <5>1, Zenon DEF Options!Range
      <4>5. QED
        BY <3>4, <4>1, <4>3, <4>4
    <3>5. /\ rules \in Seq(ProxySet)
          /\ ~Forgets(o) => /\ Options!Range(r.proxies) \subseteq Options!Range(rules)
                            /\ Options!Rules(o) \subseteq Options!Range(rules)
      <4>1. CASE o.key = "proxies"
        <5>1. ProxyLists[o.value] \in Seq(ProxySet)
          BY <2>5, <4>1, OptionsTyped
        <5>2. rules = r.proxies \o ProxyLists[o.value] /\ Options!Rules(o) = Options!Range(ProxyLists[o.value])
          BY <4>1 DEF Options!ProxyRules, Options!Rules
        <5> HIDE DEF rules
        <5>3. QED
          BY <3>4, <5>1, <5>2
      <4>2. CASE o.key \in {"proxy", "uds"}
        <5>1. o.value \in ProxySet /\ r.proxies \in Seq(ProxySet)
          BY OptionsTyped DEF ResultTyped
        <5>2. rules = Append(r.proxies, o.value) /\ Options!Rules(o) = {o.value}
          BY <4>2 DEF Options!ProxyRules, Options!Rules
        <5>3. rules = r.proxies \o <<o.value>> /\ <<o.value>> \in Seq(ProxySet)
          BY <5>1, <5>2, AppendIsConcat
        <5>4. Options!Rules(o) \subseteq Options!Range(<<o.value>>)
          BY <5>2 DEF Options!Range
        <5> HIDE DEF rules
        <5>5. QED
          BY <3>4, <5>3, <5>4
      <4>3. CASE o.key = "no_proxy" /\ o.value # "True"
        <5>1. rules = r.proxies /\ Options!Rules(o) = {}
          BY <4>3 DEF Options!ProxyRules, Options!Rules
        <5>2. QED
          BY <5>1 DEF ResultTyped
      <4>4. CASE o.key = "no_proxy" /\ o.value = "True"
        <5>1. rules = <<>> /\ Forgets(o)
          BY <4>4 DEF Options!ProxyRules, Forgets
        <5>2. QED
          BY <5>1, EmptySeq
      <4>5. QED
        BY <2>5, <4>1, <4>2, <4>3, <4>4 DEF Options!ProxyKeys
    <3> HIDE DEF q, rules
    <3>6. QED
      BY <1>6, <3>2, <3>3, <3>5 DEF ResultTyped
  <2>6. QED
    BY <2>2, <2>3, <2>4, <2>5 DEF Options!ProxyKeys
<1>7. QED
  BY <1>4, <1>5, <1>6

\* No option behind this one gives the setting.
LastGiver(m, k, s, inPlace) ==
    GivesIn(m[k], s, inPlace) /\ \A j \in DOMAIN m : j > k => ~GivesIn(m[j], s, inPlace)

\* What the options of a mapping make of a result they start from.
AppliedAs(r, start, m, keys, inPlace) ==
    /\ ResultTyped(r)
    /\ r.ok <=> start.ok /\ \A i \in DOMAIN m : ValidIn(m[i], keys, inPlace)
    /\ r.ok =>
          /\ \A s \in DOMAIN start.settings : s \in DOMAIN r.settings
          /\ \A i \in DOMAIN m : \A s : GivesIn(m[i], s, inPlace) => s \in DOMAIN r.settings
          /\ \A s \in DOMAIN r.settings :
                \/ \E k \in DOMAIN m : LastGiver(m, k, s, inPlace) /\ r.settings[s] = Options!Given(m[k], s)
                \/ /\ s \in DOMAIN start.settings /\ r.settings[s] = start.settings[s]
                   /\ \A k \in DOMAIN m : ~GivesIn(m[k], s, inPlace)
          /\ \A i \in DOMAIN m : \/ Options!Rules(m[i]) \subseteq Options!Range(r.proxies)
                                 \/ \E j \in DOMAIN m : j >= i /\ Forgets(m[j])

\* Of those that give a setting the last one gives it.
LEMMA LastOptionCounts ==
    ASSUME NEW start, ResultTyped(start), NEW keys, NEW inPlace \in BOOLEAN
    PROVE  \A m \in Seq(OptionSet) :
              AppliedAs(Options!Apply(start, m, keys, inPlace), start, m, keys, inPlace)
<1> DEFINE R(m) == Options!Apply(start, m, keys, inPlace)
           X == {m \in Seq(OptionSet) : AppliedAs(R(m), start, m, keys, inPlace)}
<1>1. R(<<>>) = start /\ \A m \in Seq(OptionSet), e \in OptionSet :
                           R(Append(m, e)) = Options!ApplyNext(R(m), e, keys, inPlace)
  <2>1. /\ Options!Apply(start, <<>>, keys, inPlace) = start
        /\ \A s \in Seq(OptionSet), e \in OptionSet :
              Options!Apply(start, Append(s, e), keys, inPlace)
                 = Options!ApplyNext(Options!Apply(start, s, keys, inPlace), e, keys, inPlace)
    BY ApplyEquations
  <2>2. QED
    BY <2>1
<1> HIDE DEF R
<1>2. <<>> \in X
  <2>1. <<>> \in Seq(OptionSet) /\ DOMAIN <<>> = {}
    OBVIOUS
  <2>2. AppliedAs(start, start, <<>>, keys, inPlace)
    BY <2>1 DEF AppliedAs, ResultTyped
  <2>3. QED
    BY <1>1, <2>1, <2>2
<1>3. ASSUME NEW m \in Seq(OptionSet), NEW e \in OptionSet, m \in X PROVE Append(m, e) \in X
  <2> DEFINE u == Append(m, e)
             n == Len(m)
             r == R(m)
             q == R(u)
  <2>1. /\ u \in Seq(OptionSet) /\ n \in Nat /\ DOMAIN u = 1 .. n + 1 /\ DOMAIN m = 1 .. n
        /\ u[n + 1] = e /\ \A i \in 1 .. n : u[i] = m[i]
    BY AppendProperties
  <2>2. AppliedAs(r, start, m, keys, inPlace)
    BY <1>3
  <2>3. q = Options!ApplyNext(r, e, keys, inPlace)
    BY <1>1
  <2> HIDE DEF u, n, r, q
  <2>4. /\ ResultTyped(q)
        /\ q.ok <=> r.ok /\ ValidIn(e, keys, inPlace)
        /\ q.ok => /\ \A s : s \in DOMAIN q.settings <=> s \in DOMAIN r.settings \/ GivesIn(e, s, inPlace)
                   /\ \A s \in DOMAIN q.settings :
                         q.settings[s] = IF GivesIn(e, s, inPlace) THEN Options!Given(e, s)
                                         ELSE r.settings[s]
                   /\ ~Forgets(e) => /\ Options!Range(r.proxies) \subseteq Options!Range(q.proxies)
                                     /\ Options!Rules(e) \subseteq Options!Range(q.proxies)
    <3>1. ResultTyped(r)
      BY <2>2 DEF AppliedAs
    <3>2. OneApplied(q, r, e, keys, inPlace)
      BY <2>3, <3>1, OptionApplied
    <3>3. QED
      BY <3>2 DEF OneApplied
  <2>5. q.ok <=> start.ok /\ \A i \in DOMAIN u : ValidIn(u[i], keys, inPlace)
    <3>1. (\A i \in DOMAIN u : ValidIn(u[i], keys, inPlace))
          <=> (\A i \in DOMAIN m : ValidIn(m[i], keys, inPlace)) /\ ValidIn(e, keys, inPlace)
      BY <2>1
    <3>2. QED
      BY <2>2, <2>4, <3>1 DEF AppliedAs
  <2>6. ASSUME q.ok
        PROVE  /\ \A s \in DOMAIN start.settings : s \in DOMAIN q.settings
               /\ \A i \in DOMAIN u : \A s : GivesIn(u[i], s, inPlace) => s \in DOMAIN q.settings
    <3>1. r.ok
      BY <2>4, <2>6
    <3>2. \A s \in DOMAIN start.settings : s \in DOMAIN q.settings
      BY <2>2, <2>4, <2>6, <3>1 DEF AppliedAs
    <3>3. ASSUME NEW i \in DOMAIN u, NEW s, GivesIn(u[i], s, inPlace) PROVE s \in DOMAIN q.settings
      <4>1. CASE i = n + 1
        BY <2>1, <2>4, <2>6, <3>3, <4>1
      <4>2. CASE i \in DOMAIN m
        <5>1. GivesIn(m[i], s, inPlace)
          BY <2>1, <3>3, <4>2
        <5>2. QED
          BY <2>2, <2>4, <2>6, <3>1, <4>2, <5>1 DEF AppliedAs
      <4>3. QED
        BY <2>1, <4>1, <4>2
    <3>4. QED
      BY <3>2, <3>3
  <2>7. ASSUME q.ok, NEW s \in DOMAIN q.settings
        PROVE  \/ \E k \in DOMAIN u : LastGiver(u, k, s, inPlace) /\ q.settings[s] = Options!Given(u[k], s)
               \/ /\ s \in DOMAIN start.settings /\ q.settings[s] = start.settings[s]
                  /\ \A k \in DOMAIN u : ~GivesIn(u[k], s, inPlace)
    <3>1. r.ok
      BY <2>4, <2>7
    <3>2. CASE GivesIn(e, s, inPlace)
      <4>1. LastGiver(u, n + 1, s, inPlace) /\ n + 1 \in DOMAIN u
        BY <2>1, <3>2 DEF LastGiver
      <4>2. q.settings[s] = Options!Given(u[n + 1], s)
        BY <2>1, <2>4, <2>7, <3>2
      <4>3. QED
        BY <4>1, <4>2
    <3>3. CASE ~GivesIn(e, s, inPlace)
      <4>1. s \in DOMAIN r.settings /\ q.settings[s] = r.settings[s]
        BY <2>4, <2>7, <3>3
      <4>2. CASE \E k \in DOMAIN m : LastGiver(m, k, s, inPlace) /\ r.settings[s] = Options!Given(m[k], s)
        <5>1. PICK k \in DOMAIN m : LastGiver(m, k, s, inPlace) /\ r.settings[s] = Options!Given(m[k], s)
          BY <4>2
        <5>2. u[k] = m[k] /\ k \in DOMAIN u
          BY <2>1
        <5>3. LastGiver(u, k, s, inPlace)
          BY <2>1, <3>3, <5>1, <5>2 DEF LastGiver
        <5>4. QED
          BY <4>1, <5>1, <5>2, <5>3
      <4>3. CASE /\ s \in DOMAIN start.settings /\ r.settings[s] = start.settings[s]
                 /\ \A k \in DOMAIN m : ~GivesIn(m[k], s, inPlace)
        BY <2>1, <3>3, <4>1, <4>3
      <4>4. QED
        BY <2>2, <3>1, <4>1, <4>2, <4>3 DEF AppliedAs
    <3>4. QED
      BY <3>2, <3>3
  <2>8. ASSUME q.ok, NEW i \in DOMAIN u
        PROVE  \/ Options!Rules(u[i]) \subseteq Options!Range(q.proxies)
               \/ \E j \in DOMAIN u : j >= i /\ Forgets(u[j])
    <3>1. CASE Forgets(e)
      BY <2>1, <3>1
    <3>2. CASE ~Forgets(e) /\ i = n + 1
      BY <2>1, <2>4, <2>8, <3>2
    <3>3. CASE ~Forgets(e) /\ i \in DOMAIN m
      <4>1. \/ Options!Rules(m[i]) \subseteq Options!Range(r.proxies)
            \/ \E j \in DOMAIN m : j >= i /\ Forgets(m[j])
        BY <2>2, <2>4, <2>8, <3>3 DEF AppliedAs
      <4>2. Options!Range(r.proxies) \subseteq Options!Range(q.proxies)
        BY <2>4, <2>8, <3>3
      <4>3. u[i] = m[i] /\ \A j \in DOMAIN m : j \in DOMAIN u /\ u[j] = m[j]
        BY <2>1, <3>3
      <4>4. QED
        BY <4>1, <4>2, <4>3
    <3>4. QED
      BY <2>1, <3>1, <3>2, <3>3
  <2>9. AppliedAs(q, start, u, keys, inPlace)
    BY <2>4, <2>5, <2>6, <2>7, <2>8 DEF AppliedAs
  <2>10. QED
    BY <2>1, <2>9 DEF u, q
<1>4. Seq(OptionSet) \subseteq X
  <2> HIDE DEF X
  <2>1. QED
    BY <1>2, <1>3, AllSequences
<1>5. QED
  BY <1>4 DEF R

-----------------------------------------------------------------------------
(* Emulations, dicts that are updated, what Python derives.                 *)

\* What an emulation may give.
EmulatedSettings == Options!Protocols \union {"orig_headers"}

\* An emulation gives no settings but those of its profile and of its parts.
LEMMA EmulationGives ==
    ASSUME NEW o \in OptionSet, o.key = "emulation", Options!Emulation(o.value).ok
    PROVE  DOMAIN Options!Emulation(o.value).settings \subseteq EmulatedSettings
<1> DEFINE name == o.value
           e == Emulations[name]
           start == [ok |-> TRUE, settings |-> Options!ProfileSettings(e), proxies |-> <<>>]
           R(m) == Options!ReplaceParts(start, m)
           Narrow(r) == r.ok => DOMAIN r.settings \subseteq EmulatedSettings
           X == {m \in Seq(OptionSet) : Narrow(R(m))}
<1>1. ~Options!Failed.ok
  BY DEF Options!Failed
<1>2. name # "bad" /\ ~(e.profile = "none" /\ e.flags)
  BY <1>1 DEF Options!Emulation
<1>3. Options!Emulation(name) = R(e.parts)
  BY <1>2 DEF Options!Emulation
<1>4. e.parts \in Seq(OptionSet)
  <2>1. name \in DOMAIN Emulations
    BY <1>2, OptionsTyped
  <2>2. e.parts \in OptionDicts
    BY <2>1 DEF OptionDicts
  <2>3. QED
    BY <2>2, OptionsTyped
<1>5. Narrow(start)
  <2>1. start.settings = Options!ProfileSettings(e)
    OBVIOUS
  <2>2. DOMAIN Options!ProfileSettings(e) \subseteq EmulatedSettings
    <3>1. CASE e.profile = "none"
      <4>1. Options!ProfileSettings(e) = <<>>
        BY <3>1 DEF Options!ProfileSettings
      <4>2. DOMAIN <<>> = {}
        OBVIOUS
      <4>3. QED
        BY <4>1, <4>2
    <3>2. CASE e.profile # "none"
      <4>1. DOMAIN Options!ProfileSettings(e) =
               {"tls_options", "http1_options", "orig_headers"}
                  \union (IF e.http2 THEN {"http2_options"} ELSE {})
        BY <3>2 DEF Options!ProfileSettings
      <4>2. QED
        BY <4>1 DEF EmulatedSettings, Options!Protocols
    <3>3. QED
      BY <3>1, <3>2
  <2>3. QED
    BY <2>1, <2>2
<1>6. ASSUME NEW r, Narrow(r), NEW p \in OptionSet PROVE Narrow(Options!ReplacePart(r, p))
  <2> DEFINE q == Options!ReplacePart(r, p)
             new == Options!Only(Options!Setting(p.key), Options!Written(p))
  <2>1. CASE q = Options!Failed
    BY <1>1, <2>1
  <2>2. CASE q = r
    BY <1>6, <2>2
  <2>3. CASE q # Options!Failed /\ q # r
    <3>1. r.ok /\ p.key \in EmulatedSettings /\ q = Options!Write(r, p)
      BY <2>3 DEF Options!ReplacePart, EmulatedSettings
    <3>2. q = [ok |-> r.ok, settings |-> Options!With(r.settings, new), proxies |-> r.proxies]
      BY <2>3, <3>1 DEF Options!Write
    <3>3. q.settings = Options!With(r.settings, new)
      BY <3>2
    <3>4. Options!Setting(p.key) = p.key
      BY <3>1 DEF EmulatedSettings, Options!Protocols, Options!Setting
    <3>5. DOMAIN new = {p.key}
      BY <3>4 DEF Options!Only
    <3> HIDE DEF new
    <3>6. DOMAIN q.settings = DOMAIN r.settings \union DOMAIN new
      <4>1. DOMAIN Options!With(r.settings, new) = DOMAIN r.settings \union DOMAIN new
        BY WithDoes, Zenon
      <4>2. QED
        BY <3>3, <4>1, Zenon
    <3>7. DOMAIN r.settings \subseteq EmulatedSettings
      BY <1>6, <3>1
    <3>8. Narrow(q)
      BY <3>1, <3>5, <3>6, <3>7
    <3>9. QED
      BY <3>8
  <2>4. QED
    BY <2>1, <2>2, <2>3
<1>7. R(<<>>) = start /\ \A m \in Seq(OptionSet), p \in OptionSet :
                           R(Append(m, p)) = Options!ReplacePart(R(m), p)
  <2> HIDE DEF start
  <2>1. /\ Options!ReplaceParts(start, <<>>) = start
        /\ \A s \in Seq(OptionSet), p \in OptionSet :
              Options!ReplaceParts(start, Append(s, p)) = Options!ReplacePart(Options!ReplaceParts(start, s), p)
    BY PartsEquations
  <2>2. QED
    BY <2>1
<1> HIDE DEF R, start, Narrow, e, name
<1>8. <<>> \in X
  BY <1>5, <1>7
<1>9. ASSUME NEW m \in Seq(OptionSet), NEW p \in OptionSet, m \in X PROVE Append(m, p) \in X
  <2>1. Narrow(R(m)) /\ R(Append(m, p)) = Options!ReplacePart(R(m), p)
    BY <1>7, <1>9
  <2>2. Narrow(R(Append(m, p)))
    BY <1>6, <2>1
  <2>3. QED
    BY <2>2
<1>10. Seq(OptionSet) \subseteq X
  <2> HIDE DEF X
  <2>1. QED
    BY <1>8, <1>9, AllSequences
<1>11. Narrow(R(e.parts))
  BY <1>4, <1>10
<1>12. Narrow(Options!Emulation(name))
  BY <1>3, <1>11
<1>13. QED
  BY <1>12 DEF Narrow, name

\* Of a dict updated from another: what is new stands behind, in its order.
UpdatedInOrder(u, old, new) ==
    /\ u \in Seq(OptionSet) /\ DistinctKeys(u) /\ Len(old) <= Len(u)
    /\ \A i \in DOMAIN new : \E k \in DOMAIN u : u[k] = new[i]
    /\ \A k \in DOMAIN u : k <= Len(old) =>
          /\ u[k].key = old[k].key
          /\ u[k] = old[k] \/ \E i \in DOMAIN new : u[k] = new[i]
    /\ \A k \in DOMAIN u : k > Len(old) => \E i \in DOMAIN new : u[k] = new[i]
    /\ \A k, l \in DOMAIN u : \A i, j \in DOMAIN new :
          Len(old) < k /\ k <= l /\ u[k] = new[i] /\ u[l] = new[j] => i <= j

\* dict.update.
LEMMA DictUpdated ==
    ASSUME NEW old \in Seq(OptionSet), DistinctKeys(old),
           NEW new \in Seq(OptionSet), DistinctKeys(new)
    PROVE  UpdatedInOrder(Options!Update(old, new), old, new)
<1> DEFINE R(m) == Options!Update(old, m)
           X == {m \in Seq(OptionSet) : DistinctKeys(m) => UpdatedInOrder(R(m), old, m)}
<1>1. R(<<>>) = old /\ \A m \in Seq(OptionSet), e \in OptionSet : R(Append(m, e)) = Options!Put(R(m), e)
  <2>1. /\ Options!Update(old, <<>>) = old
        /\ \A s \in Seq(OptionSet), e \in OptionSet :
              Options!Update(old, Append(s, e)) = Options!Put(Options!Update(old, s), e)
    BY UpdateEquations
  <2>2. QED
    BY <2>1
<1> HIDE DEF R
<1>2. <<>> \in X
  <2>1. <<>> \in Seq(OptionSet) /\ DOMAIN <<>> = {} /\ DOMAIN old = 1 .. Len(old) /\ Len(old) \in Nat
    OBVIOUS
  <2>2. UpdatedInOrder(old, old, <<>>)
    BY <2>1 DEF UpdatedInOrder
  <2>3. QED
    BY <1>1, <2>1, <2>2
<1>3. ASSUME NEW m \in Seq(OptionSet), NEW e \in OptionSet, m \in X, DistinctKeys(Append(m, e))
      PROVE  UpdatedInOrder(R(Append(m, e)), old, Append(m, e))
  <2> DEFINE w == Append(m, e)
             n == Len(m)
             u == R(m)
             v == R(w)
             a == Len(old)
             z == Len(u)
  <2>1. /\ w \in Seq(OptionSet) /\ n \in Nat /\ DOMAIN w = 1 .. n + 1 /\ DOMAIN m = 1 .. n
        /\ w[n + 1] = e /\ \A i \in 1 .. n : w[i] = m[i]
    BY AppendProperties
  <2>2. DistinctKeys(m) /\ \A i \in 1 .. n : m[i].key # e.key
    <3>1. \A i, j \in 1 .. n + 1 : w[i].key = w[j].key => i = j
      BY <1>3, <2>1 DEF DistinctKeys
    <3> HIDE DEF w, n
    <3>2. \A i, j \in 1 .. n : m[i].key = m[j].key => i = j
      BY <2>1, <3>1
    <3>3. \A i \in 1 .. n : m[i].key # e.key
      BY <2>1, <3>1
    <3>4. QED
      BY <2>1, <3>2, <3>3 DEF DistinctKeys
  <2>3. UpdatedInOrder(u, old, m)
    BY <1>3, <2>2
  <2>4. v = Options!Put(u, e) /\ a \in Nat
    BY <1>1
  <2> HIDE DEF w, n, u, v, a, z, X
  <2>5. /\ u \in Seq(OptionSet) /\ DOMAIN u = 1 .. z /\ z \in Nat /\ a <= z /\ z = Len(u)
        /\ \A k, l \in 1 .. z : u[k].key = u[l].key => k = l
    BY <2>3 DEF UpdatedInOrder, DistinctKeys, a, z
  <2>6. /\ DOMAIN u = 1 .. z /\ DOMAIN m = 1 .. n /\ Len(old) = a
    BY <2>1, <2>5 DEF a
  <2>7. \A i \in 1 .. n : \E k \in 1 .. z : u[k] = m[i]
    <3>1. \A i \in DOMAIN m : \E k \in DOMAIN u : u[k] = m[i]
      BY <2>3, Zenon DEF UpdatedInOrder
    <3>2. QED
      BY <2>6, <3>1, Zenon
  <2>8. \A k \in 1 .. z : k <= a =>
            u[k].key = old[k].key /\ (u[k] = old[k] \/ \E i \in 1 .. n : u[k] = m[i])
    <3>1. \A k \in DOMAIN u : k <= Len(old) =>
             u[k].key = old[k].key /\ (u[k] = old[k] \/ \E i \in DOMAIN m : u[k] = m[i])
      BY <2>3, Zenon DEF UpdatedInOrder
    <3>2. QED
      BY <2>6, <3>1, Zenon
  <2>9. \A k \in 1 .. z : k > a => \E i \in 1 .. n : u[k] = m[i]
    <3>1. \A k \in DOMAIN u : k > Len(old) => \E i \in DOMAIN m : u[k] = m[i]
      BY <2>3, Zenon DEF UpdatedInOrder
    <3>2. QED
      BY <2>6, <3>1, Zenon
  <2>10. \A k, l \in 1 .. z : \A i, j \in 1 .. n :
            a < k /\ k <= l /\ u[k] = m[i] /\ u[l] = m[j] => i <= j
    <3>1. \A k, l \in DOMAIN u : \A i, j \in DOMAIN m :
             Len(old) < k /\ k <= l /\ u[k] = m[i] /\ u[l] = m[j] => i <= j
      BY <2>3, Zenon DEF UpdatedInOrder
    <3>2. QED
      BY <2>6, <3>1, Zenon
  <2>11. /\ \A k \in 1 .. z : \A i \in 1 .. n : u[k] = m[i] => u[k].key # e.key
    BY <2>2
  <2>12. CASE e.key \in Options!Keys(u)
    <3>1. PICK p \in 1 .. z : u[p].key = e.key
      BY <2>5, <2>12 DEF Options!Keys
    <3>2. p <= a
      BY <2>4, <2>11, <2>9, <3>1
    <3>3. v = [k \in 1 .. z |-> IF u[k].key = e.key THEN e ELSE u[k]]
      BY <2>4, <2>5, <2>12 DEF Options!Put
    <3>4. /\ v \in Seq(OptionSet) /\ DOMAIN v = 1 .. z /\ Len(v) = z
          /\ v[p] = e /\ \A k \in 1 .. z : k # p => v[k] = u[k]
          /\ \A k \in 1 .. z : v[k].key = u[k].key
      <4>1. \A k \in 1 .. z : k # p => u[k].key # e.key
        BY <2>5, <3>1
      <4>2. \A k \in 1 .. z : u[k] \in OptionSet
        BY <2>5
      <4>3. v \in Seq(OptionSet) /\ DOMAIN v = 1 .. z /\ Len(v) = z
        BY <2>5, <3>3, <4>2
      <4>4. v[p] = e /\ \A k \in 1 .. z : k # p => v[k] = u[k]
        BY <3>1, <3>3, <4>1
      <4>5. QED
        BY <3>1, <4>3, <4>4
    <3>5. DistinctKeys(v)
      BY <2>5, <3>4 DEF DistinctKeys
    <3>6. \A i \in 1 .. n + 1 : \E k \in 1 .. z : v[k] = w[i]
      <4>1. ASSUME NEW i \in 1 .. n PROVE \E k \in 1 .. z : v[k] = w[i]
        <5>1. PICK k \in 1 .. z : u[k] = m[i]
          BY <2>7
        <5>2. k # p
          BY <2>11, <3>1, <5>1
        <5>3. QED
          BY <2>1, <3>4, <5>1, <5>2
      <4>2. v[p] = w[n + 1]
        BY <2>1, <3>4
      <4>3. \A i \in 1 .. n + 1 : i \in 1 .. n \/ i = n + 1
        BY <2>1
      <4>4. QED
        BY <4>1, <4>2, <4>3
    <3>7. ASSUME NEW k \in 1 .. z, k <= a
          PROVE  v[k].key = old[k].key /\ (v[k] = old[k] \/ \E i \in 1 .. n + 1 : v[k] = w[i])
      <4>1. u[k].key = old[k].key /\ (u[k] = old[k] \/ \E i \in 1 .. n : u[k] = m[i])
        BY <2>8, <3>7
      <4>2. CASE k = p
        BY <2>1, <3>4, <4>1, <4>2
      <4>3. CASE k # p
        BY <2>1, <3>4, <4>1, <4>3
      <4>4. QED
        BY <4>2, <4>3
    <3>8. ASSUME NEW k \in 1 .. z, k > a PROVE v[k] = u[k] /\ \E i \in 1 .. n + 1 : v[k] = w[i]
      <4>1. k # p /\ \E i \in 1 .. n : u[k] = m[i]
        BY <2>4, <2>9, <3>2, <3>8
      <4>2. QED
        BY <2>1, <3>4, <4>1
    <3>9. ASSUME NEW k \in 1 .. z, NEW l \in 1 .. z, NEW i \in 1 .. n + 1, NEW j \in 1 .. n + 1,
                 a < k, k <= l, v[k] = w[i], v[l] = w[j]
          PROVE  i <= j
      <4>1. l > a /\ v[k] = u[k] /\ v[l] = u[l]
        BY <2>4, <3>8, <3>9
      <4>2. k # p /\ l # p
        BY <2>4, <3>2, <3>9
      <4>3. u[k].key # e.key /\ u[l].key # e.key
        BY <2>5, <3>1, <4>2
      <4>4. w[i].key # e.key /\ w[j].key # e.key
        BY <3>9, <4>1, <4>3
      <4>5. i # n + 1 /\ j # n + 1
        BY <2>1, <4>4
      <4>6. i \in 1 .. n /\ j \in 1 .. n /\ u[k] = m[i] /\ u[l] = m[j]
        <5>1. i \in 1 .. n /\ j \in 1 .. n
          BY <2>1, <4>5
        <5>2. QED
          BY <2>1, <3>9, <4>1, <5>1
      <4>7. QED
        BY <2>10, <3>9, <4>6
    <3>10. DOMAIN w = 1 .. n + 1 /\ Len(old) = a /\ a <= Len(v)
      BY <2>1, <2>5, <2>6, <3>4
    <3>11. UpdatedInOrder(v, old, w)
      BY <3>4, <3>5, <3>6, <3>7, <3>8, <3>9, <3>10, Zenon DEF UpdatedInOrder
    <3>12. QED
      BY <3>11 DEF v, w
  <2>13. CASE e.key \notin Options!Keys(u)
    <3>1. v = Append(u, e)
      BY <2>4, <2>13 DEF Options!Put
    <3>2. /\ v \in Seq(OptionSet) /\ DOMAIN v = 1 .. z + 1 /\ Len(v) = z + 1
          /\ v[z + 1] = e /\ \A k \in 1 .. z : v[k] = u[k]
      BY <2>5, <3>1, AppendProperties
    <3>3. \A k \in 1 .. z : u[k].key # e.key
      BY <2>5, <2>13 DEF Options!Keys
    <3>4. DistinctKeys(v)
      <4>1. \A k, l \in 1 .. z : u[k].key = u[l].key => k = l
        BY <2>5
      <4>2. ASSUME NEW k \in 1 .. z + 1, NEW l \in 1 .. z + 1, v[k].key = v[l].key PROVE k = l
        <5>1. (k \in 1 .. z \/ k = z + 1) /\ (l \in 1 .. z \/ l = z + 1)
          BY <2>5
        <5>2. \A i \in 1 .. z : v[i].key = u[i].key /\ v[i].key # e.key
          BY <3>2, <3>3
        <5>3. CASE k \in 1 .. z /\ l \in 1 .. z
          BY <4>1, <4>2, <5>2, <5>3
        <5>4. QED
          BY <3>2, <4>2, <5>1, <5>2, <5>3
      <4>3. DOMAIN v = 1 .. z + 1
        BY <3>2
      <4>4. QED
        BY <4>2, <4>3, Zenon DEF DistinctKeys
    <3>5. \A i \in 1 .. n + 1 : \E k \in 1 .. z + 1 : v[k] = w[i]
      <4>1. ASSUME NEW i \in 1 .. n PROVE \E k \in 1 .. z + 1 : v[k] = w[i]
        <5>1. PICK k \in 1 .. z : u[k] = m[i]
          BY <2>7
        <5>2. QED
          BY <2>1, <2>5, <3>2, <5>1
      <4>2. z + 1 \in 1 .. z + 1
        BY <2>5, <3>2
      <4>3. QED
        BY <2>1, <3>2, <4>1, <4>2
    <3>6. ASSUME NEW k \in 1 .. z + 1, k <= a
          PROVE  v[k].key = old[k].key /\ (v[k] = old[k] \/ \E i \in 1 .. n + 1 : v[k] = w[i])
      <4>1. k \in 1 .. z
        BY <2>4, <2>5, <3>6
      <4>2. u[k].key = old[k].key /\ (u[k] = old[k] \/ \E i \in 1 .. n : u[k] = m[i])
        BY <2>8, <3>6, <4>1
      <4>3. QED
        BY <2>1, <3>2, <4>1, <4>2
    <3>7. ASSUME NEW k \in 1 .. z + 1, k > a
          PROVE  \E i \in 1 .. n + 1 : v[k] = w[i] /\ (k \in 1 .. z => i \in 1 .. n) /\ (k = z + 1 => i = n + 1)
      <4>1. CASE k \in 1 .. z
        <5>1. k # z + 1
          BY <2>5, <4>1
        <5>2. PICK i \in 1 .. n : u[k] = m[i]
          BY <2>9, <3>7, <4>1
        <5>3. QED
          BY <2>1, <3>2, <4>1, <5>1, <5>2
      <4>2. CASE k = z + 1
        BY <2>1, <2>5, <3>2, <4>2
      <4>3. QED
        BY <2>5, <4>1, <4>2
    <3>8. ASSUME NEW k \in 1 .. z + 1, NEW l \in 1 .. z + 1, NEW i \in 1 .. n + 1, NEW j \in 1 .. n + 1,
                 a < k, k <= l, v[k] = w[i], v[l] = w[j]
          PROVE  i <= j
      <4>1. CASE l = z + 1
        <5>1. w[j].key = e.key
          BY <3>2, <3>8, <4>1
        <5>2. j = n + 1
          BY <2>1, <2>2, <5>1
        <5>3. QED
          BY <2>1, <5>2
      <4>2. CASE l \in 1 .. z
        <5>1. k \in 1 .. z
          BY <2>5, <3>8, <4>2
        <5>2. v[k] = u[k] /\ v[l] = u[l] /\ u[k].key # e.key /\ u[l].key # e.key
          BY <3>2, <3>3, <4>2, <5>1
        <5>3. w[i].key # e.key /\ w[j].key # e.key
          BY <3>8, <5>2
        <5>4. i # n + 1 /\ j # n + 1
          BY <2>1, <5>3
        <5>5. i \in 1 .. n /\ j \in 1 .. n /\ u[k] = m[i] /\ u[l] = m[j]
          <6>1. i \in 1 .. n /\ j \in 1 .. n
            BY <2>1, <5>4
          <6>2. QED
            BY <2>1, <3>8, <5>2, <6>1
        <5>6. QED
          BY <2>10, <3>8, <4>2, <5>1, <5>5
      <4>3. QED
        BY <2>5, <4>1, <4>2
    <3>9. a <= Len(v)
      BY <2>4, <2>5, <3>2
    <3>10. DOMAIN w = 1 .. n + 1 /\ Len(old) = a
      BY <2>1, <2>6
    <3>11. UpdatedInOrder(v, old, w)
      <4>1. \A k \in 1 .. z + 1 : k > a => \E i \in 1 .. n + 1 : v[k] = w[i]
        BY <3>7, Zenon
      <4>2. QED
        BY <3>2, <3>4, <3>5, <3>6, <3>8, <3>9, <3>10, <4>1, Zenon DEF UpdatedInOrder
    <3>12. QED
      BY <3>11 DEF v, w
  <2>14. QED
    BY <2>12, <2>13
<1>4. \A m \in Seq(OptionSet), e \in OptionSet : m \in X => Append(m, e) \in X
  <2>1. \A m \in Seq(OptionSet), e \in OptionSet : Append(m, e) \in Seq(OptionSet)
    OBVIOUS
  <2>2. QED
    BY <1>3, <2>1
<1>5. Seq(OptionSet) \subseteq X
  <2> HIDE DEF X
  <2>1. QED
    BY <1>2, <1>4, AllSequences
<1>6. QED
  BY <1>5 DEF R

\* Options that Python derives, each key once.
DerivedFor(m, keys) ==
    /\ m \in Seq(OptionSet) /\ DistinctKeys(m)
    /\ \A i \in DOMAIN m : m[i].key \in keys /\ m[i].value \in {"python", "True"}

\* One more option that Python derives, or not.
LEMMA DerivedAdded ==
    ASSUME NEW m, NEW keys, DerivedFor(m, keys), NEW key \in DerivedKeys, key \notin keys,
           NEW value \in {"python", "True"}, NEW condition
    PROVE  DerivedFor(m \o (IF condition THEN <<Options!Option(key, value)>> ELSE <<>>),
                      keys \union (IF condition THEN {key} ELSE {}))
<1> DEFINE o == Options!Option(key, value)
           u == Append(m, o)
           n == Len(m)
<1>1. m \in Seq(OptionSet) /\ n \in Nat /\ DOMAIN m = 1 .. n
  BY DEF DerivedFor
<1>2. CASE ~condition
  <2>1. m \o <<>> = m
    BY <1>1, ConcatEmptySeq
  <2>2. QED
    BY <1>2, <2>1
<1>3. CASE condition
  <2>1. o \in OptionSet
    BY DEF OptionSet
  <2>2. o.key = key /\ o.value = value
    BY DEF Options!Option
  <2> HIDE DEF o
  <2>3. u = m \o <<o>>
    BY <1>1, <2>1, AppendIsConcat
  <2>4. /\ u \in Seq(OptionSet) /\ DOMAIN u = 1 .. n + 1
        /\ u[n + 1] = o /\ \A i \in 1 .. n : u[i] = m[i]
    BY <1>1, <2>1, AppendProperties
  <2> HIDE DEF u, n
  <2>5. /\ \A i \in 1 .. n : m[i].key \in keys /\ m[i].value \in {"python", "True"}
        /\ \A i, j \in 1 .. n : m[i].key = m[j].key => i = j
    BY <1>1 DEF DerivedFor, DistinctKeys
  <2>6. \A i \in 1 .. n : u[i].key # key
    BY <2>4, <2>5
  <2>7. \A i, j \in 1 .. n + 1 : u[i].key = u[j].key => i = j
    BY <1>1, <2>2, <2>4, <2>5, <2>6
  <2>8. \A i \in 1 .. n + 1 : u[i].key \in keys \union {key} /\ u[i].value \in {"python", "True"}
    BY <1>1, <2>2, <2>4, <2>5
  <2>9. DerivedFor(u, keys \union {key})
    BY <2>4, <2>7, <2>8 DEF DerivedFor, DistinctKeys
  <2>10. QED
    BY <1>3, <2>3, <2>9 DEF o
<1>4. QED
  BY <1>2, <1>3

\* What Python derives from the arguments.
LEMMA DerivedOptions ==
    ASSUME NEW args
    PROVE  /\ DerivedFor(Options!Derived(args), DerivedKeys)
           /\ "http1_only" \in Options!Keys(Options!Derived(args)) => ~args.http2
           /\ "http2_only" \in Options!Keys(Options!Derived(args)) => args.http2
<1> DEFINE when(condition, key, value) == IF condition THEN <<Options!Option(key, value)>> ELSE <<>>
           only(condition, key) == IF condition THEN {key} ELSE {}
           has(argument) == argument \in args.given
           m0 == <<Options!Option("tls_cert_verification", "python"),
                   Options!Option("tls_verify_hostname", "python"),
                   Options!Option("pool_idle_timeout", "python")>>
           m1 == m0 \o when(args.verify, "tls_cert_store", "python")
           m2 == m1 \o when(has("cert"), "tls_identity", "python")
           m3 == m2 \o when(has("max_keepalive_connections"), "pool_max_idle_per_host", "python")
           m4 == m3 \o when(has("max_connections"), "pool_max_size", "python")
           m5 == m4 \o when(~args.http2, "http1_only", "True")
           m6 == m5 \o when(args.http2 /\ ~args.http1, "http2_only", "True")
           m7 == m6 \o when(has("local_address"), "local_address", "python")
           m8 == m7 \o when(has("uds"), "uds", "python")
           m9 == m8 \o when(has("proxy"), "proxy", "python")
           k0 == {"tls_cert_verification", "tls_verify_hostname", "pool_idle_timeout"}
           k1 == k0 \union only(args.verify, "tls_cert_store")
           k2 == k1 \union only(has("cert"), "tls_identity")
           k3 == k2 \union only(has("max_keepalive_connections"), "pool_max_idle_per_host")
           k4 == k3 \union only(has("max_connections"), "pool_max_size")
           k5 == k4 \union only(~args.http2, "http1_only")
           k6 == k5 \union only(args.http2 /\ ~args.http1, "http2_only")
           k7 == k6 \union only(has("local_address"), "local_address")
           k8 == k7 \union only(has("uds"), "uds")
           k9 == k8 \union only(has("proxy"), "proxy")
<1>1. Options!Derived(args) = m9
  BY DEF Options!Derived
<1>2. DerivedFor(m0, k0)
  <2>1. \A key \in k0 : Options!Option(key, "python") \in OptionSet
    BY DEF OptionSet, DerivedKeys
  <2>2. \A key : Options!Option(key, "python").key = key /\ Options!Option(key, "python").value = "python"
    BY DEF Options!Option
  <2> DEFINE a == Options!Option("tls_cert_verification", "python")
             b == Options!Option("tls_verify_hostname", "python")
             c == Options!Option("pool_idle_timeout", "python")
  <2>3. /\ a \in OptionSet /\ b \in OptionSet /\ c \in OptionSet
        /\ a.key = "tls_cert_verification" /\ b.key = "tls_verify_hostname" /\ c.key = "pool_idle_timeout"
        /\ a.value = "python" /\ b.value = "python" /\ c.value = "python"
    BY <2>1, <2>2
  <2> HIDE DEF a, b, c
  <2>4. DerivedFor(<<a, b, c>>, k0)
    <3>1. <<a, b, c>> \in Seq(OptionSet) /\ DOMAIN <<a, b, c>> = {1, 2, 3}
      BY <2>3
    <3> DEFINE t == <<a, b, c>>
    <3>2. t[1] = a /\ t[2] = b /\ t[3] = c /\ DOMAIN t = {1, 2, 3} /\ t \in Seq(OptionSet)
      BY <3>1
    <3> HIDE DEF t
    <3>3. \A i \in {1, 2, 3} : t[i].key \in k0 /\ t[i].value \in {"python", "True"}
      BY <2>3, <3>2
    <3>4. \A i, j \in {1, 2, 3} : t[i].key = t[j].key => i = j
      BY <2>3, <3>2
    <3>5. DerivedFor(t, k0)
      BY <3>2, <3>3, <3>4 DEF DerivedFor, DistinctKeys
    <3>6. QED
      BY <3>5 DEF t
  <2>5. QED
    BY <2>4 DEF a, b, c
<1>3. \A m, keys, key, value, condition :
         DerivedFor(m, keys) /\ key \in DerivedKeys /\ key \notin keys /\ value \in {"python", "True"}
         => DerivedFor(m \o when(condition, key, value), keys \union only(condition, key))
  BY DerivedAdded
<1>4. DerivedFor(m1, k1)
  <2>1. "tls_cert_store" \notin k0 /\ "tls_cert_store" \in DerivedKeys
    BY DEF DerivedKeys
  <2> HIDE DEF m0, k0
  <2>2. DerivedFor(m0 \o when(args.verify, "tls_cert_store", "python"),
                  k0 \union only(args.verify, "tls_cert_store"))
    BY <1>2, <1>3, <2>1
  <2>3. QED
    BY <2>2
<1>5. DerivedFor(m2, k2)
  <2>1. "tls_identity" \notin k1 /\ "tls_identity" \in DerivedKeys
    BY DEF DerivedKeys
  <2> HIDE DEF m1, k1
  <2>2. DerivedFor(m1 \o when(has("cert"), "tls_identity", "python"),
                  k1 \union only(has("cert"), "tls_identity"))
    BY <1>3, <1>4, <2>1
  <2>3. QED
    BY <2>2
<1>6. DerivedFor(m3, k3)
  <2>1. "pool_max_idle_per_host" \notin k2 /\ "pool_max_idle_per_host" \in DerivedKeys
    BY DEF DerivedKeys
  <2> HIDE DEF m2, k2
  <2>2. DerivedFor(m2 \o when(has("max_keepalive_connections"), "pool_max_idle_per_host", "python"),
                  k2 \union only(has("max_keepalive_connections"), "pool_max_idle_per_host"))
    BY <1>3, <1>5, <2>1
  <2>3. QED
    BY <2>2
<1>7. DerivedFor(m4, k4)
  <2>1. "pool_max_size" \notin k3 /\ "pool_max_size" \in DerivedKeys
    BY DEF DerivedKeys
  <2> HIDE DEF m3, k3
  <2>2. DerivedFor(m3 \o when(has("max_connections"), "pool_max_size", "python"),
                  k3 \union only(has("max_connections"), "pool_max_size"))
    BY <1>3, <1>6, <2>1
  <2>3. QED
    BY <2>2
<1>8. DerivedFor(m5, k5)
  <2>1. "http1_only" \notin k4 /\ "http1_only" \in DerivedKeys
    BY DEF DerivedKeys
  <2> HIDE DEF m4, k4
  <2>2. DerivedFor(m4 \o when(~args.http2, "http1_only", "True"),
                  k4 \union only(~args.http2, "http1_only"))
    BY <1>3, <1>7, <2>1
  <2>3. QED
    BY <2>2
<1>9. DerivedFor(m6, k6)
  <2>1. "http2_only" \notin k5 /\ "http2_only" \in DerivedKeys
    BY DEF DerivedKeys
  <2> HIDE DEF m5, k5
  <2>2. DerivedFor(m5 \o when(args.http2 /\ ~args.http1, "http2_only", "True"),
                  k5 \union only(args.http2 /\ ~args.http1, "http2_only"))
    BY <1>3, <1>8, <2>1
  <2>3. QED
    BY <2>2
<1>10. DerivedFor(m7, k7)
  <2>1. "local_address" \notin k6 /\ "local_address" \in DerivedKeys
    BY DEF DerivedKeys
  <2> HIDE DEF m6, k6
  <2>2. DerivedFor(m6 \o when(has("local_address"), "local_address", "python"),
                  k6 \union only(has("local_address"), "local_address"))
    BY <1>3, <1>9, <2>1
  <2>3. QED
    BY <2>2
<1>11. DerivedFor(m8, k8)
  <2>1. "uds" \notin k7 /\ "uds" \in DerivedKeys
    BY DEF DerivedKeys
  <2> HIDE DEF m7, k7
  <2>2. DerivedFor(m7 \o when(has("uds"), "uds", "python"),
                  k7 \union only(has("uds"), "uds"))
    BY <1>3, <1>10, <2>1
  <2>3. QED
    BY <2>2
<1>12. DerivedFor(m9, k9)
  <2>1. "proxy" \notin k8 /\ "proxy" \in DerivedKeys
    BY DEF DerivedKeys
  <2> HIDE DEF m8, k8
  <2>2. DerivedFor(m8 \o when(has("proxy"), "proxy", "python"),
                  k8 \union only(has("proxy"), "proxy"))
    BY <1>3, <1>11, <2>1
  <2>3. QED
    BY <2>2
<1>13. /\ k9 \subseteq DerivedKeys
       /\ "http1_only" \in k9 => ~args.http2
       /\ "http2_only" \in k9 => args.http2
  BY DEF DerivedKeys
<1> HIDE DEF k9, m9
<1>14. Options!Keys(m9) \subseteq k9
  BY <1>12 DEF DerivedFor, Options!Keys
<1>15. DerivedFor(m9, DerivedKeys)
  BY <1>12, <1>13 DEF DerivedFor
<1>16. QED
  BY <1>1, <1>13, <1>14, <1>15

-----------------------------------------------------------------------------
(* The options of a client.                                                 *)

\* An option that Python gives.
PlainOption(o) ==
    o.key \in DerivedKeys \union {"connect_timeout", "read_timeout"} /\ o.value \in {"python", "True"}

\* What Python derives is valid, and never writes what an emulation writes.
LEMMA PlainIsValid ==
    ASSUME NEW o, PlainOption(o)
    PROVE  /\ o.key \in DerivedKeys \union {"connect_timeout"} => ValidIn(o, Options!ClientKeys, FALSE)
           /\ o.key = "read_timeout" => ValidIn(o, Options!RequestKeys, TRUE)
           /\ \A s : Options!Writes(o, s) => s \notin EmulatedSettings
<1>1. o.key \in DerivedKeys \union {"connect_timeout"} => o.key \in Options!ClientKeys
  BY DEF DerivedKeys, Options!ClientKeys
<1>2. o.key = "read_timeout" => o.key \in Options!RequestKeys
  BY DEF Options!RequestKeys
<1>3. o.key # "emulation" /\ o.value # "bad" /\ o.key \notin Options!Protocols
  BY DEF PlainOption, DerivedKeys, Options!Protocols
<1>4. Options!Setting(o.key) \notin EmulatedSettings
  BY DEF PlainOption, DerivedKeys, EmulatedSettings, Options!Protocols, Options!Setting
<1>5. QED
  BY <1>1, <1>2, <1>3, <1>4 DEF ValidIn, Options!Writes

\* The value under a key.
LEMMA ValueFound ==
    ASSUME NEW m, DistinctKeys(m), NEW i \in DOMAIN m
    PROVE  Options!ValueOf(m, m[i].key) = m[i].value
BY DEF DistinctKeys, Options!ValueOf

\* The mapping of the client, with its connect timeout.
LEMMA TimeoutAdded ==
    ASSUME NEW args, NEW mapping \in ClientMappings
    PROVE  LET timed == Options!WithConnectTimeout(args, mapping) IN
           /\ mapping \in Seq(OptionSet) /\ DistinctKeys(mapping)
           /\ timed \in Seq(OptionSet) /\ DistinctKeys(timed)
           /\ \A i \in DOMAIN mapping : i \in DOMAIN timed /\ timed[i] = mapping[i]
           /\ \A i \in DOMAIN timed : i \notin DOMAIN mapping =>
                 /\ timed[i].key = "connect_timeout" /\ timed[i].value = "python"
                 /\ \A j \in DOMAIN mapping : mapping[j].key # "connect_timeout"
<1> DEFINE o == Options!Option("connect_timeout", "python")
           timed == Options!WithConnectTimeout(args, mapping)
           u == Append(mapping, o)
           n == Len(mapping)
<1>1. mapping \in Seq(OptionSet) /\ DistinctKeys(mapping) /\ DOMAIN mapping = 1 .. n /\ n \in Nat
  BY OptionsTyped DEF OptionDicts
<1>2. o \in OptionSet /\ o.key = "connect_timeout" /\ o.value = "python"
  <2>1. o \in OptionSet
    BY DEF OptionSet
  <2>2. QED
    BY <2>1 DEF Options!Option
<1>3. CASE timed = mapping
  BY <1>1, <1>3
<1>4. CASE timed # mapping
  <2>1. timed = u /\ \A j \in DOMAIN mapping : mapping[j].key # "connect_timeout"
    BY <1>4 DEF Options!WithConnectTimeout, Options!Keys
  <2> HIDE DEF o
  <2>2. /\ u \in Seq(OptionSet) /\ DOMAIN u = 1 .. n + 1
        /\ u[n + 1] = o /\ \A i \in 1 .. n : u[i] = mapping[i]
    BY <1>1, <1>2, AppendProperties
  <2> HIDE DEF u, n, timed
  <2>3. \A i, j \in 1 .. n : mapping[i].key = mapping[j].key => i = j
    BY <1>1 DEF DistinctKeys
  <2>4. \A i \in 1 .. n : u[i].key # o.key
    BY <1>1, <1>2, <2>1, <2>2
  <2>5. \A i, j \in 1 .. n + 1 : u[i].key = u[j].key => i = j
    BY <1>1, <2>2, <2>3, <2>4
  <2>6. DistinctKeys(u)
    BY <2>2, <2>5 DEF DistinctKeys
  <2>7. \A i \in 1 .. n + 1 : i \notin 1 .. n => i = n + 1
    BY <1>1
  <2>8. QED
    BY <1>1, <1>2, <2>1, <2>2, <2>6, <2>7 DEF timed
<1>5. QED
  BY <1>3, <1>4

\* Two keys that Python derives are of two settings.
LEMMA DerivedSettings ==
    ASSUME NEW args, NEW key \in Options!Keys(Options!Derived(args)),
           NEW other \in Options!Keys(Options!Derived(args)), Options!Setting(key) = Options!Setting(other)
    PROVE  key = other
<1>1. key \in DerivedKeys /\ other \in DerivedKeys
  BY DerivedOptions DEF DerivedFor, Options!Keys
<1>2. ~(key = "http1_only" /\ other = "http2_only") /\ ~(key = "http2_only" /\ other = "http1_only")
  BY DerivedOptions
<1>3. \A k \in DerivedKeys : Options!Setting(k) = IF k \in {"http1_only", "http2_only"} THEN "version" ELSE k
  BY DEF DerivedKeys, Options!Setting
<1>4. "version" \notin DerivedKeys
  BY DEF DerivedKeys
<1>5. QED
  BY <1>1, <1>2, <1>3, <1>4

\* The emulation of a client comes first.
LEMMA EmulationFirst ==
    ASSUME NEW m \in Seq(OptionSet), DistinctKeys(m)
    PROVE  LET start == Options!EmulatedFirst(m)
               emulated == IF "emulation" \in Options!Keys(m)
                           THEN Options!Emulation(Options!ValueOf(m, "emulation")).settings ELSE <<>> IN
           /\ ResultTyped(start)
           /\ start.ok <=> \A i \in DOMAIN m : m[i].key = "emulation" => Options!Emulation(m[i].value).ok
           /\ start.ok => /\ \A s \in DOMAIN emulated : s \in EmulatedSettings
                          /\ \A s \in DOMAIN emulated : s \in DOMAIN start.settings /\ start.settings[s] = emulated[s]
<1> DEFINE start == Options!EmulatedFirst(m)
<1>1. /\ Options!Fresh.ok = TRUE /\ Options!Fresh.settings = <<>> /\ Options!Fresh.proxies = <<>>
      /\ Options!Failed.ok = FALSE /\ Options!Failed.proxies = <<>>
  BY DEF Options!Fresh, Options!Failed
<1>2. <<>> \in Seq(ProxySet) /\ DOMAIN <<>> = {}
  OBVIOUS
<1>3. CASE "emulation" \notin Options!Keys(m)
  <2>1. start = Options!Fresh
    BY <1>3 DEF Options!EmulatedFirst
  <2>2. \A i \in DOMAIN m : m[i].key # "emulation"
    BY <1>3 DEF Options!Keys
  <2> HIDE DEF start
  <2>3. QED
    BY <1>1, <1>2, <1>3, <2>1, <2>2 DEF ResultTyped, start
<1>4. CASE "emulation" \in Options!Keys(m)
  <2>1. PICK p \in DOMAIN m : m[p].key = "emulation"
    BY <1>4 DEF Options!Keys
  <2> DEFINE v == Options!ValueOf(m, "emulation")
             em == Options!Emulation(v)
  <2>2. v = m[p].value /\ m[p] \in OptionSet
    BY <2>1, ValueFound
  <2>3. \A i \in DOMAIN m : m[i].key = "emulation" => i = p
    BY <2>1 DEF DistinctKeys
  <2>4. start = Options!ApplyEmulation(Options!Fresh, v)
    BY <1>4 DEF Options!EmulatedFirst
  <2>5. CASE em.ok
    <3>1. start = [ok |-> Options!Fresh.ok, settings |-> Options!With(Options!Fresh.settings, em.settings),
                   proxies |-> Options!Fresh.proxies]
      BY <2>4, <2>5 DEF Options!ApplyEmulation
    <3>2. start.ok = TRUE /\ start.proxies = <<>> /\ start.settings = Options!With(<<>>, em.settings)
      BY <1>1, <3>1
    <3>3. DOMAIN em.settings \subseteq EmulatedSettings
      BY <2>1, <2>2, <2>5, EmulationGives
    <3>4. \A s \in DOMAIN em.settings : s \in DOMAIN start.settings /\ start.settings[s] = em.settings[s]
      <4> DEFINE d == em.settings
                 f == <<>>
      <4> HIDE DEF d, f
      <4> DEFINE w == Options!With(f, d)
      <4>1. /\ DOMAIN w = DOMAIN f \union DOMAIN d
            /\ \A s \in DOMAIN f \union DOMAIN d : w[s] = IF s \in DOMAIN d THEN d[s] ELSE f[s]
        BY WithDoes, Zenon
      <4>2. start.settings = w
        BY <3>2 DEF d, f
      <4> HIDE DEF w
      <4>3. \A s \in DOMAIN d : s \in DOMAIN start.settings /\ start.settings[s] = d[s]
        BY <4>1, <4>2
      <4>4. QED
        BY <4>3 DEF d
    <3>5. \A i \in DOMAIN m : m[i].key = "emulation" => Options!Emulation(m[i].value).ok
      BY <2>2, <2>3, <2>5
    <3> HIDE DEF start, em
    <3>6. QED
      BY <1>2, <1>4, <3>2, <3>3, <3>4, <3>5 DEF ResultTyped, start, em
  <2>6. CASE ~em.ok
    <3>1. start = Options!Failed
      BY <2>4, <2>6 DEF Options!ApplyEmulation
    <3>2. start.ok = FALSE /\ start.proxies = <<>>
      BY <1>1, <3>1
    <3>3. ~Options!Emulation(m[p].value).ok
      BY <2>2, <2>6
    <3> HIDE DEF start, em
    <3>4. QED
      BY <1>2, <2>1, <3>2, <3>3 DEF ResultTyped, start
  <2>7. QED
    BY <2>5, <2>6
<1>5. QED
  BY <1>3, <1>4

\* The options of a client: each of its mapping, behind or in the place of those
\* that Python derives.
ClientDictOf(d, old, mapping) ==
    /\ d \in Seq(OptionSet) /\ DistinctKeys(d)
    /\ \A i \in DOMAIN mapping : \E k \in DOMAIN d : d[k] = mapping[i]
    /\ \A k \in DOMAIN d :
          \/ \E i \in DOMAIN mapping : d[k] = mapping[i]
          \/ /\ PlainOption(d[k]) /\ d[k].key # "read_timeout"
             /\ \/ k <= Len(old) /\ d[k].key \in Options!Keys(old)
                \/ d[k].key = "connect_timeout" /\ \A j \in DOMAIN mapping : mapping[j].key # "connect_timeout"
    /\ \A k \in DOMAIN d : k <= Len(old) => d[k].key \in Options!Keys(old)
    /\ \A k, l \in DOMAIN d : \A i, j \in DOMAIN mapping :
          Len(old) < k /\ k <= l /\ d[k] = mapping[i] /\ d[l] = mapping[j] => i <= j

\* Those are the options of a client.
LEMMA ClientDictIs ==
    ASSUME NEW args, NEW mapping \in ClientMappings
    PROVE  /\ ClientDictOf(Options!ClientDict(args, mapping), Options!Derived(args), mapping)
           /\ mapping \in Seq(OptionSet) /\ DistinctKeys(mapping)
<1> DEFINE old == Options!Derived(args)
           new == Options!WithConnectTimeout(args, mapping)
           d == Options!ClientDict(args, mapping)
<1>1. DerivedFor(old, DerivedKeys)
  BY DerivedOptions
<1>2. /\ mapping \in Seq(OptionSet) /\ DistinctKeys(mapping)
      /\ new \in Seq(OptionSet) /\ DistinctKeys(new)
      /\ \A i \in DOMAIN mapping : i \in DOMAIN new /\ new[i] = mapping[i]
      /\ \A i \in DOMAIN new : i \notin DOMAIN mapping =>
            /\ new[i].key = "connect_timeout" /\ new[i].value = "python"
            /\ \A j \in DOMAIN mapping : mapping[j].key # "connect_timeout"
  BY TimeoutAdded
<1>3. d = Options!Update(old, new)
  BY DEF Options!ClientDict
<1>4. UpdatedInOrder(d, old, new)
  BY <1>1, <1>2, <1>3, DictUpdated DEF DerivedFor
<1>5. old \in Seq(OptionSet) /\ DOMAIN old = 1 .. Len(old) /\ Len(old) \in Nat
  BY <1>1 DEF DerivedFor
<1> HIDE DEF d, new, old
<1>6. d \in Seq(OptionSet) /\ DistinctKeys(d) /\ DOMAIN d = 1 .. Len(d) /\ Len(d) \in Nat
  BY <1>4 DEF UpdatedInOrder
<1>7. \A i \in DOMAIN mapping : \E k \in DOMAIN d : d[k] = mapping[i]
  BY <1>2, <1>4 DEF UpdatedInOrder
<1>8. ASSUME NEW k \in DOMAIN d, k <= Len(old)
      PROVE  /\ k \in DOMAIN old /\ d[k].key = old[k].key /\ d[k].key \in Options!Keys(old)
             /\ d[k].key \in DerivedKeys
  <2>1. k \in DOMAIN old /\ d[k].key = old[k].key
    BY <1>4, <1>5, <1>6, <1>8 DEF UpdatedInOrder
  <2>2. QED
    BY <1>1, <2>1 DEF DerivedFor, Options!Keys
<1>9. ASSUME NEW k \in DOMAIN d
      PROVE  \/ \E i \in DOMAIN mapping : d[k] = mapping[i]
             \/ /\ PlainOption(d[k]) /\ d[k].key # "read_timeout"
                /\ \/ k <= Len(old) /\ d[k].key \in Options!Keys(old)
                   \/ d[k].key = "connect_timeout" /\ \A j \in DOMAIN mapping : mapping[j].key # "connect_timeout"
  <2>1. CASE \E i \in DOMAIN new : d[k] = new[i]
    <3>1. PICK i \in DOMAIN new : d[k] = new[i]
      BY <2>1
    <3>2. CASE i \in DOMAIN mapping
      BY <1>2, <3>1, <3>2
    <3>3. CASE i \notin DOMAIN mapping
      <4>1. /\ d[k].key = "connect_timeout" /\ d[k].value = "python"
            /\ \A j \in DOMAIN mapping : mapping[j].key # "connect_timeout"
        BY <1>2, <3>1, <3>3
      <4>2. PlainOption(d[k]) /\ d[k].key # "read_timeout"
        BY <4>1 DEF PlainOption
      <4>3. QED
        BY <4>1, <4>2
    <3>4. QED
      BY <3>2, <3>3
  <2>2. CASE k <= Len(old) /\ d[k] = old[k]
    <3>1. k \in DOMAIN old /\ d[k].key \in Options!Keys(old) /\ d[k].key \in DerivedKeys
      BY <1>8, <2>2
    <3>2. d[k].value \in {"python", "True"}
      BY <1>1, <2>2, <3>1 DEF DerivedFor
    <3>3. PlainOption(d[k])
      BY <3>1, <3>2 DEF PlainOption
    <3>4. d[k].key # "read_timeout"
      BY <3>1 DEF DerivedKeys
    <3>5. QED
      BY <2>2, <3>1, <3>3, <3>4
  <2>3. QED
    BY <1>4, <1>5, <1>6, <2>1, <2>2 DEF UpdatedInOrder
<1>10. ASSUME NEW k \in DOMAIN d, NEW l \in DOMAIN d, NEW i \in DOMAIN mapping, NEW j \in DOMAIN mapping,
              Len(old) < k, k <= l, d[k] = mapping[i], d[l] = mapping[j]
       PROVE  i <= j
  <2>1. i \in DOMAIN new /\ j \in DOMAIN new /\ d[k] = new[i] /\ d[l] = new[j]
    BY <1>2, <1>10
  <2>2. QED
    BY <1>4, <1>10, <2>1 DEF UpdatedInOrder
<1>11. ClientDictOf(d, old, mapping)
  BY <1>6, <1>7, <1>8, <1>9, <1>10 DEF ClientDictOf
<1>12. QED
  BY <1>2, <1>11 DEF d, old

\* A client has the options of its mapping in their order.
LEMMA ClientMade ==
    ASSUME NEW args, NEW mapping \in ClientMappings, NEW client,
           LET r == IF Options!Acceptable(args) THEN Options!ClientOptions(Options!ClientDict(args, mapping))
                    ELSE Options!Failed
           IN  client.ok = r.ok /\ client.settings = r.settings /\ client.proxies = r.proxies
    PROVE  Options!MadeInOrder(client, args, mapping)
<1> DEFINE old == Options!Derived(args)
           d == Options!ClientDict(args, mapping)
           start == Options!EmulatedFirst(d)
           q == Options!Apply(start, d, Options!ClientKeys, FALSE)
           derived == Options!Keys(old)
           emulated == IF "emulation" \in Options!Keys(mapping)
                       THEN Options!Emulation(Options!ValueOf(mapping, "emulation")).settings ELSE <<>>
           emulatedOfAll == IF "emulation" \in Options!Keys(d)
                            THEN Options!Emulation(Options!ValueOf(d, "emulation")).settings ELSE <<>>
           valid == \A i \in DOMAIN mapping : Options!Valid(mapping[i], Options!ClientKeys)
<1>1. CASE ~Options!Acceptable(args)
  <2>1. ~client.ok
    BY <1>1 DEF Options!Failed
  <2>2. QED
    BY <1>1, <2>1 DEF Options!MadeInOrder
<1>2. CASE Options!Acceptable(args)
  <2>1. client.ok = q.ok /\ client.settings = q.settings /\ client.proxies = q.proxies
    BY <1>2 DEF Options!ClientOptions
  <2>2. ClientDictOf(d, old, mapping) /\ mapping \in Seq(OptionSet) /\ DistinctKeys(mapping)
    BY ClientDictIs
  <2>3. d \in Seq(OptionSet) /\ DistinctKeys(d)
    BY <2>2 DEF ClientDictOf
  <2>4. /\ ResultTyped(start)
        /\ start.ok <=> \A i \in DOMAIN d : d[i].key = "emulation" => Options!Emulation(d[i].value).ok
        /\ start.ok => /\ \A s \in DOMAIN emulatedOfAll : s \in EmulatedSettings
                       /\ \A s \in DOMAIN emulatedOfAll :
                             s \in DOMAIN start.settings /\ start.settings[s] = emulatedOfAll[s]
    BY <2>3, EmulationFirst
  <2>5. AppliedAs(q, start, d, Options!ClientKeys, FALSE)
    BY <2>3, <2>4, LastOptionCounts
  <2> HIDE DEF old, d, start, q
  <2>6. /\ DOMAIN d = 1 .. Len(d) /\ Len(d) \in Nat /\ DOMAIN mapping = 1 .. Len(mapping) /\ Len(mapping) \in Nat
        /\ \A k, l \in DOMAIN d : d[k].key = d[l].key => k = l
    BY <2>2, <2>3 DEF DistinctKeys
  <2>7. /\ \A i \in DOMAIN mapping : \E k \in DOMAIN d : d[k] = mapping[i]
        /\ \A k \in DOMAIN d :
              \/ \E i \in DOMAIN mapping : d[k] = mapping[i]
              \/ /\ PlainOption(d[k]) /\ d[k].key # "read_timeout"
                 /\ \/ k <= Len(old) /\ d[k].key \in derived
                    \/ d[k].key = "connect_timeout" /\ \A j \in DOMAIN mapping : mapping[j].key # "connect_timeout"
        /\ \A k \in DOMAIN d : k <= Len(old) => d[k].key \in derived
        /\ \A k, l \in DOMAIN d : \A i, j \in DOMAIN mapping :
              Len(old) < k /\ k <= l /\ d[k] = mapping[i] /\ d[l] = mapping[j] => i <= j
    BY <2>2 DEF ClientDictOf
  <2>8. \A k \in DOMAIN d : PlainOption(d[k]) /\ d[k].key # "read_timeout" =>
           ValidIn(d[k], Options!ClientKeys, FALSE) /\ d[k].key # "emulation"
    BY PlainIsValid DEF PlainOption, DerivedKeys
  <2>9. ASSUME NEW o \in OptionSet
        PROVE  Options!Valid(o, Options!ClientKeys)
               <=> ValidIn(o, Options!ClientKeys, FALSE) /\ (o.key = "emulation" => Options!Emulation(o.value).ok)
    <3>1. ~Options!Emulation("bad").ok
      BY DEF Options!Emulation, Options!Failed
    <3>2. "emulation" \notin Options!Protocols
      BY DEF Options!Protocols
    <3>3. QED
      BY <3>1, <3>2 DEF Options!Valid, ValidIn
  <2>10. q.ok <=> valid
    <3> DEFINE Fine(o) == ValidIn(o, Options!ClientKeys, FALSE)
                          /\ (o.key = "emulation" => Options!Emulation(o.value).ok)
    <3>1. q.ok <=> \A k \in DOMAIN d : Fine(d[k])
      BY <2>4, <2>5 DEF AppliedAs
    <3>2. valid <=> \A i \in DOMAIN mapping : Fine(mapping[i])
      <4>1. \A i \in DOMAIN mapping : mapping[i] \in OptionSet
        BY <2>2
      <4>2. \A o \in OptionSet : Options!Valid(o, Options!ClientKeys) <=> Fine(o)
        BY <2>9
      <4> HIDE DEF Fine
      <4>3. QED
        BY <4>1, <4>2
    <3>3. \A k \in DOMAIN d : Fine(d[k]) \/ \E i \in DOMAIN mapping : d[k] = mapping[i]
      BY <2>7, <2>8
    <3> HIDE DEF Fine, valid
    <3>4. QED
      BY <2>7, <3>1, <3>2, <3>3
  <2>11. ASSUME q.ok, NEW i \in DOMAIN mapping, NEW s \in DOMAIN q.settings, Options!Writes(mapping[i], s)
         PROVE  \E j \in DOMAIN mapping :
                   /\ Options!Writes(mapping[j], s) /\ q.settings[s] = Options!Written(mapping[j])
                   /\ j >= i \/ mapping[i].key \in derived
    <3>1. PICK p \in DOMAIN d : d[p] = mapping[i]
      BY <2>7
    <3>2. GivesIn(d[p], s, FALSE)
      BY <2>11, <3>1 DEF GivesIn
    <3>3. PICK k \in DOMAIN d : LastGiver(d, k, s, FALSE) /\ q.settings[s] = Options!Given(d[k], s)
      BY <2>5, <2>11, <3>2 DEF AppliedAs
    <3>4. Options!Writes(d[k], s) /\ p <= k
      BY <2>6, <3>2, <3>3 DEF LastGiver, GivesIn
    <3>5. q.settings[s] = Options!Written(d[k])
      BY <3>3, <3>4 DEF Options!Given, Options!Writes
    <3>6. Options!Setting(d[k].key) = s /\ Options!Setting(mapping[i].key) = s
      BY <2>11, <3>4 DEF Options!Writes
    <3>7. mapping[i].key \notin derived => Len(old) < p
      <4>1. Len(old) \in Nat
        <5>1. old \in Seq(OptionSet)
          BY DerivedOptions DEF DerivedFor, old
        <5>2. QED
          BY <5>1
      <4>2. QED
        BY <2>6, <2>7, <3>1, <4>1
    <3>8. Len(old) \in Nat
      <4>1. old \in Seq(OptionSet)
        BY DerivedOptions DEF DerivedFor, old
      <4>2. QED
        BY <4>1
    <3>9. CASE \E j \in DOMAIN mapping : d[k] = mapping[j]
      <4>1. PICK j \in DOMAIN mapping : d[k] = mapping[j]
        BY <3>9
      <4>2. mapping[i].key \notin derived => i <= j
        BY <2>7, <3>1, <3>4, <3>7, <4>1
      <4>3. mapping[i].key \notin derived => j >= i
        BY <2>6, <4>2
      <4>4. QED
        BY <3>4, <3>5, <4>1, <4>3
    <3>10. CASE k <= Len(old) /\ d[k].key \in derived
      <4>1. mapping[i].key \in derived
        BY <2>6, <3>4, <3>7, <3>8, <3>10
      <4>2. d[k].key = mapping[i].key
        BY <3>6, <3>10, <4>1, DerivedSettings DEF old
      <4>3. d[k] = mapping[i]
        BY <2>6, <3>1, <4>2
      <4>4. QED
        BY <3>4, <3>5, <4>1, <4>3
    <3>11. CASE d[k].key = "connect_timeout" /\ \A j \in DOMAIN mapping : mapping[j].key # "connect_timeout"
      <4>1. s = "connect_timeout"
        BY <3>6, <3>11 DEF Options!Setting
      <4>2. mapping[i].key = "connect_timeout"
        BY <3>6, <4>1 DEF Options!Setting
      <4>3. QED
        BY <3>11, <4>2
    <3>12. QED
      BY <2>7, <3>9, <3>10, <3>11
  <2>12. ASSUME q.ok, NEW i \in DOMAIN mapping
         PROVE  \/ mapping[i].key \in derived
                \/ \E j \in i .. Len(mapping) : mapping[j] = Options!Option("no_proxy", "True")
                \/ Options!Rules(mapping[i]) \subseteq Options!Range(q.proxies)
    <3>1. PICK p \in DOMAIN d : d[p] = mapping[i]
      BY <2>7
    <3>2. SUFFICES ASSUME mapping[i].key \notin derived,
                          NEW l \in DOMAIN d, l >= p, Forgets(d[l])
                   PROVE  \E j \in i .. Len(mapping) : mapping[j] = Options!Option("no_proxy", "True")
      BY <2>5, <2>12, <3>1 DEF AppliedAs
    <3>3. Len(old) \in Nat
      <4>1. old \in Seq(OptionSet)
        BY DerivedOptions DEF DerivedFor, old
      <4>2. QED
        BY <4>1
    <3>4. Len(old) < p /\ p <= l
      BY <2>6, <2>7, <3>1, <3>2, <3>3
    <3>5. d[l].key = "no_proxy" /\ d[l].value = "True"
      BY <3>2 DEF Forgets
    <3>6. ~PlainOption(d[l])
      BY <3>5 DEF PlainOption, DerivedKeys
    <3>7. PICK j \in DOMAIN mapping : d[l] = mapping[j]
      BY <2>7, <3>6
    <3>8. i <= j
      BY <2>7, <3>1, <3>4, <3>7
    <3>9. mapping[j] \in OptionSet
      BY <2>2
    <3>10. mapping[j] = Options!Option("no_proxy", "True")
      BY <3>5, <3>7, <3>9, OptionsTyped
    <3>11. j \in i .. Len(mapping)
      BY <2>6, <3>8
    <3>12. QED
      BY <3>10, <3>11
  <2>13. emulatedOfAll = emulated
    <3>1. CASE \E i \in DOMAIN mapping : mapping[i].key = "emulation"
      <4>1. PICK i \in DOMAIN mapping : mapping[i].key = "emulation"
        BY <3>1
      <4>2. PICK k \in DOMAIN d : d[k] = mapping[i]
        BY <2>7
      <4>3. Options!ValueOf(mapping, "emulation") = mapping[i].value
        BY <2>2, <4>1, ValueFound
      <4>4. Options!ValueOf(d, "emulation") = d[k].value
        BY <2>3, <4>1, <4>2, ValueFound
      <4>5. "emulation" \in Options!Keys(d) /\ "emulation" \in Options!Keys(mapping)
        BY <4>1, <4>2 DEF Options!Keys
      <4>6. QED
        BY <4>2, <4>3, <4>4, <4>5
    <3>2. CASE \A i \in DOMAIN mapping : mapping[i].key # "emulation"
      <4>1. \A k \in DOMAIN d : d[k].key # "emulation"
        BY <2>7, <2>8, <3>2
      <4>2. "emulation" \notin Options!Keys(d) /\ "emulation" \notin Options!Keys(mapping)
        BY <3>2, <4>1 DEF Options!Keys
      <4>3. QED
        BY <4>2
    <3>3. QED
      BY <3>1, <3>2
  <2>14. ASSUME q.ok, NEW s \in DOMAIN emulated
         PROVE  q.settings[s] = emulated[s] \/ \E i \in DOMAIN mapping : Options!Writes(mapping[i], s)
    <3> HIDE DEF emulated, emulatedOfAll
    <3>1. start.ok
      BY <2>5, <2>14 DEF AppliedAs
    <3>2. s \in EmulatedSettings /\ s \in DOMAIN start.settings /\ start.settings[s] = emulated[s]
      BY <2>4, <2>13, <2>14, <3>1
    <3>3. s \in DOMAIN q.settings
      BY <2>5, <2>14, <3>2 DEF AppliedAs
    <3>4. CASE \E k \in DOMAIN d : LastGiver(d, k, s, FALSE)
      <4>1. PICK k \in DOMAIN d : LastGiver(d, k, s, FALSE)
        BY <3>4
      <4>2. Options!Writes(d[k], s)
        BY <4>1 DEF LastGiver, GivesIn
      <4>3. ~PlainOption(d[k])
        BY <3>2, <4>2, PlainIsValid
      <4>4. QED
        BY <2>7, <4>2, <4>3
    <3>5. CASE q.settings[s] = start.settings[s]
      BY <3>2, <3>5
    <3>6. QED
      BY <2>5, <2>14, <3>3, <3>4, <3>5 DEF AppliedAs
  <2> HIDE DEF emulated, valid
  <2>15. QED
    <3>1. client.ok <=> Options!Acceptable(args) /\ valid
      BY <1>2, <2>1, <2>10
    <3>2. ASSUME client.ok, NEW i \in DOMAIN mapping
          PROVE  /\ \A s \in DOMAIN client.settings : Options!Writes(mapping[i], s) =>
                       \E j \in DOMAIN mapping :
                          /\ Options!Writes(mapping[j], s) /\ client.settings[s] = Options!Written(mapping[j])
                          /\ j >= i \/ mapping[i].key \in derived
                 /\ mapping[i].key \in derived
                    \/ (\E j \in i .. Len(mapping) : mapping[j] = Options!Option("no_proxy", "True"))
                    \/ Options!Rules(mapping[i]) \subseteq Options!Range(client.proxies)
      BY <2>1, <2>11, <2>12, <3>2
    <3>3. ASSUME client.ok, NEW s \in DOMAIN emulated
          PROVE  client.settings[s] = emulated[s] \/ \E i \in DOMAIN mapping : Options!Writes(mapping[i], s)
      BY <2>1, <2>14, <3>3
    <3>4. QED
      BY <3>1, <3>2, <3>3, Zenon DEF Options!MadeInOrder, emulated, valid, derived, old
<1>3. QED
  BY <1>1, <1>2

-----------------------------------------------------------------------------
(* The options of a request.                                                *)

\* So does a valid one among the options of a request.
LEMMA EmulationAlone ==
    ASSUME NEW o \in OptionSet, o.key = "emulation", ValidIn(o, Options!RequestKeys, TRUE)
    PROVE  DOMAIN Options!Emulation(o.value).settings \subseteq EmulatedSettings
BY EmulationGives DEF ValidIn

\* The options of a request: those of its mapping, behind the read timeout unless
\* they have one.
RequestDictOf(d, a, mapping) ==
    /\ a \in {0, 1} /\ d \in Seq(OptionSet) /\ DistinctKeys(d)
    /\ \A i \in DOMAIN mapping : \E k \in DOMAIN d : d[k] = mapping[i]
    /\ \A k \in DOMAIN d : k <= a => d[k].key = "read_timeout"
    /\ \A k \in DOMAIN d : (\E i \in DOMAIN mapping : d[k] = mapping[i]) \/ (k <= a /\ PlainOption(d[k]))
    /\ \A k, l \in DOMAIN d : \A i, j \in DOMAIN mapping :
          a < k /\ k <= l /\ d[k] = mapping[i] /\ d[l] = mapping[j] => i <= j

\* Those are the options of a request.
LEMMA RequestDictIs ==
    ASSUME NEW readTimeout \in BOOLEAN, NEW mapping \in RequestMappings
    PROVE  /\ RequestDictOf(Options!RequestDict(readTimeout, mapping), IF readTimeout THEN 1 ELSE 0, mapping)
           /\ mapping \in Seq(OptionSet) /\ DistinctKeys(mapping)
<1> DEFINE o == Options!Option("read_timeout", "python")
           old == IF readTimeout THEN <<o>> ELSE <<>>
           a == IF readTimeout THEN 1 ELSE 0
           d == Options!RequestDict(readTimeout, mapping)
<1>1. mapping \in Seq(OptionSet) /\ DistinctKeys(mapping)
  BY OptionsTyped DEF OptionDicts
<1>2. o \in OptionSet /\ o.key = "read_timeout" /\ o.value = "python"
  <2>1. o \in OptionSet
    BY DEF OptionSet
  <2>2. QED
    BY <2>1 DEF Options!Option
<1>3. d = Options!Update(old, mapping)
  BY DEF Options!RequestDict
<1> HIDE DEF o, d
<1>4. /\ old \in Seq(OptionSet) /\ Len(old) = a /\ a \in {0, 1} /\ DOMAIN old = 1 .. a
      /\ \A k \in DOMAIN old : old[k] = o
  <2>1. CASE readTimeout
    BY <1>2, <2>1
  <2>2. CASE ~readTimeout
    BY <2>2
  <2>3. QED
    BY <2>1, <2>2
<1> HIDE DEF old, a
<1>5. DistinctKeys(old)
  BY <1>4 DEF DistinctKeys
<1>6. UpdatedInOrder(d, old, mapping)
  BY <1>1, <1>3, <1>4, <1>5, DictUpdated
<1>7. d \in Seq(OptionSet) /\ DistinctKeys(d) /\ DOMAIN d = 1 .. Len(d) /\ Len(d) \in Nat
  BY <1>6 DEF UpdatedInOrder
<1>8. \A k \in DOMAIN d : k <= a => k \in DOMAIN old
  BY <1>4, <1>7
<1>9. \A k \in DOMAIN d : k <= a => d[k].key = "read_timeout"
  BY <1>2, <1>4, <1>6, <1>8 DEF UpdatedInOrder
<1>10. ASSUME NEW k \in DOMAIN d
       PROVE  (\E i \in DOMAIN mapping : d[k] = mapping[i]) \/ (k <= a /\ PlainOption(d[k]))
  <2>1. CASE k > a
    BY <1>4, <1>6, <2>1 DEF UpdatedInOrder
  <2>2. CASE k <= a
    <3>1. d[k] = o \/ \E i \in DOMAIN mapping : d[k] = mapping[i]
      BY <1>4, <1>6, <1>8, <2>2 DEF UpdatedInOrder
    <3>2. PlainOption(o)
      BY <1>2 DEF PlainOption
    <3>3. QED
      BY <2>2, <3>1, <3>2
  <2>3. QED
    BY <1>4, <1>7, <2>1, <2>2
<1>11. RequestDictOf(d, a, mapping)
  BY <1>4, <1>6, <1>7, <1>9, <1>10 DEF RequestDictOf, UpdatedInOrder
<1>12. QED
  BY <1>1, <1>11 DEF d, a

\* A request has the options of its mapping in their order, its emulation in its
\* place.
LEMMA RequestSent ==
    ASSUME NEW readTimeout \in BOOLEAN, NEW mapping \in RequestMappings, NEW result, NEW ordered,
           LET dict == Options!RequestDict(readTimeout, mapping)
               r == Options!RequestOptions(dict)
               order == IF ordered \/ Options!Keys(dict) \intersect Options!OrderKeys # {} THEN <<>>
                        ELSE Options!Only("orig_headers", Options!Only("orig_headers", "python"))
           IN  result.ok = r.ok /\ result.settings = Options!With(r.settings, order)
    PROVE  Options!SentInOrder(result, mapping)
<1> DEFINE d == Options!RequestDict(readTimeout, mapping)
           a == IF readTimeout THEN 1 ELSE 0
           q == Options!Apply(Options!Fresh, d, Options!RequestKeys, TRUE)
           order == IF ordered \/ Options!Keys(d) \intersect Options!OrderKeys # {} THEN <<>>
                    ELSE Options!Only("orig_headers", Options!Only("orig_headers", "python"))
           valid == \A i \in DOMAIN mapping : Options!Valid(mapping[i], Options!RequestKeys)
<1>1. result.ok = q.ok /\ result.settings = Options!With(q.settings, order)
  BY DEF Options!RequestOptions
<1>2. RequestDictOf(d, a, mapping) /\ mapping \in Seq(OptionSet) /\ DistinctKeys(mapping)
  BY RequestDictIs
<1>3. d \in Seq(OptionSet) /\ DistinctKeys(d)
  BY <1>2 DEF RequestDictOf
<1>4. /\ Options!Fresh.ok = TRUE /\ DOMAIN Options!Fresh.settings = {} /\ ResultTyped(Options!Fresh)
  BY EmptySeq DEF Options!Fresh, ResultTyped
<1>5. AppliedAs(q, Options!Fresh, d, Options!RequestKeys, TRUE)
  BY <1>3, <1>4, LastOptionCounts
<1>6. /\ order = <<>> \/ \A k \in DOMAIN d : d[k].key \notin {"emulation", "orig_headers"}
      /\ DOMAIN order \subseteq {"orig_headers"}
  <2>1. CASE order = <<>>
    <3>1. DOMAIN <<>> = {}
      OBVIOUS
    <3>2. QED
      BY <2>1, <3>1
  <2>2. CASE order # <<>>
    <3>1. /\ order = Options!Only("orig_headers", Options!Only("orig_headers", "python"))
          /\ Options!Keys(d) \intersect Options!OrderKeys = {}
      BY <2>2
    <3>2. DOMAIN order = {"orig_headers"}
      BY <3>1 DEF Options!Only
    <3>3. \A k \in DOMAIN d : d[k].key \notin {"emulation", "orig_headers"}
      BY <3>1 DEF Options!Keys, Options!OrderKeys
    <3>4. QED
      BY <3>2, <3>3
  <2>3. QED
    BY <2>1, <2>2
<1> HIDE DEF d, a, q, order
<1>7. /\ DOMAIN d = 1 .. Len(d) /\ Len(d) \in Nat /\ DOMAIN mapping = 1 .. Len(mapping) /\ Len(mapping) \in Nat
      /\ \A k, l \in DOMAIN d : d[k].key = d[l].key => k = l
      /\ \A i \in DOMAIN mapping : mapping[i] \in OptionSet
      /\ \A k \in DOMAIN d : d[k] \in OptionSet
  BY <1>2, <1>3 DEF DistinctKeys
<1>8. /\ a \in {0, 1}
      /\ \A i \in DOMAIN mapping : \E k \in DOMAIN d : d[k] = mapping[i]
      /\ \A k \in DOMAIN d : k <= a => d[k].key = "read_timeout"
      /\ \A k \in DOMAIN d : (\E i \in DOMAIN mapping : d[k] = mapping[i]) \/ (k <= a /\ PlainOption(d[k]))
      /\ \A k, l \in DOMAIN d : \A i, j \in DOMAIN mapping :
            a < k /\ k <= l /\ d[k] = mapping[i] /\ d[l] = mapping[j] => i <= j
  BY <1>2 DEF RequestDictOf
<1>9. /\ a \in Nat /\ DOMAIN d \subseteq Nat
       /\ \A k \in DOMAIN d : k <= a => d[k].key = "read_timeout"
  BY <1>7, <1>8
<1>10. \A k \in DOMAIN d : k <= a \/ \E i \in DOMAIN mapping : d[k] = mapping[i]
  <2>1. \A k \in DOMAIN d : (\E i \in DOMAIN mapping : d[k] = mapping[i]) \/ (k <= a /\ PlainOption(d[k]))
    BY <1>8
  <2>2. QED
    BY <2>1, Zenon
<1>11. \A k, l \in DOMAIN d : \A i, j \in DOMAIN mapping :
          a < k /\ k <= l /\ d[k] = mapping[i] /\ d[l] = mapping[j] => i <= j
  BY <1>8
<1>12. \A o \in OptionSet : Options!Valid(o, Options!RequestKeys) <=> ValidIn(o, Options!RequestKeys, TRUE)
  <2>1. ~Options!Emulation("bad").ok
    BY DEF Options!Emulation, Options!Failed
  <2>2. "emulation" \notin Options!Protocols
    BY DEF Options!Protocols
  <2>3. QED
    BY <2>1, <2>2 DEF Options!Valid, ValidIn
<1>13. \A o, s : Options!Gives(o, s) <=> GivesIn(o, s, TRUE)
  BY DEF Options!Gives, GivesIn
<1>14. q.ok <=> valid
  <2> DEFINE Fine(o) == ValidIn(o, Options!RequestKeys, TRUE)
  <2>1. q.ok <=> \A k \in DOMAIN d : Fine(d[k])
    BY <1>4, <1>5 DEF AppliedAs
  <2>2. \A o \in OptionSet : Options!Valid(o, Options!RequestKeys) <=> Fine(o)
    BY <1>12
  <2>3. \A k \in DOMAIN d : Fine(d[k]) \/ \E i \in DOMAIN mapping : d[k] = mapping[i]
    BY <1>8, PlainIsValid
  <2> HIDE DEF Fine
  <2>4. valid <=> \A i \in DOMAIN mapping : Fine(mapping[i])
    BY <1>7, <2>2
  <2> HIDE DEF valid
  <2>5. QED
    BY <1>8, <2>1, <2>3, <2>4
<1>15. ASSUME q.ok, NEW s \in DOMAIN q.settings, NEW i \in DOMAIN mapping, GivesIn(mapping[i], s, TRUE)
       PROVE  \E j \in DOMAIN mapping :
                 /\ GivesIn(mapping[j], s, TRUE) /\ q.settings[s] = Options!Given(mapping[j], s)
                 /\ \A l \in j + 1 .. Len(mapping) : ~GivesIn(mapping[l], s, TRUE)
  <2>1. PICK p \in DOMAIN d : d[p] = mapping[i]
    BY <1>8
  <2>2. PICK k \in DOMAIN d : LastGiver(d, k, s, TRUE) /\ q.settings[s] = Options!Given(d[k], s)
    BY <1>5, <1>15, <2>1 DEF AppliedAs
  <2>3. GivesIn(d[k], s, TRUE) /\ p <= k /\ \A l \in DOMAIN d : l > k => ~GivesIn(d[l], s, TRUE)
    <3>1. GivesIn(d[k], s, TRUE) /\ \A l \in DOMAIN d : l > k => ~GivesIn(d[l], s, TRUE)
      BY <2>2 DEF LastGiver
    <3>2. GivesIn(d[p], s, TRUE)
      BY <1>15, <2>1
    <3>3. ~(p > k)
      BY <3>1, <3>2
    <3>4. p \in 1 .. Len(d) /\ k \in 1 .. Len(d) /\ Len(d) \in Nat
      BY <1>7
    <3>5. p <= k
      BY <3>3, <3>4
    <3>6. QED
      BY <3>1, <3>5
  <2>4. \A o \in OptionSet : o.key = "read_timeout" /\ GivesIn(o, s, TRUE) => s = "read_timeout"
    BY DEF GivesIn, Options!Writes, Options!Setting
  <2>5. ASSUME NEW l \in DOMAIN d, GivesIn(d[l], "read_timeout", TRUE) PROVE d[l].key = "read_timeout"
    <3>1. CASE Options!Writes(d[l], "read_timeout")
      BY <3>1 DEF Options!Writes, Options!Setting
    <3>2. CASE d[l].key = "emulation" /\ "read_timeout" \in DOMAIN Options!Emulation(d[l].value).settings
      <4>1. ValidIn(d[l], Options!RequestKeys, TRUE)
        BY <1>5, <1>15 DEF AppliedAs
      <4>2. "read_timeout" \in EmulatedSettings
        BY <1>7, <3>2, <4>1, EmulationAlone
      <4>3. QED
        BY <4>2 DEF EmulatedSettings, Options!Protocols
    <3>3. QED
      BY <2>5, <3>1, <3>2 DEF GivesIn
  <2>6. CASE d[k].key = "read_timeout"
    <3>1. s = "read_timeout"
      BY <1>7, <2>3, <2>4, <2>6, Zenon
    <3>2. d[p].key = "read_timeout"
      BY <1>15, <2>1, <2>5, <3>1
    <3>3. k = p
      BY <1>7, <2>6, <3>2
    <3>4. ASSUME NEW l \in i + 1 .. Len(mapping), GivesIn(mapping[l], s, TRUE) PROVE FALSE
      <4>1. l \in DOMAIN mapping /\ l # i
        BY <1>7, <3>4
      <4>2. PICK r \in DOMAIN d : d[r] = mapping[l]
        BY <1>8, <4>1
      <4>3. d[r].key = "read_timeout"
        BY <2>5, <3>1, <3>4, <4>2
      <4>4. mapping[l].key = mapping[i].key
        BY <2>1, <3>2, <4>2, <4>3
      <4>5. QED
        BY <1>2, <4>1, <4>4 DEF DistinctKeys
    <3>5. QED
      BY <1>15, <2>1, <2>2, <3>3, <3>4
  <2>7. CASE d[k].key # "read_timeout"
    <3>1. a < k /\ ~(k <= a)
      BY <1>9, <2>7
    <3>2. PICK j \in DOMAIN mapping : d[k] = mapping[j]
      BY <1>10, <3>1
    <3>3. ASSUME NEW l \in j + 1 .. Len(mapping), GivesIn(mapping[l], s, TRUE) PROVE FALSE
      <4>1. l \in DOMAIN mapping /\ ~(l <= j)
        BY <1>7, <3>3
      <4>2. PICK r \in DOMAIN d : d[r] = mapping[l]
        BY <1>8, <4>1
      <4>3. ~(r > k)
        BY <2>3, <3>3, <4>2
      <4>4. d[r].key # "read_timeout"
        <5>1. CASE d[r].key = "read_timeout"
          <6>1. s = "read_timeout"
            BY <1>7, <2>4, <3>3, <4>2, <5>1
          <6>2. QED
            BY <2>3, <2>5, <2>7, <6>1
        <5>2. QED
          BY <5>1
      <4>5. a < r /\ r <= k
        BY <1>9, <4>3, <4>4
      <4>6. l <= j
        BY <1>11, <3>2, <4>1, <4>2, <4>5
      <4>7. QED
        BY <4>1, <4>6
    <3>4. QED
      BY <2>2, <2>3, <3>2, <3>3
  <2>8. QED
    BY <2>6, <2>7
<1>16. ASSUME q.ok, NEW s \in DOMAIN q.settings, \A i \in DOMAIN mapping : ~GivesIn(mapping[i], s, TRUE)
       PROVE  s = "read_timeout"
  <2>1. PICK k \in DOMAIN d : LastGiver(d, k, s, TRUE)
    BY <1>4, <1>5, <1>16 DEF AppliedAs
  <2>2. GivesIn(d[k], s, TRUE)
    BY <2>1 DEF LastGiver
  <2>3. d[k].key = "read_timeout"
    BY <1>8, <1>16, <2>2
  <2>4. QED
    BY <2>2, <2>3 DEF GivesIn, Options!Writes, Options!Setting
<1>17. /\ DOMAIN result.settings = DOMAIN q.settings \union DOMAIN order
       /\ \A s \in DOMAIN q.settings \union DOMAIN order :
             result.settings[s] = IF s \in DOMAIN order THEN order[s] ELSE q.settings[s]
  <2> DEFINE f == q.settings
             w == Options!With(f, order)
  <2>1. result.settings = w
    BY <1>1
  <2> HIDE DEF f
  <2>2. /\ DOMAIN w = DOMAIN f \union DOMAIN order
        /\ \A s \in DOMAIN f \union DOMAIN order : w[s] = IF s \in DOMAIN order THEN order[s] ELSE f[s]
    BY WithDoes, Zenon
  <2> HIDE DEF w
  <2>3. QED
    BY <2>1, <2>2 DEF f
<1>18. ASSUME q.ok, NEW s \in DOMAIN result.settings
       PROVE  IF \E i \in DOMAIN mapping : Options!Gives(mapping[i], s)
              THEN \E i \in DOMAIN mapping :
                      /\ Options!Gives(mapping[i], s) /\ result.settings[s] = Options!Given(mapping[i], s)
                      /\ \A j \in i + 1 .. Len(mapping) : ~Options!Gives(mapping[j], s)
              ELSE s \in {"read_timeout", "orig_headers"}
  <2>1. CASE \A i \in DOMAIN mapping : ~GivesIn(mapping[i], s, TRUE)
    BY <1>6, <1>13, <1>16, <1>17, <1>18, <2>1
  <2>2. CASE \E i \in DOMAIN mapping : GivesIn(mapping[i], s, TRUE)
    <3>1. PICK i \in DOMAIN mapping : GivesIn(mapping[i], s, TRUE)
      BY <2>2
    <3>2. PICK p \in DOMAIN d : d[p] = mapping[i]
      BY <1>8
    <3>3. s \in DOMAIN q.settings
      BY <1>5, <1>18, <3>1, <3>2 DEF AppliedAs
    <3>4. s \notin DOMAIN order
      <4>1. CASE order = <<>>
        <5>1. DOMAIN <<>> = {}
          OBVIOUS
        <5>2. QED
          BY <4>1, <5>1
      <4>2. CASE order # <<>>
        <5>1. mapping[i].key \notin {"emulation", "orig_headers"}
          BY <1>6, <3>2, <4>2
        <5>2. Options!Setting(mapping[i].key) = s
          BY <3>1, <5>1 DEF GivesIn, Options!Writes
        <5>3. s # "orig_headers"
          BY <5>1, <5>2 DEF Options!Setting
        <5>4. QED
          BY <1>6, <5>3
      <4>3. QED
        BY <4>1, <4>2
    <3>5. result.settings[s] = q.settings[s]
      BY <1>17, <3>3, <3>4
    <3>6. PICK j \in DOMAIN mapping :
             /\ GivesIn(mapping[j], s, TRUE) /\ q.settings[s] = Options!Given(mapping[j], s)
             /\ \A l \in j + 1 .. Len(mapping) : ~GivesIn(mapping[l], s, TRUE)
      BY <1>15, <1>18, <3>1, <3>3
    <3>7. QED
      BY <1>13, <3>5, <3>6
  <2>3. QED
    BY <2>1, <2>2
<1> HIDE DEF valid
<1>19. result.ok <=> valid
  BY <1>1, <1>14
<1>20. result.ok => q.ok
  BY <1>1
<1>21. QED
  BY <1>18, <1>19, <1>20, Zenon DEF Options!SentInOrder, valid

-----------------------------------------------------------------------------
(* The theorem.                                                             *)

\* A client and a request, once there is one, are in order.
AppliedInv == python \in Arguments /\ privacy \in ClientMappings /\ Options!OptionsInOrder

\* Neither a client nor a request.
LEMMA OptionsStart == Options!Init => AppliedInv
<1>1. Options!NoClient.made = FALSE /\ Options!NoRequest.sent = FALSE
  BY DEF Options!NoClient, Options!NoRequest
<1>2. QED
  BY <1>1 DEF Options!Init, AppliedInv, Options!OptionsInOrder, Options!ClientInOrder, Options!RequestInOrder

\* The options stay as they are while nothing moves.
LEMMA OptionsStay == AppliedInv /\ UNCHANGED <<python, privacy, native, private>> => AppliedInv'
BY DEF AppliedInv, Options!OptionsInOrder, Options!ClientInOrder, Options!RequestInOrder

\* A client is made.
LEMMA OptionsMakeClient == AppliedInv /\ Options!MakeClient => AppliedInv'
<1> SUFFICES ASSUME AppliedInv, Options!MakeClient PROVE AppliedInv'
  OBVIOUS
<1> DEFINE r == IF Options!Acceptable(python) THEN Options!ClientOptions(Options!ClientDict(python, privacy))
                ELSE Options!Failed
           ordered == Options!Keys(Options!ClientDict(python, privacy)) \intersect Options!OrderKeys # {}
<1>1. /\ native' = [made |-> TRUE, ok |-> r.ok, settings |-> r.settings, proxies |-> r.proxies,
                    ordered |-> ordered]
      /\ python' = python /\ privacy' = privacy /\ private' = private
  BY DEF Options!MakeClient
<1>2. native'.ok = r.ok /\ native'.settings = r.settings /\ native'.proxies = r.proxies
  BY <1>1
<1>3. privacy \in ClientMappings
  BY DEF AppliedInv
<1>4. Options!MadeInOrder(native', python, privacy)
  BY <1>2, <1>3, ClientMade
<1>5. Options!ClientInOrder'
  BY <1>1, <1>4 DEF Options!ClientInOrder
<1>6. Options!RequestInOrder'
  BY <1>1 DEF AppliedInv, Options!OptionsInOrder, Options!RequestInOrder
<1>7. QED
  BY <1>1, <1>5, <1>6 DEF AppliedInv, Options!OptionsInOrder

\* A request is sent.
LEMMA OptionsSend == AppliedInv /\ Options!Send => AppliedInv'
<1> SUFFICES ASSUME AppliedInv, Options!Send PROVE AppliedInv'
  OBVIOUS
<1>1. PICK readTimeout \in BOOLEAN, mapping \in RequestMappings :
         LET dict == Options!RequestDict(readTimeout, mapping)
             r == Options!RequestOptions(dict)
             order == IF native.ordered \/ Options!Keys(dict) \intersect Options!OrderKeys # {} THEN <<>>
                      ELSE Options!Only("orig_headers", Options!Only("orig_headers", "python"))
         IN  /\ private' = [sent |-> TRUE, mapping |-> mapping, ok |-> r.ok,
                            settings |-> Options!With(r.settings, order), proxies |-> r.proxies]
             /\ UNCHANGED <<python, privacy, native>>
  BY DEF Options!Send
<1> DEFINE dict == Options!RequestDict(readTimeout, mapping)
           r == Options!RequestOptions(dict)
           order == IF native.ordered \/ Options!Keys(dict) \intersect Options!OrderKeys # {} THEN <<>>
                    ELSE Options!Only("orig_headers", Options!Only("orig_headers", "python"))
<1>2. /\ private'.mapping = mapping /\ private'.ok = r.ok
      /\ private'.settings = Options!With(r.settings, order)
  BY <1>1
<1>3. Options!SentInOrder(private', mapping)
  BY <1>2, RequestSent
<1>4. Options!RequestInOrder'
  BY <1>2, <1>3 DEF Options!RequestInOrder
<1>5. python' = python /\ privacy' = privacy /\ native' = native
  BY <1>1
<1>6. Options!ClientInOrder'
  BY <1>5 DEF AppliedInv, Options!OptionsInOrder, Options!ClientInOrder
<1>7. QED
  BY <1>4, <1>5, <1>6 DEF AppliedInv, Options!OptionsInOrder

\* Only the part with the options is spoken of.
OrderInv == part = "options" => AppliedInv

\* Whatever mappings, profiles and arguments: an option holds over what Python
\* derives, the last of those that give a setting gives it, an emulation's settings
\* stay where nothing else writes, no proxy is lost but to a later no_proxy.
THEOREM OptionsTakeEffectInOrder == Spec => []OptionsInOrder
<1>1. Init => OrderInv
  BY OptionsStart DEF Init, OrderInv
<1>2. OrderInv /\ [Next]_<<part, dvars, cvars, uvars, rvars, evars, ovars>> => OrderInv'
  <2> SUFFICES ASSUME OrderInv, [Next]_<<part, dvars, cvars, uvars, rvars, evars, ovars>>,
                      part' = "options"
               PROVE  AppliedInv'
    BY DEF OrderInv
  <2>1. part = "options" /\ AppliedInv
    BY DEF OrderInv, Next
  <2>2. CASE Options!Next
    BY <2>1, <2>2, OptionsMakeClient, OptionsSend DEF Options!Next
  <2>3. CASE UNCHANGED ovars
    <3>1. UNCHANGED <<python, privacy, native, private>>
      BY <2>3 DEF ovars
    <3>2. QED
      BY <2>1, <3>1, OptionsStay
  <2>4. QED
    BY <2>1, <2>2, <2>3 DEF Next
<1>3. OrderInv => OptionsInOrder
  BY DEF OrderInv, OptionsInOrder, AppliedInv
<1>4. QED
  BY <1>1, <1>2, <1>3, PTL DEF Spec
===============================================================================
