---------------------------- MODULE TensorShape ----------------------------
(***************************************************************************)
(* TensorShape (tensor_shape.h): the dimensions of a tensor, the paddings  *)
(* before and after each axis, and the data format that says how the       *)
(* channels are padded.  Products are of a type that wraps: modulo Wrap.   *)
(*                                                                         *)
(* Bounds: Dims and Paddings are the numbers that clients pass, MaxRank    *)
(* the length of dims_.                                                    *)
(***************************************************************************)
EXTENDS Integers, Sequences

CONSTANTS Formats, Dims, Paddings, MaxRank, Wrap

VARIABLES
  shape,       \* is_scalar_, data_format_, dims_, padding0_, padding1_
  plain,       \* history: no padding in it was given by a client
  calculated   \* history: the paddings were calculated for its dims and format

shapeVars == <<shape, plain, calculated>>

Axis == 1..MaxRank
kAxisC == 2
Rank == Len(shape.dims)

(* The number of channels that lie together, in the formats that have one *)
Alignment ==
  [N2CX |-> 2, N4CX |-> 4, N8CX |-> 8, N16CX |-> 16, N32CX |-> 32,
   NHWC8 |-> 8, NHWC16 |-> 16]

Cleared ==
  [scalar |-> FALSE, format |-> "UNKNOWN", dims |-> <<>>, padding0 |-> <<>>, padding1 |-> <<>>]

TypeOK ==
  /\ shape.scalar \in BOOLEAN /\ shape.format \in Formats
  /\ Rank <= MaxRank
  /\ Len(shape.padding0) = Rank /\ Len(shape.padding1) = Rank
  /\ shape.scalar => Rank = 0
  /\ plain \in BOOLEAN /\ calculated \in BOOLEAN

Init == shape = Cleared /\ plain = TRUE /\ calculated = TRUE

-----------------------------------------------------------------------------
\* A mutant of PaddingOf: a full block is added where none is needed.
PaddingOfTooMuch(dim, alignment) == alignment - (dim % alignment)

(* CalcPadding(dim, alignment): up to the next multiple, a power of two *)
PaddingOf(dim, alignment) == (-dim) % alignment

Zeros(n) == [i \in 1..n |-> 0]

(* CalcPadding(): the other formats keep the paddings as they are. *)
WithPadding(s) ==
  IF s.format = "NDARRAY"
    THEN [s EXCEPT !.padding0 = Zeros(Len(@)), !.padding1 = Zeros(Len(@))]
  ELSE IF Len(s.dims) >= kAxisC /\ s.format \in DOMAIN Alignment
    THEN [s EXCEPT !.padding1[kAxisC] = PaddingOf(s.dims[kAxisC], Alignment[s.format])]
  ELSE s

Calculates(s) == s.format = "NDARRAY" \/ s.format \in DOMAIN Alignment

(* std::vector::resize *)
ResizeVector(v, n) == [i \in 1..n |-> IF i \in DOMAIN v THEN v[i] ELSE 0]

(* DoResize *)
Resized(s, n) ==
  [s EXCEPT !.dims = ResizeVector(@, n), !.padding0 = ResizeVector(@, n),
            !.padding1 = ResizeVector(@, n)]

\* Paddings that clients gave are gone if all paddings are, or become 0.
PlainAfter(s) == plain \/ s.dims = <<>> \/ s.format = "NDARRAY"

SetDataFormat(format) ==
  LET s == WithPadding([shape EXCEPT !.format = format]) IN
  /\ format # shape.format
  /\ shape' = s
  /\ plain' = PlainAfter(s) /\ calculated' = Calculates(s)

ReshapeAsScalar ==
  /\ shape' = [Resized(shape, 0) EXCEPT !.scalar = TRUE]
  /\ plain' = TRUE /\ calculated' = TRUE

Reshape(dims) ==
  LET s == WithPadding([Resized(shape, Len(dims)) EXCEPT !.scalar = FALSE, !.dims = dims]) IN
  IF dims = <<>> THEN ReshapeAsScalar
  ELSE /\ shape' = s
       /\ plain' = PlainAfter(s) /\ calculated' = Calculates(s)

SetPadding(i, n) ==
  /\ \/ shape' = [shape EXCEPT !.padding0[i] = n]
     \/ shape' = [shape EXCEPT !.padding1[i] = n]
  /\ plain' = FALSE
  /\ UNCHANGED calculated

SetDim(i, dim) ==
  /\ shape' = [shape EXCEPT !.dims[i] = dim]
  /\ calculated' = FALSE
  /\ UNCHANGED plain

SetDimCount(n) ==
  /\ shape' = [Resized(shape, n) EXCEPT !.scalar = (n = 0)]
  /\ plain' = (plain \/ n = 0)
  /\ calculated' = (n = 0)

Clear == shape' = Cleared /\ plain' = TRUE /\ calculated' = TRUE

Next ==
  \/ \E format \in Formats : SetDataFormat(format)
  \/ \E n \in 0..MaxRank : \E dims \in [1..n -> Dims] : Reshape(dims)
  \/ \E i \in 1..Rank : (\E n \in Paddings : SetPadding(i, n)) \/ \E d \in Dims : SetDim(i, d)
  \/ \E n \in 0..MaxRank : SetDimCount(n)
  \/ ReshapeAsScalar \/ Clear

Spec == Init /\ [][Next]_shapeVars

-----------------------------------------------------------------------------
(* The counts, of the axes from..to *)

Product(v, from, to) ==
  LET accu[i \in (from - 1)..to] ==
        IF i = from - 1 THEN 1 ELSE (accu[i - 1] * v[i]) % Wrap
  IN  accu[to]

PaddedDims == [i \in 1..Rank |-> shape.dims[i] + shape.padding0[i] + shape.padding1[i]]

Elements(v, from, to) ==
  IF Rank = 0 THEN IF shape.scalar THEN 1 ELSE 0 ELSE Product(v, from, to)

IncludingPadding == Elements(PaddedDims, 1, Rank)
ExcludingPadding == Elements(shape.dims, 1, Rank)

IsEmpty == ~shape.scalar /\ (Rank = 0 \/ Product(shape.dims, 1, Rank) = 0)

(***************************************************************************)
(* Paddings that were calculated do not depend on what the shape was       *)
(* before: the channels come to the next multiple of their alignment, and  *)
(* nothing else is padded.  (After a change to NHWC, and after SetDim,     *)
(* they do.)  The counts agree with each other: tensor_shape.h:100-279.    *)
(***************************************************************************)
PaddingFits ==
  /\ plain /\ calculated /\ Calculates(shape) =>
       \A i \in 1..Rank :
         IF i = kAxisC /\ shape.format # "NDARRAY"
           THEN LET a == Alignment[shape.format] IN
                /\ PaddedDims[i] % a = 0
                /\ PaddedDims[i] - shape.dims[i] \in 0..(a - 1)
           ELSE PaddedDims[i] = shape.dims[i]
  /\ IsEmpty <=> ExcludingPadding = 0
  /\ Rank # 0 => \A i \in 0..Rank :
       IncludingPadding = (Elements(PaddedDims, 1, i) * Elements(PaddedDims, i + 1, Rank)) % Wrap
=============================================================================
