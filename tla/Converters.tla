----------------------------- MODULE Converters -----------------------------
(***************************************************************************)
(* instrumentation::converter: what the instruments make of the data their *)
(* ports expose before an outstream writes it.                             *)
(*                                                                         *)
(* Text is a sequence of parts: a literal, a term still to be filled in,   *)
(* or a value.  Formatting a number is left out: a value stands for the    *)
(* digits the code prints.  Complex numbers are pairs; FFTW's roots of     *)
(* unity are the constant Root, so that a transform of few samples is      *)
(* exact.                                                                  *)
(***************************************************************************)
EXTENDS Integers, Sequences, SequencesExt

CONSTANT Root   \* Root[j] = exp(-2 pi i j / Len(Root)), a pair, j \in 0..

Samples == Cardinality(DOMAIN Root)

Term(t) == <<"term", t>>
Text(s) == <<"text", s>>
Value(v) == <<"value", v>>

\* std::string::find and replace: the first occurrence of the term.
ReplaceFirst(string, term, parts) ==
  LET at == SelectInSeq(string, LAMBDA part : part = Term(term))
  IN IF at = 0 THEN string
     ELSE SubSeq(string, 1, at - 1) \o parts \o SubSeq(string, at + 1, Len(string))

\* Every entry <<term, parts>> of the sequence, one after the other.
FilledIn(format, entries) ==
  FoldLeft(LAMBDA string, entry : ReplaceFirst(string, entry[1], entry[2]), format, entries)

-----------------------------------------------------------------------------
\* ToStringConverter keeps the format and the terms; each converter its own.
ConvergenceFormat ==
  <<Text("Iteration: "), Term("number"), Text("/"), Term("max"), Text(", delta: "),
    Term("delta"), Text(", index: "), Term("index"), Text("\n")>>

\* A status without a delta or a failed index prints the null character.
OrNull(set) == IF set = {} THEN <<Text("null")>> ELSE <<Value(CHOOSE v \in set : TRUE)>>

\* ConvergenceToString; delta and failedIndex are sets of at most one value.
ConvergenceToString(status) ==
  FilledIn(ConvergenceFormat,
           << <<"number", <<Value(status.number)>> >>, <<"max", <<Value(status.max)>> >>,
              <<"delta", OrNull(status.delta)>>, <<"index", OrNull(status.failedIndex)>> >>)

DoubleToString(value) == FilledIn(<<Term("value"), Text("\n")>>, << <<"value", <<Value(value)>> >> >>)

IntDoublePairToString(pair) ==
  FilledIn(<<Term("index"), Text(", "), Term("value"), Text("\n")>>,
           << <<"index", <<Value(pair[1])>> >>, <<"value", <<Value(pair[2])>> >> >>)

\* The string is put in first, then the colours before and after it.
StringColorPairToString(pair) ==
  FilledIn(<<Term("color"), Term("string"), Term("reset")>>,
           << <<"string", <<Text(pair[1])>> >>, <<"color", <<Text(pair[2])>> >>,
              <<"reset", <<Text("reset")>> >> >>)

\* One entry of a vector, by the default format of the entries.
VectorEntryToString(z) ==
  FilledIn(<<Text("("), Term("real"), Text("+"), Term("imag"), Text("j)")>>,
           << <<"real", <<Value(z[1])>> >>, <<"imag", <<Value(z[2])>> >> >>)

\* The entries with the delimiter between them; the default format has no
\* place for the integer.
IntVectorComplexPairToString(pair) ==
  LET entries == [i \in DOMAIN pair[2] |->
        VectorEntryToString(pair[2][i])
          \o (IF i = Len(pair[2]) THEN <<>> ELSE <<Text(", ")>>)]
  IN FilledIn(<<Term("vector"), Text("\n")>>,
              << <<"int", <<Value(pair[1])>> >>, <<"vector", FlattenSeq(entries)>> >>)

-----------------------------------------------------------------------------
\* GroupScalarFluxExtractor: the moment {group, 0, 0} of all moments.
GroupScalarFluxExtractor(moments, group) == moments[group]

AbsoluteOf(x) == IF x < 0 THEN -x ELSE x

\* Bug: the stored vector is subtracted.
VectorSubtractorReversed(minuend, input, absolute) ==
  [i \in DOMAIN minuend |-> input[i] - minuend[i]]

\* VectorSubtractor::Convert: the stored vector less the given one.
VectorSubtractor(minuend, input, absolute) ==
  [i \in DOMAIN minuend |->
     IF absolute THEN AbsoluteOf(minuend[i] - input[i]) ELSE minuend[i] - input[i]]

DealiiToComplexVector(vector) == [i \in DOMAIN vector |-> <<vector[i], 0>>]

Times(a, b) == <<a[1] * b[1] - a[2] * b[2], a[1] * b[2] + a[2] * b[1]>>
SumOf(zs) == FoldLeft(LAMBDA a, b : <<a[1] + b[1], a[2] + b[2]>>, <<0, 0>>, zs)

\* FFTW's forward transform (external).
ForwardTransform(vector) ==
  [k \in DOMAIN vector |->
     SumOf([j \in DOMAIN vector |-> Times(vector[j], Root[((k - 1) * (j - 1)) % Samples])])]

\* FourierTransformFFTW::CalculateDFT: divided by the samples if normalized.
CalculateDFT(vector, normalized) ==
  LET output == ForwardTransform(vector)
  IN IF normalized THEN [k \in DOMAIN output |-> <<output[k][1] \div Samples,
                                                   output[k][2] \div Samples>>]
     ELSE output

\* The converter FourierTransform leaves it to its calculator.
FourierTransform(vector, returnsNormalized) == CalculateDFT(vector, returnsNormalized)

\* PairIncrementer: the number starts at -1 and is incremented before use.
PairIncrementer(increment, input) == <<increment + 1, input>>

\* The chain InstrumentBuilder adds up for the error of one group; the
\* transform is normalized and the error keeps its sign.
FourierOfGroupError(previous, group, increment, moments) ==
  LET flux == GroupScalarFluxExtractor(moments, group)
      error == VectorSubtractor(previous, flux, FALSE)
      transformed == FourierTransform(DealiiToComplexVector(error), TRUE)
  IN IntVectorComplexPairToString(PairIncrementer(increment, transformed))
=============================================================================
