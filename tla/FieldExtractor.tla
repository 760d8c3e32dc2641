--------------------------- MODULE FieldExtractor ---------------------------
(***************************************************************************)
(* FieldExtractor: a field of bits of a report as a number, by one of two  *)
(* methods: whole bytes, or shifted and masked ones.  A report is a        *)
(* function from 0 on; its bytes have ByteBits bits and a word is four of  *)
(* them, for the methods depend on nothing else.  An unaligned field of a  *)
(* whole word, which the code would shift by all bits of a word and HID    *)
(* forbids, has no model.                                                  *)
(*                                                                         *)
(* What the code puts together with | has no bit in common here, and is a  *)
(* sum.                                                                    *)
(***************************************************************************)
EXTENDS Integers

CONSTANT ByteBits     \* bits of a byte (8)

ASSUME FieldExtractorAssumption == ByteBits \in {2, 4, 8}

WordBits == 4 * ByteBits
Byte == 0 .. 2^ByteBits - 1

Extractor == [offset : Nat, length : Nat, byte_aligned : BOOLEAN, signed : BOOLEAN]

\* What make_unique leaves of an extractor that is never configured.
Unconfigured == [offset |-> 0, length |-> 0, byte_aligned |-> FALSE, signed |-> FALSE]

\* FieldExtractor::configure
Configured(offset, length, relative) ==
    [offset |-> offset, length |-> length, signed |-> relative,
     byte_aligned |-> offset % ByteBits = 0 /\ length % ByteBits = 0]

ToWord(n) == n % 2^WordBits

\* A number of so many bits as two's complement.
AsSigned(n, bits) == LET m == n % 2^bits
                     IN  IF m >= 2^(bits - 1) THEN m - 2^bits ELSE m
-----------------------------------------------------------------------------
\* The n bytes of r from k on, each in its place of a word.
Joined(r, k, n) == LET at(i) == IF i < n THEN r[k + i] * 2^(ByteBits * i) ELSE 0
                   IN  at(0) + at(1) + at(2) + at(3)

\* A byte-aligned, relative field.  Of three bytes the highest is extended by
\* itself.
AlignedSigned(f, r) ==
    LET size == f.length \div ByteBits
        k == f.offset \div ByteBits
        top == AsSigned(r[k + 2], ByteBits)
    IN  IF size \in {1, 2} THEN AsSigned(Joined(r, k, size), size * ByteBits)
        ELSE IF size = 3
        THEN AsSigned(Joined(r, k, 2) + ToWord(top * 2^(2 * ByteBits)), WordBits)
        ELSE AsSigned(Joined(r, k, 4), WordBits)

\* A byte-aligned, absolute field, returned as a signed word.
AlignedUnsigned(f, r) ==
    LET size == f.length \div ByteBits
    IN  AsSigned(Joined(r, f.offset \div ByteBits, IF size \in 1 .. 3 THEN size ELSE 4), WordBits)

LimitedSize(f) == IF f.length < WordBits THEN f.length ELSE WordBits

\* Mutant of Span: a field that begins late in its byte loses its last one.
SpanWithoutShift(f) == (LimitedSize(f) + ByteBits - 1) \div ByteBits

\* n, the bytes that an unaligned field lies in
Span(f) == ((f.offset % ByteBits) + LimitedSize(f) + ByteBits - 1) \div ByteBits

\* The bytes of an unaligned field, shifted to where it begins, as a word.
Shifted(f, r) ==
    LET shift == f.offset % ByteBits
        idx == f.offset \div ByteBits
        at(i) == IF i >= Span(f) THEN 0
                 ELSE IF i = 0 THEN r[idx] \div 2^shift
                 ELSE ToWord(r[idx + i] * 2^((ByteBits * i) - shift))
    IN  at(0) + at(1) + at(2) + at(3) + at(4)

\* Its highest bit is extended by turning it and taking it away again.
Unaligned(f, r) ==
    LET v == Shifted(f, r) % 2^LimitedSize(f)
        mask == IF f.signed THEN 2^(LimitedSize(f) - 1) ELSE 0
        turned == IF v >= mask THEN v - mask ELSE v + mask
    IN  AsSigned(ToWord(turned - mask), WordBits)

\* FieldExtractor::extract
Extract(f, r) == IF ~f.byte_aligned THEN Unaligned(f, r)
                 ELSE IF f.signed THEN AlignedSigned(f, r) ELSE AlignedUnsigned(f, r)
=============================================================================
