----------------------------- MODULE TextPieces -----------------------------
(***************************************************************************)
(* Cutting text up: the chunks of a translation that is too long for the   *)
(* model (runtime/internal/text/chunker.cpp) and the complete characters   *)
(* of a stream of bytes (utf8.cpp, utf8_stream_buffer.cpp).                *)
(*                                                                         *)
(* A text is a sequence of code points.  A stream is a sequence of bytes:  *)
(* characters of one byte and of two, which show all that matters of UTF-8.*)
(***************************************************************************)
EXTENDS Naturals, Sequences, SequencesExt

CONSTANTS
    CodePoint,      \* the code points of a source text
    SentenceEnd,    \* the ones that end a sentence
    TokenCount(_)   \* the tokens of the prompt rendered around a text

SentenceAssumption == SentenceEnd \subseteq CodePoint

-----------------------------------------------------------------------------
(* Chunks.                                                                 *)

\* split_sentences(): a sentence ends behind a code point of SentenceEnd.
Sentences(text) ==
    LET Add(sentences, c) ==
            IF sentences = <<>> \/ Last(Last(sentences)) \in SentenceEnd
              THEN Append(sentences, <<c>>)
              ELSE Append(Front(sentences), Append(Last(sentences), c))
    IN  FoldLeft(Add, <<>>, text)

\* max_fitting_prefix(): the code points in front of the first that is too many.
MaxFittingPrefix(text, max) ==
    IF TokenCount(text) <= max THEN text
    ELSE LET tooLong == {n \in 1 .. Len(text) : TokenCount(SubSeq(text, 1, n)) > max}
         IN  SubSeq(text, 1, CHOOSE n \in 0 .. Len(text) - 1 :
                                n + 1 \in tooLong /\ \A k \in 1 .. n : k \notin tooLong)

NoSplit == <<"unable to split">>

\* append_hard_split_chunks(), which throws when not even one code point fits.
RECURSIVE HardSplit(_, _)
HardSplit(text, max) ==
    LET piece == MaxFittingPrefix(text, max)
        rest  == SubSeq(text, Len(piece) + 1, Len(text))
    IN  IF text = <<>> THEN <<>>
        ELSE IF piece = <<>> THEN NoSplit
        ELSE LET more == HardSplit(rest, max)
             IN  IF more = NoSplit THEN NoSplit ELSE <<piece>> \o more

\* Mistake: sentences are put together without counting their tokens again.
Mut_Joined(current, sentence, max) == TRUE

\* Whether a sentence still goes into the chunk in hand.
Joined(current, sentence, max) == current = <<>> \/ TokenCount(current \o sentence) <= max

\* chunk_by_token_budget(), for a text that is not empty.
Chunks(text, max) ==
    LET Flushed(a) == IF a.current = <<>> THEN a.chunks ELSE Append(a.chunks, a.current)
        Add(a, sentence) ==
            IF a.chunks = NoSplit THEN a
            ELSE IF TokenCount(sentence) > max
              THEN LET split == HardSplit(sentence, max)
                   IN  [chunks |-> IF split = NoSplit THEN NoSplit ELSE Flushed(a) \o split,
                        current |-> <<>>]
            ELSE IF Joined(a.current, sentence, max)
              THEN [a EXCEPT !.current = @ \o sentence]
              ELSE [chunks |-> Flushed(a), current |-> sentence]
    IN  IF TokenCount(text) <= max THEN <<text>>
        ELSE Flushed(FoldLeft(Add, [chunks |-> <<>>, current |-> <<>>], Sentences(text)))

-----------------------------------------------------------------------------
(* Bytes.                                                                  *)

\* A character of one byte, and the first and the second byte of one of two.
Byte == {"ascii", "lead", "cont"}

WellFormed(b) ==
    \A i \in DOMAIN b :
        /\ b[i] = "lead" => i < Len(b) /\ b[i + 1] = "cont"
        /\ b[i] = "cont" => i > 1 /\ b[i - 1] = "lead"

\* validate_utf8_with_errors() of simdutf: the bytes in front of the first error.
\* The error is TOO_SHORT at a lead byte without its continuation, be it at the
\* end or not, and TOO_LONG at a continuation byte without its lead.
ValidBytes(b) ==
    CHOOSE n \in 0 .. Len(b) :
        /\ WellFormed(SubSeq(b, 1, n))
        /\ \A k \in n + 1 .. Len(b) : ~WellFormed(SubSeq(b, 1, k))

\* The loop of Utf8StreamBuffer::push(): what can be emitted and what is kept.
RECURSIVE Drained(_)
Drained(b) ==
    LET n == ValidBytes(b)
    IN  IF n = Len(b) THEN [out |-> b, rest |-> <<>>]
        ELSE IF b[n + 1] = "lead" THEN [out |-> SubSeq(b, 1, n), rest |-> SubSeq(b, n + 1, Len(b))]
        ELSE LET d == Drained(SubSeq(b, n + 2, Len(b)))
             IN  [out |-> SubSeq(b, 1, n) \o d.out, rest |-> d.rest]
=============================================================================
