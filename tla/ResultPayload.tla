---------------------------- MODULE ResultPayload ----------------------------
(* The response of a SELECT: for each returned column a payload of values and *)
(* a null mask of 64-bit words.  Every dispatcher collects the payloads of    *)
(* its blocks; GpuSqlCustomParser merges the responses of the dispatchers and *)
(* trims the result to LIMIT and OFFSET.  A mask is kept here as the sequence *)
(* of the bits of its words, so its length is a multiple of WordBits; bits    *)
(* behind the last row are kept too, because merging may bring them to light. *)
(* A response without payload or mask for a column has <<>> there.            *)
EXTENDS Integers, Sequences, SequencesExt

CONSTANT WordBits   \* the bits of nullmask_t

ASSUME WordAssumption == WordBits \in Nat \ {0}

\* The operations that AggregateOnCPU knows.
Aggregations == {"MIN", "MAX", "SUM", "AVG", "COUNT"}

GetNullBitMaskSize(size) == (size + WordBits - 1) \div WordBits

\* The first n words of a mask.
Words(mask, n) == SubSeq(mask, 1, n * WordBits)

ShiftNullMaskLeft(mask, shift) ==
    [i \in 1 .. Len(mask) |-> i + shift <= Len(mask) /\ mask[i + shift]]

AggregateOnCPU(operation, number1, number2) ==
    CASE operation = "MIN" -> IF number1 < number2 THEN number1 ELSE number2
      [] operation = "MAX" -> IF number1 > number2 THEN number1 ELSE number2
      [] OTHER -> number1 + number2

NoPayload == [data |-> <<>>, mask |-> <<>>]

\* Mutant: the carried bits are not entered into the last word.
MergePayloadBitmaskNoCarry(into, nullMask, payloadSize) ==
    LET used == Len(into.data) % WordBits
        missing == GetNullBitMaskSize(Len(into.data) + payloadSize)
                      - Len(into.mask) \div WordBits
    IN  CASE into.mask = <<>> -> nullMask
          [] used = 0 -> into.mask \o nullMask
          [] OTHER -> into.mask \o Words(ShiftNullMaskLeft(nullMask, WordBits - used),
                                         IF missing * WordBits > Len(nullMask)
                                         THEN Len(nullMask) \div WordBits
                                         ELSE missing)

\* The rows of the new payload go behind those of the old one.  If the old ones
\* do not fill their last word, the first bits of the new mask are or-ed into
\* it, and the rest is shifted; a word is appended only while the rows need it.
MergePayloadBitmask(into, nullMask, payloadSize) ==
    LET used == Len(into.data) % WordBits
        room == WordBits - used
        start == Len(into.mask) - room
        carried == [i \in 1 .. Len(into.mask) |->
                       into.mask[i] \/ (i > start /\ nullMask[i - start])]
        missing == GetNullBitMaskSize(Len(into.data) + payloadSize)
                      - Len(into.mask) \div WordBits
    IN  CASE into.mask = <<>> -> nullMask
          [] used = 0 -> into.mask \o nullMask
          [] OTHER -> carried \o Words(ShiftNullMaskLeft(nullMask, room),
                                       IF missing * WordBits > Len(nullMask)
                                       THEN Len(nullMask) \div WordBits
                                       ELSE missing)

MergePayload(into, operation, payload) ==
    CASE into.data = <<>> -> payload.data
      [] operation \in Aggregations ->
            [into.data EXCEPT ![1] = AggregateOnCPU(operation, payload.data[1], @)]
      [] OTHER -> into.data \o payload.data

\* A payload enters a response: the mask first, measured against the old data.
MergeInto(into, operation, payload, payloadSize) ==
    IF payload.data = <<>>
    THEN into
    ELSE [data |-> MergePayload(into, operation, payload),
          mask |-> IF payload.mask = <<>> THEN into.mask
                   ELSE MergePayloadBitmask(into, payload.mask, payloadSize)]

Clamp(x, low, high) == IF x < low THEN low ELSE IF x > high THEN high ELSE x

TrimPayload(payload, limit, offset) ==
    LET clampedOffset == Clamp(offset, 0, Len(payload.data))
        clampedLimit == Clamp(limit, 0, Len(payload.data) - clampedOffset)
    IN  [data |-> SubSeq(payload.data, clampedOffset + 1, clampedOffset + clampedLimit),
         mask |-> IF payload.mask = <<>> THEN <<>>
                  ELSE Words(ShiftNullMaskLeft(payload.mask, clampedOffset),
                             GetNullBitMaskSize(clampedLimit))]

=============================================================================
