--------------------------------- MODULE AnnexB ---------------------------------
(***************************************************************************)
(* How an encoded frame is rewritten for the wire, convertToAnnexB of       *)
(* src/Shared/H264Encoder.swift: VideoToolbox puts the length of a NAL unit *)
(* before it, in four bytes, the most significant first; a decoder wants a  *)
(* start code there.  Data is a sequence of bytes, offsets count from 0.    *)
(***************************************************************************)
EXTENDS Naturals, Sequences, SequencesExt

CONSTANTS Bytes, MaxUnit, MaxUnits      \* bounds on the frames the property looks at

ASSUME BytesAssumption ==
    /\ Bytes \subseteq 0..255
    /\ MaxUnit \in Nat \ {0} /\ MaxUnit < 256 * 256 * 256
    /\ MaxUnits \in Nat

startCode == <<0, 0, 0, 1>>

\* The big-endian number at an offset.
UInt32At(avcc, offset) ==
    ((avcc[offset + 1] * 256 + avcc[offset + 2]) * 256 + avcc[offset + 3]) * 256 + avcc[offset + 4]

\* There is a length at the offset, not zero, and its unit is in the block to the last byte.
UnitFits(avcc, offset) ==
    /\ offset + 4 <= Len(avcc)
    /\ UInt32At(avcc, offset) > 0
    /\ offset + 4 + UInt32At(avcc, offset) <= Len(avcc)

\* The empty output stands for nil.  The units are copied up to the first that does not fit.
convertToAnnexB(avcc) ==
    LET From[offset \in 0..Len(avcc)] ==
            IF UnitFits(avcc, offset)
            THEN LET end == offset + 4 + UInt32At(avcc, offset)
                 IN  startCode \o SubSeq(avcc, offset + 5, end) \o From[end]
            ELSE <<>>
    IN  From[0]

-----------------------------------------------------------------------------
\* Frames as VideoToolbox frames them, cut short or followed by what is not a unit.
Units == BoundedSeq(Bytes, MaxUnit) \ {<<>>}
BigEndian(n) == <<n \div (256 * 256 * 256), (n \div (256 * 256)) % 256, (n \div 256) % 256, n % 256>>
LengthPrefixed(unit) == BigEndian(Len(unit)) \o unit
Joined(units, Frame(_)) == FlattenSeq([i \in DOMAIN units |-> Frame(units[i])])
CutShort(unit) == {SubSeq(LengthPrefixed(unit), 1, n) : n \in 0..Len(unit) + 3}
Broken == (UNION {CutShort(u) : u \in Units})
          \cup {<<0, 0, 0, 0>> \o u : u \in Units} \cup {<<1, 0, 0, 0>> \o u : u \in Units}

\* Every unit that is in the frame as a whole comes out once, unchanged, in order, behind a start
\* code, up to the last; nothing of a unit cut short does, whatever its length claims.
WholeUnitsConverted ==
    \A units \in BoundedSeq(Units, MaxUnits), tail \in Broken :
        convertToAnnexB(Joined(units, LengthPrefixed) \o tail)
            = Joined(units, LAMBDA u : startCode \o u)
=============================================================================
