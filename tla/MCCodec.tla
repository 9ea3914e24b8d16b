------------------------------ MODULE MCCodec ------------------------------
\* Instances of Codec for TLC: words of 16 bits, so that a varint has up to
\* three bytes, an int is negative from 2^15 on, and field numbers and enums
\* have 8 bits.
EXTENDS Codec

MCTexts == {<<48>>, <<55, 53>>}
MCYearOne == 2^16 - 62
MCYearTenThousand == 253
MCSent == DOMAIN MarshalTable
MCNoise == {"Bid", "BaseAuction", "QueryBidsRequest", "Params"}

\* Field 15: a number, eight bytes, four bytes, a string, nested groups.
MCUnknown ==
  {<<120, 255, 1>>, <<121, 1, 2, 3, 4, 5, 6, 7, 8>>, <<125, 1, 2, 3, 4>>,
   <<122, 2, 8, 1>>, <<123, 123, 8, 1, 124, 122, 1, 124, 124>>}

\* Tags of fields 1, 2, 4, 6 and 12, lengths 0, 1, 2 with a nested number, 2^15
\* - 1, -1 and one of four bytes, a text, the beginning and the end of a group,
\* and what makes a time too early, too late, or its nanoseconds a second.
MCChunks ==
  {<<8>>, <<10>>, <<18>>, <<34>>, <<50>>, <<98>>, <<0>>, <<1, 48>>, <<2, 8, 1>>,
   <<255, 255, 1>>, <<255, 255, 3>>, <<128, 128, 128, 0>>, <<123>>, <<124>>,
   <<4, 8, 193, 255, 3>>, <<3, 8, 253, 1>>, <<2, 16, 100>>}
=============================================================================
