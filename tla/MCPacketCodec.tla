--------------------------- MODULE MCPacketCodec ----------------------------
\* Payloads up to two bytes, one of them too large to be encoded.
EXTENDS PacketCodec

MCPayloads == {<<>>, <<2>>, <<0, 1>>, <<1, 1, 1>>}
=============================================================================
