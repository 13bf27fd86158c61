--------------------------- MODULE MCSessionCodec ---------------------------
(* Small field values for the codec: the byte extremes for the priority    *)
(* and qos, ids whose big-endian form uses one, two and four bytes, and    *)
(* the two shapes of marshalled SessionData: "{}" and {"error":"x"};      *)
(* forged length fields above and below the variants' fixed fields.      *)
EXTENDS SessionCodec

MCPriorities == {0, 255}
MCQoses == {0, 15}
MCIDs == {0, 1, 258, 16909060}
MCBlobs == {<<123, 125>>,
            <<123, 34, 101, 114, 114, 111, 114, 34, 58, 34, 120, 34, 125>>}
MCMaxCut == 3
\* A length field longer than the fixed fields of every variant, which
\* cuts into the JSON or runs past the payload.
MCForgedLens == {20}
\* A length field shorter than the fixed fields of three variants.
MCShortLens == {9}
=============================================================================
