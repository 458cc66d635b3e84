---------------------------- MODULE MCDeviceOps -----------------------------
(* An instance of DeviceOps for TLC. *)
EXTENDS DeviceOps

CONSTANTS D0, D1, D2, M0, M1

MCWord   == {D0, D1, D2}
MCDevice == {M0, M1}
MCBit    == {0, 1}
MCLadder == {D2, M1}

WordValue(w, v)   == [on |-> w, value |-> [n \in MCBit |-> n \in v]]
BitValue(d, v)    == [on |-> d, value |-> v]
WordBit(w, n, v)  == [word |-> w, on |-> n, value |-> v]
Write(ws, bs, wbs) == [kind |-> "write", words |-> ws, bits |-> bs, wordBits |-> wbs]
Read(ws, bs)       == [kind |-> "read", words |-> ws, bits |-> bs]

(* mixed: words, bit devices and word bits of three words, the entries of  *)
(* D0 apart from one another, one bit named twice; twoBits: /write D0.0    *)
(* with two values; snapshot: /random-read of words and bit devices.       *)
MCBody ==
    [mixed    |-> Write(<<WordValue(D0, {0})>>,
                        <<BitValue(M0, TRUE), BitValue(M1, FALSE), BitValue(M0, FALSE)>>,
                        <<WordBit(D0, 1, TRUE), WordBit(D1, 0, TRUE), WordBit(D2, 0, TRUE),
                          WordBit(D0, 0, FALSE), WordBit(D0, 1, FALSE)>>),
     twoBits  |-> Write(<<>>, <<>>, <<WordBit(D0, 0, TRUE), WordBit(D0, 1, TRUE)>>),
     snapshot |-> Read(<<[on |-> D0], [on |-> D2], [on |-> D1]>>,
                       <<[on |-> M1], [on |-> M0]>>)]

MCRequests == DOMAIN MCBody
=============================================================================
